---------------------------- MODULE Boards_proofs ----------------------------
(***************************************************************************)
(* Proofs about the two parts of MCBoards.                                 *)
(*                                                                         *)
(* First the readings of one device, for any number of credentials and     *)
(* samples.                                                                *)
(*                                                                         *)
(* Then the pictures of a camera: the card keeps to its limits and leaves  *)
(* other devices' files alone, and no whole record disappears without a    *)
(* reason.  That starts from what scan_limits does to a directory:         *)
(* evicting by age is counting ranks, because captured_at and id order the *)
(* frames strictly.                                                        *)
(***************************************************************************)
EXTENDS DeviceTelemetry, Camera, FiniteSetTheorems, FunctionTheorems, TLAPS

(***************************************************************************)
(* The readings: the inductive invariant.                                  *)
(***************************************************************************)

\* A request is only on its way for a packet, and a reply is kept until it is acted on.
LoopInv ==
  /\ run.pc \in {"sent", "answered"} => run.packet # NoPacket
  /\ run.pc \in {"off", "idle", "sent"} => run.reply = "none"

\* A packet that was encoded, not the absence of one.
Real(p) == p.seq # -1 /\ p.sample # 0

Shape ==
  /\ ShapesOK /\ IsFiniteSet(files) /\ LoopInv
  /\ \A p \in packets : Real(p)
  /\ \A m \in stray : Real(m.packet)
  /\ run.packet # NoPacket => Real(run.packet)
  /\ nvs.packet # NoPacket => Real(nvs.packet)

\* The tables agree with each other.
TableInv ==
  /\ LatestIsNewest
  /\ packets = {} => latest = NoPacket
  /\ version = 0 => lastSeq = -1

\* A credential is in at most one file, and not in one while it is still sealed.
FileInv ==
  /\ \A f \in files : f.version <= version
  /\ \A f \in files : f.version = version => ~handoff.sealed /\ f.start = handoff.start
  /\ \A f, g \in files : f.version = g.version => f = g

\* The current credential has been on a device.
Used == \E f \in spent : f.version = version

\* Only a used credential can have advanced last_seq since it was issued.
UseInv ==
  /\ version # 0 /\ ~Used => lastSeq < handoff.start
  /\ config.version <= version /\ (version # 0 /\ config.version = version => Used)
  /\ \A m \in stray : m.version <= version /\ (version # 0 /\ m.version = version => Used)

\* Where the device that holds the current credential is in its sequence.
NextFree == IF nvs.saved THEN nvs.next ELSE config.start
Ahead ==
  /\ lastSeq < NextFree
  /\ run.pc \in {"idle", "sent", "answered"} => run.packet = nvs.packet /\ run.next = NextFree
  /\ nvs.packet # NoPacket => nvs.saved /\ nvs.packet.seq = nvs.next - 1

\* Its pending packet is the only one under its sequence, stored or on its way.
Exclusive ==
  /\ nvs.packet # NoPacket => \A q \in packets : q.seq = nvs.packet.seq => q = nvs.packet
  /\ \A m \in stray : m.version = version =>
       /\ m.packet.seq < NextFree
       /\ nvs.packet # NoPacket /\ m.packet.seq = nvs.packet.seq => m.packet = nvs.packet

SequenceInv == version # 0 /\ config.version = version => Ahead /\ Exclusive

\* A 202 the device holds is about a stored packet.
AckInv ==
  /\ run.reply = "202" => run.packet \in packets
  /\ AcknowledgedIsStored

Inv == Shape /\ TableInv /\ FileInv /\ UseInv /\ AckInv
SensorInv == board = "sensor" => SequenceInv /\ NoSequenceConflict

(***************************************************************************)
(* Types.                                                                  *)
(***************************************************************************)

LEMMA InitShape == Init => Shape
  <1> SUFFICES ASSUME Init PROVE Shape
    OBVIOUS
  <1> USE TelemetryAssumption DEF Init
  <1>1. IdentityOK /\ BenchOK /\ StrayOK
    <2>1. version \in 0..MaxVersions
      BY DEF Init
    <2>2. handoff \in [sealed : BOOLEAN, fresh : BOOLEAN, signer : Signers \cup {None}, start : Nat]
      BY DEF NoHandoff
    <2>3. reissued \in [id : RequestIds \cup {None}, from : Nat]
      OBVIOUS
    <2> QED
      BY <2>1, <2>2, <2>3 DEF IdentityOK, BenchOK, StrayOK
  <1>2. TablesOK /\ DeviceOK
    BY DEF TablesOK, DeviceOK, PacketType, NoPacket, NoConfig, NoState, Off, Replies
  <1>3. IsFiniteSet(files)
    BY FS_EmptySet
  <1>4. LoopInv
    BY DEF LoopInv, Off
  <1> QED
    BY <1>1, <1>2, <1>3, <1>4 DEF Shape, ShapesOK, NoState, Off

\* What a step leaves alone keeps its type.
LEMMA LeftAlone ==
  /\ IdentityOK /\ UNCHANGED identity => IdentityOK'
  /\ TablesOK /\ UNCHANGED tables => TablesOK'
  /\ BenchOK /\ UNCHANGED bench => BenchOK'
  /\ DeviceOK /\ UNCHANGED device => DeviceOK'
  /\ StrayOK /\ UNCHANGED stray => StrayOK'
  BY DEF IdentityOK, identity, TablesOK, tables, BenchOK, bench, DeviceOK, device, StrayOK

\* Whatever cloudlink does with a request, the tables keep their types.
LEMMA IngestTypes ==
  ASSUME NEW m, NEW reply, TablesOK, m.packet \in PacketType, Real(m.packet),
         \A p \in packets : Real(p), Ingest(m, reply)
  PROVE  TablesOK' /\ \A p \in packets' : Real(p)
  <1>1. CASE UNCHANGED tables
    BY <1>1, LeftAlone DEF tables
  <1>2. CASE Store(m.packet)
    BY <1>2 DEF Store, TablesOK, PacketType, Real
  <1> QED
    BY <1>1, <1>2 DEF Ingest

LEMMA ShapeStep == Shape /\ [Next]_vars => Shape'
  <1> SUFFICES ASSUME Shape, [Next]_vars PROVE Shape'
    OBVIOUS
  <1> USE TelemetryAssumption
  <1>t. IdentityOK /\ TablesOK /\ BenchOK /\ DeviceOK /\ StrayOK /\ IsFiniteSet(files)
    BY DEF Shape, ShapesOK
  <1>l. LoopInv
    BY DEF Shape
  <1>s. /\ \A p \in packets : Real(p)
        /\ \A m \in stray : Real(m.packet)
        /\ run.packet # NoPacket => Real(run.packet)
        /\ nvs.packet # NoPacket => Real(nvs.packet)
    BY DEF Shape
  <1>0. CASE UNCHANGED vars
    BY <1>0, <1>t, <1>l, <1>s, LeftAlone
    DEF vars, Shape, ShapesOK, LoopInv, device, bench, tables
  \* The gateway changes the identity row and the files only.
  <1>a. ASSUME IdentityOK', BenchOK', IsFiniteSet(files'), UNCHANGED <<tables, device, stray>>
        PROVE  Shape'
    BY <1>a, <1>t, <1>l, <1>s, LeftAlone DEF Shape, ShapesOK, LoopInv, device, tables
  <1>n. 0 \in Nat /\ \A v \in 0..MaxVersions : v \in Nat
    OBVIOUS
  <1>1. ASSUME NEW s \in Signers, Claim(s) PROVE Shape'
    <2>1. IdentityOK'
      BY <1>1, <1>t DEF Claim, IdentityOK, Sealed
    <2> QED
      BY <1>1, <1>a, <1>t, <2>1, LeftAlone DEF Claim, bench
  <1>2. ASSUME NEW s \in Signers, NEW id \in RequestIds, NEW v \in 1..MaxVersions, Reissue(s, id, v)
        PROVE  Shape'
    <2>1. NextSequence \in Nat
      BY <1>t DEF NextSequence, TablesOK
    <2>2. IdentityOK'
      BY <1>2, <1>t, <2>1 DEF Reissue, IdentityOK, Sealed
    <2> QED
      BY <1>2, <1>a, <1>t, <2>2, LeftAlone DEF Reissue, bench
  <1>3. ASSUME NEW s \in Signers, NEW v \in 1..MaxVersions, Download(s, v) PROVE Shape'
    <2>1. IdentityOK'
      BY <1>3, <1>t DEF Download, IdentityOK, Consumed
    <2>2. Cardinality(files) \in Nat
      BY <1>t, FS_CardinalityType
    <2>3. handoff.start \in Nat /\ version \in Nat
      BY <1>t DEF IdentityOK
    <2>4. BenchOK'
      BY <1>3, <1>t, <2>2, <2>3 DEF Download, BenchOK
    <2>5. IsFiniteSet(files')
      <3> DEFINE f == [version |-> version, start |-> handoff.start, copy |-> Cardinality(files)]
      <3>1. IsFiniteSet(files \cup {f})
        BY <1>t, FS_AddElement
      <3> QED
        BY <1>3, <1>t, <3>1 DEF Download
    <2> QED
      BY <1>3, <1>a, <2>1, <2>4, <2>5 DEF Download
  <1>4. ASSUME HandoffExpires PROVE Shape'
    <2>1. IdentityOK'
      BY <1>4, <1>t DEF HandoffExpires, IdentityOK
    <2> QED
      BY <1>4, <1>a, <1>t, <2>1, LeftAlone DEF HandoffExpires, bench
  <1>5. ASSUME NEW v \in 1..MaxVersions, Revoke(v) PROVE Shape'
    <2>1. IdentityOK'
      BY <1>5, <1>t DEF Revoke, IdentityOK
    <2> QED
      BY <1>5, <1>a, <1>t, <2>1, LeftAlone DEF Revoke, bench
  <1>6. ASSUME NEW f \in files, Install(f) PROVE Shape'
    <2>1. BenchOK' /\ IsFiniteSet(files')
      BY <1>6, <1>t DEF Install, BenchOK
    <2>2. f.version \in Nat /\ f.start \in Nat
      BY <1>t DEF BenchOK
    <2>3. DeviceOK'
      <3>1. config' \in [version : Nat, start : Nat]
        BY <1>6, <1>t, <2>2 DEF Install, DeviceOK, NoConfig
      <3>2. NoState \in [saved : BOOLEAN, packet : PacketType, next : Nat]
        BY DEF NoState, NoPacket, PacketType
      <3>3. nvs' \in [saved : BOOLEAN, packet : PacketType, next : Nat]
        BY <1>6, <1>t, <3>2 DEF Install, DeviceOK
      <3> QED
        BY <1>6, <1>t, <3>1, <3>3 DEF Install, DeviceOK
    <2>4. nvs'.packet # NoPacket => Real(nvs'.packet)
      BY <1>6, <1>s DEF Install, NoState
    <2>5. LoopInv'
      BY <1>6, <1>l DEF Install, LoopInv
    <2> QED
      BY <1>6, <1>t, <1>s, <2>1, <2>3, <2>4, <2>5, LeftAlone DEF Install, Shape, ShapesOK, tables, identity
  <1>7. ASSUME NEW reply \in Replies, Handle(reply) PROVE Shape'
    <2>1. Request.packet = run.packet /\ run.packet \in PacketType /\ Real(run.packet)
      BY <1>7, <1>t, <1>l, <1>s DEF Handle, Request, LoopInv, DeviceOK
    <2>2. TablesOK' /\ \A p \in packets' : Real(p)
      BY <1>7, <1>t, <1>s, <2>1, IngestTypes DEF Handle
    <2>3. DeviceOK' /\ LoopInv' /\ run'.packet = run.packet
      BY <1>7, <1>t, <1>l DEF Handle, DeviceOK, LoopInv
    <2> QED
      BY <1>7, <1>t, <1>s, <2>2, <2>3, LeftAlone DEF Handle, Shape, ShapesOK, bench
  <1>8. ASSUME NEW m \in stray, HandleStray(m) PROVE Shape'
    <2>1. m.packet \in PacketType /\ Real(m.packet)
      BY <1>t, <1>s DEF StrayOK
    <2>2. TablesOK' /\ \A p \in packets' : Real(p)
      BY <1>8, <1>t, <1>s, <2>1, IngestTypes DEF HandleStray
    <2>3. StrayOK' /\ \A n \in stray' : Real(n.packet)
      BY <1>8, <1>t, <1>s DEF HandleStray, StrayOK
    <2> QED
      BY <1>8, <1>t, <1>l, <1>s, <2>2, <2>3, LeftAlone
      DEF HandleStray, Shape, ShapesOK, bench, device, LoopInv
  \* The firmware changes its own state and the requests on their way only.
  <1>b. ASSUME DeviceOK', StrayOK', LoopInv', UNCHANGED <<identity, tables, bench>>,
               \A m \in stray' : Real(m.packet),
               run'.packet # NoPacket => Real(run'.packet),
               nvs'.packet # NoPacket => Real(nvs'.packet)
        PROVE  Shape'
    BY <1>b, <1>t, <1>s, LeftAlone DEF Shape, ShapesOK, bench, tables
  <1>9. ASSUME Boot PROVE Shape'
    <2>1. DeviceOK' /\ LoopInv'
      <3> DEFINE RunType == [pc : {"off", "idle", "sent", "answered", "stopped"}, next : Nat,
                             packet : PacketType, reply : Replies \cup {"none"}]
      <3>1. NoPacket \in PacketType
        BY DEF NoPacket, PacketType
      <3>u. UNCHANGED <<config, nvs, samples, done>>
        BY <1>9 DEF Boot
      <3>v. ASSUME run' \in RunType, run'.pc \in {"stopped", "idle"}, run'.reply = "none"
            PROVE  DeviceOK' /\ LoopInv'
        BY <3>u, <3>v, <1>t DEF DeviceOK, LoopInv
      <3>2. CASE nvs.saved /\ nvs.next < config.start
        <4>1. run' = [pc |-> "stopped", next |-> 0, packet |-> NoPacket, reply |-> "none"]
          BY <1>9, <3>2 DEF Boot, Off
        <4> QED
          BY <3>v, <3>1, <4>1
      <3>3. CASE ~(nvs.saved /\ nvs.next < config.start)
        <4>1. PICK n \in {nvs.next, config.start} :
                run' = [pc |-> "idle", next |-> n, packet |-> nvs.packet, reply |-> "none"]
          BY <1>9, <3>3 DEF Boot, Off
        <4>2. n \in Nat /\ nvs.packet \in PacketType
          BY <1>t DEF DeviceOK
        <4> QED
          BY <3>v, <4>1, <4>2
      <3> QED
        BY <3>2, <3>3
    <2>2. run'.packet # NoPacket => Real(run'.packet)
      BY <1>9, <1>s, <1>t DEF Boot, Off, DeviceOK
    <2> QED
      BY <1>9, <1>b, <1>t, <1>s, <2>1, <2>2, LeftAlone DEF Boot
  <1>e. ASSUME NEW ts \in Stamps, samples < MaxSamples
        PROVE  /\ Encoded(ts) \in PacketType /\ Real(Encoded(ts)) /\ Bound(ts).packet = Encoded(ts)
               /\ Bound(ts) \in [saved : BOOLEAN, packet : PacketType, next : Nat]
               /\ run.next + 1 \in Nat /\ samples + 1 \in 0..MaxSamples
    BY <1>e, <1>t DEF DeviceOK, Encoded, Bound, PacketType, Real
  <1>10. ASSUME NEW ts \in Stamps, Sample(ts) PROVE Shape'
    <2>1. DeviceOK' /\ LoopInv'
      BY <1>10, <1>e, <1>t, <1>l DEF Sample, DeviceOK, LoopInv
    <2>2. run'.packet = Encoded(ts) /\ nvs'.packet = Encoded(ts)
      BY <1>10, <1>e, <1>t DEF Sample, DeviceOK
    <2> QED
      BY <1>10, <1>b, <1>e, <1>t, <1>s, <2>1, <2>2, LeftAlone DEF Sample
  <1>11. ASSUME NEW ts \in Stamps, SampleFails(ts) PROVE Shape'
    <2>1. DeviceOK' /\ LoopInv'
      BY <1>11, <1>e, <1>t, <1>l DEF SampleFails, DeviceOK, LoopInv, Stalled
    <2>2. run'.packet = run.packet /\ nvs'.packet \in {nvs.packet, Encoded(ts)}
      BY <1>11, <1>e, <1>t DEF SampleFails, DeviceOK, Stalled
    <2> QED
      BY <1>11, <1>b, <1>e, <1>t, <1>s, <2>1, <2>2, LeftAlone DEF SampleFails
  <1>12. ASSUME Send PROVE Shape'
    <2>1. DeviceOK' /\ LoopInv' /\ run'.packet = run.packet
      BY <1>12, <1>t, <1>l DEF Send, DeviceOK, LoopInv
    <2> QED
      BY <1>12, <1>b, <1>t, <1>s, <2>1, LeftAlone DEF Send
  <1>r. ASSUME run.pc = "sent" PROVE {Request} \subseteq [version : Nat, packet : PacketType]
                                     /\ Real(Request.packet)
    BY <1>r, <1>t, <1>l, <1>s DEF Request, DeviceOK, LoopInv
  <1>13. ASSUME GiveUp PROVE Shape'
    <2>1. DeviceOK' /\ LoopInv' /\ run'.packet = run.packet
      BY <1>13, <1>t, <1>l DEF GiveUp, DeviceOK, LoopInv
    <2>2. StrayOK' /\ \A m \in stray' : Real(m.packet)
      BY <1>13, <1>r, <1>t, <1>s DEF GiveUp, StrayOK
    <2> QED
      BY <1>13, <1>b, <1>s, <2>1, <2>2 DEF GiveUp
  <1>c. Cleared(nvs) \in [saved : BOOLEAN, packet : PacketType, next : Nat]
        /\ Cleared(nvs).packet = NoPacket
    BY <1>t DEF Cleared, DeviceOK, NoState, NoPacket, PacketType
  <1>14. ASSUME Acknowledged PROVE Shape'
    <2>0. run.packet.sample \in 1..MaxSamples
      BY <1>14, <1>t, <1>l, <1>s DEF Acknowledged, DeviceOK, LoopInv, Real, PacketType
    <2>1. DeviceOK' /\ LoopInv' /\ run'.packet = NoPacket
      BY <1>14, <1>t, <1>l, <1>c, <2>0 DEF Acknowledged, DeviceOK, LoopInv, NoPacket, PacketType
    <2> QED
      BY <1>14, <1>b, <1>c, <1>t, <1>s, <2>1, LeftAlone DEF Acknowledged
  <1>15. ASSUME ClearFails PROVE Shape'
    <2>1. DeviceOK' /\ LoopInv' /\ run'.packet = run.packet
      BY <1>15, <1>t, <1>l, <1>c DEF ClearFails, DeviceOK, LoopInv, Stalled
    <2> QED
      BY <1>15, <1>b, <1>c, <1>t, <1>s, <2>1, LeftAlone DEF ClearFails
  <1>16. ASSUME Rejected PROVE Shape'
    <2>1. DeviceOK' /\ LoopInv' /\ run'.packet = run.packet
      BY <1>16, <1>t, <1>l DEF Rejected, DeviceOK, LoopInv
    <2> QED
      BY <1>16, <1>b, <1>t, <1>s, <2>1, LeftAlone DEF Rejected
  <1>17. ASSUME Retry PROVE Shape'
    <2>1. DeviceOK' /\ LoopInv' /\ run'.packet = run.packet
      BY <1>17, <1>t, <1>l DEF Retry, DeviceOK, LoopInv
    <2> QED
      BY <1>17, <1>b, <1>t, <1>s, <2>1, LeftAlone DEF Retry
  <1>18. ASSUME PowerLoss PROVE Shape'
    <2>1. DeviceOK' /\ LoopInv' /\ run'.packet = NoPacket
      BY <1>18, <1>t DEF PowerLoss, DeviceOK, LoopInv, Off, NoPacket, PacketType
    <2>2. StrayOK' /\ \A m \in stray' : Real(m.packet)
      BY <1>18, <1>r, <1>t, <1>s DEF PowerLoss, StrayOK
    <2> QED
      BY <1>18, <1>b, <1>s, <2>1, <2>2 DEF PowerLoss
  <1> QED
    BY <1>0, <1>1, <1>2, <1>3, <1>4, <1>5, <1>6, <1>7, <1>8, <1>9, <1>10, <1>11, <1>12,
       <1>13, <1>14, <1>15, <1>16, <1>17, <1>18
    DEF Next, Provisioning, Cloud, Firmware

(***************************************************************************)
(* The tables.                                                             *)
(***************************************************************************)

\* A request that is stored is stored whole; any other leaves the tables alone.
LEMMA IngestCases ==
  ASSUME NEW m, NEW reply, Ingest(m, reply)
  PROVE  \/ UNCHANGED tables
         \/ Authorized(m) /\ Prior(m.packet) = {} /\ Store(m.packet)
  BY DEF Ingest

LEMMA StoreKeepsTables ==
  ASSUME NEW p \in PacketType, Real(p), TablesOK, TableInv, Prior(p) = {}, Store(p),
         version # 0, version' = version
  PROVE  TableInv'
  <1>1. \A q \in packets : q.seq # p.seq
    BY DEF Prior
  <1>2. packets' = packets \cup {p}
    BY DEF Store
  <1>3. status' = lastSeq' /\ lastSeq <= lastSeq' /\ p.seq <= lastSeq' /\ lastSeq' \in Int
    <2>1. status = lastSeq /\ lastSeq \in Int /\ p.seq \in Int
      BY DEF TableInv, LatestIsNewest, TablesOK, PacketType
    <2> QED
      BY <2>1 DEF Store
  <1>4. \A q \in packets' : q.seq <= lastSeq'
    <2>1. \A q \in packets : q.seq \in Int /\ q.seq <= lastSeq /\ lastSeq \in Int
      BY DEF TableInv, LatestIsNewest, TablesOK, PacketType
    <2> QED
      BY <1>2, <1>3, <2>1
  <1>5. CASE Newer(p, latest)
    <2>1. latest' = p
      BY <1>5 DEF Store
    <2>2. \A q \in packets : q.ts < p.ts \/ (q.ts = p.ts /\ q.seq <= p.seq)
      BY <1>5 DEF Newer, TableInv, LatestIsNewest, TablesOK, PacketType
    <2> QED
      BY <1>2, <1>3, <1>4, <2>1, <2>2 DEF TableInv, LatestIsNewest, PacketType
  <1>6. CASE ~Newer(p, latest)
    <2>1. latest' = latest
      BY <1>6 DEF Store
    <2>2. packets # {}
      BY <1>6 DEF Newer, TableInv, NoPacket, PacketType, Real
    <2>3. p.ts < latest.ts \/ (p.ts = latest.ts /\ p.seq <= latest.seq)
      BY <1>6 DEF Newer, TablesOK, PacketType
    <2>4. latest \in packets
      BY <2>2 DEF TableInv, LatestIsNewest
    <2>5. latest' \in packets' /\ packets' # {}
      BY <1>2, <2>1, <2>4
    <2>6. \A q \in packets' : q.ts < latest'.ts \/ (q.ts = latest'.ts /\ q.seq <= latest'.seq)
      BY <1>2, <2>1, <2>3 DEF TableInv, LatestIsNewest
    <2> QED
      BY <1>3, <1>4, <2>5, <2>6 DEF TableInv, LatestIsNewest
  <1> QED
    BY <1>5, <1>6

\* The packet of a request cloudlink handles.
LEMMA Handled ==
  ASSUME Shape
  PROVE  /\ run.pc = "sent" => Request.packet \in PacketType /\ Real(Request.packet)
         /\ \A m \in stray : m.packet \in PacketType /\ Real(m.packet)
  BY DEF Shape, ShapesOK, DeviceOK, StrayOK, LoopInv, Request

\* What a step can do to the tables and to the version.
LEMMA StepKinds ==
  ASSUME [Next]_vars
  PROVE  \/ UNCHANGED tables /\ (version' = version \/ (version = 0 /\ version' = 1) \/ (version # 0 /\ version' = version + 1))
         \/ /\ version' = version
            /\ \E reply \in Replies : run.pc = "sent" /\ Ingest(Request, reply)
         \/ /\ version' = version
            /\ \E m \in stray : \E reply \in Replies : Ingest(m, reply)
  <1>1. CASE UNCHANGED vars
    BY <1>1 DEF vars, identity
  <1>2. CASE Provisioning
    BY <1>2 DEF Provisioning, HandoffExpires, Claim, Revoke, Download, Reissue, Install, identity
  <1>3. CASE Cloud
    BY <1>3 DEF Cloud, Handle, HandleStray, identity
  <1>4. CASE Firmware
    BY <1>4 DEF Firmware, Boot, Send, GiveUp, Acknowledged, ClearFails, Rejected, Retry, PowerLoss,
                Sample, SampleFails, identity
  <1> QED
    BY <1>1, <1>2, <1>3, <1>4 DEF Next

LEMMA TableStep == Shape /\ TableInv /\ [Next]_vars => TableInv'
  <1> SUFFICES ASSUME Shape, TableInv, [Next]_vars PROVE TableInv'
    OBVIOUS
  <1>0. TablesOK /\ version \in Nat
    BY DEF Shape, ShapesOK, IdentityOK
  <1>1. CASE /\ UNCHANGED tables
             /\ \/ version' = version
                \/ version = 0 /\ version' = 1
                \/ version # 0 /\ version' = version + 1
    BY <1>0, <1>1 DEF tables, TableInv, LatestIsNewest
  <1>2. ASSUME NEW m, NEW reply, Ingest(m, reply), m.packet \in PacketType, Real(m.packet),
               version' = version
        PROVE  TableInv'
    <2>1. CASE UNCHANGED tables
      BY <1>2, <2>1 DEF tables, TableInv, LatestIsNewest
    <2>2. CASE Authorized(m) /\ Prior(m.packet) = {} /\ Store(m.packet)
      BY <1>0, <1>2, <2>2, StoreKeepsTables DEF Authorized
    <2> QED
      BY <1>2, <2>1, <2>2, IngestCases
  <1> QED
    BY <1>1, <1>2, StepKinds, Handled

(***************************************************************************)
(* Credentials and files.                                                  *)
(***************************************************************************)

LEMMA FileStep == Shape /\ FileInv /\ [Next]_vars => FileInv'
  <1> SUFFICES ASSUME Shape, FileInv, [Next]_vars PROVE FileInv'
    OBVIOUS
  <1>t. version \in Nat /\ \A f \in files : f.version \in Nat
    BY DEF Shape, ShapesOK, IdentityOK, BenchOK
  <1>u. CASE UNCHANGED <<version, handoff, files>>
    BY <1>u DEF FileInv
  <1>1. ASSUME NEW s, Claim(s) PROVE FileInv'
    BY <1>1, <1>t DEF Claim, FileInv, bench, Sealed
  <1>2. ASSUME NEW s, NEW id, NEW v, Reissue(s, id, v) PROVE FileInv'
    BY <1>2, <1>t DEF Reissue, FileInv, bench, Sealed
  <1>3. ASSUME NEW s, NEW v, Download(s, v) PROVE FileInv'
    <2>1. handoff'.start = handoff.start /\ ~handoff'.sealed /\ version' = version /\ handoff.sealed
      BY <1>3 DEF Download, Consumed, Shape, ShapesOK, IdentityOK
    <2>2. CASE UNCHANGED files
      BY <2>1, <2>2 DEF FileInv
    <2>3. CASE files' = files \cup {[version |-> version, start |-> handoff.start,
                                     copy |-> Cardinality(files)]}
      BY <1>t, <2>1, <2>3 DEF FileInv
    <2> QED
      BY <1>3, <2>2, <2>3 DEF Download
  <1>4. ASSUME HandoffExpires PROVE FileInv'
    BY <1>4 DEF HandoffExpires, FileInv, bench, Shape, ShapesOK, IdentityOK
  <1>5. ASSUME NEW v, Revoke(v) PROVE FileInv'
    BY <1>5 DEF Revoke, FileInv, bench, Shape, ShapesOK, IdentityOK
  <1> QED
    BY <1>u, <1>1, <1>2, <1>3, <1>4, <1>5
    DEF Next, Provisioning, Cloud, Firmware, vars, identity, bench, Install, Handle, HandleStray, Boot,
        Send, GiveUp, Acknowledged, ClearFails, Rejected, Retry, PowerLoss, Sample, SampleFails

\* Each step that can disturb it: who issues, installs, stores or sends.
LEMMA UseStep == Shape /\ TableInv /\ FileInv /\ UseInv /\ [Next]_vars => UseInv'
  <1> SUFFICES ASSUME Shape, TableInv, FileInv, UseInv, [Next]_vars PROVE UseInv'
    OBVIOUS
  <1>t. /\ version \in Nat /\ lastSeq \in Int /\ handoff.start \in Nat /\ config.version \in Nat
        /\ spent \subseteq files /\ (\A f \in files : f.version \in Nat)
        /\ \A m \in stray : m.version \in Nat
    BY DEF Shape, ShapesOK, IdentityOK, TablesOK, BenchOK, DeviceOK, StrayOK
  <1>u. CASE UNCHANGED <<version, handoff, spent, config, lastSeq, stray>>
    BY <1>u DEF UseInv, Used
  \* A new version that no file, device or request has.
  <1>f. ASSUME version' > version, version' \in Nat, UNCHANGED <<spent, config, stray, lastSeq>>,
               lastSeq < handoff'.start
        PROVE  UseInv'
    BY <1>f, <1>t DEF UseInv, Used, FileInv
  <1>1. ASSUME NEW s, Claim(s) PROVE UseInv'
    BY <1>1, <1>f, <1>t DEF Claim, Sealed, TableInv, bench, device, tables
  <1>2. ASSUME NEW s, NEW id, NEW v, Reissue(s, id, v) PROVE UseInv'
    <2>1. version' = version + 1 /\ handoff'.start = NextSequence
          /\ UNCHANGED <<spent, config, stray, lastSeq>>
      BY <1>2 DEF Reissue, Sealed, bench, device, tables
    <2>2. lastSeq < NextSequence
      BY <1>t DEF NextSequence
    <2> QED
      BY <1>f, <1>t, <2>1, <2>2
  <1>3. ASSUME UNCHANGED <<version, spent, config, stray, lastSeq>>, handoff'.start = handoff.start
        PROVE  UseInv'
    BY <1>3 DEF UseInv, Used
  <1>4. ASSUME NEW s, NEW v, Download(s, v) PROVE UseInv'
    BY <1>4, <1>3 DEF Download, Consumed, Shape, ShapesOK, IdentityOK, device, tables
  <1>5. ASSUME HandoffExpires PROVE UseInv'
    BY <1>5, <1>3 DEF HandoffExpires, Shape, ShapesOK, IdentityOK, device, tables, bench
  <1>6. ASSUME NEW v, Revoke(v) PROVE UseInv'
    BY <1>6, <1>3 DEF Revoke, Shape, ShapesOK, IdentityOK, device, tables, bench
  <1>7. ASSUME NEW f \in files, Install(f) PROVE UseInv'
    <2>1. UNCHANGED <<version, handoff, lastSeq, stray>> /\ spent' = spent \cup {f}
      BY <1>7 DEF Install, identity, tables
    <2>2. config'.version \in {f.version, 0, config.version}
      BY <1>7 DEF Install, NoConfig
    <2>3. f.version <= version /\ f \in spent' /\ (Used => Used')
      BY <2>1 DEF FileInv, Used
    <2> QED
      BY <1>t, <2>1, <2>2, <2>3 DEF UseInv, Used
  <1>8. ASSUME NEW m, NEW reply, Ingest(m, reply), version # 0 /\ m.version = version => Used,
               UNCHANGED <<version, handoff, spent, config>>, stray' \subseteq stray
        PROVE  UseInv'
    <2>1. CASE UNCHANGED tables
      BY <1>8, <2>1 DEF tables, UseInv, Used
    <2>2. CASE Authorized(m)
      BY <1>8, <2>2 DEF Authorized, UseInv, Used
    <2> QED
      BY <1>8, <2>1, <2>2, IngestCases
  <1>9. ASSUME NEW reply \in Replies, Handle(reply) PROVE UseInv'
    BY <1>8, <1>9 DEF Handle, Request, UseInv, identity, bench
  <1>10. ASSUME NEW m \in stray, HandleStray(m) PROVE UseInv'
    BY <1>8, <1>10 DEF HandleStray, UseInv, identity, bench, device
  <1>11. ASSUME UNCHANGED <<version, handoff, spent, config, lastSeq>>,
                stray' \subseteq stray \cup {Request}
         PROVE  UseInv'
    BY <1>11 DEF UseInv, Used, Request
  <1>12. ASSUME GiveUp \/ PowerLoss PROVE UseInv'
    BY <1>11, <1>12 DEF GiveUp, PowerLoss, identity, tables, bench
  <1> QED
    BY <1>u, <1>1, <1>2, <1>4, <1>5, <1>6, <1>7, <1>9, <1>10, <1>12
    DEF Next, Provisioning, Cloud, Firmware, vars, identity, bench, tables, device, Boot,
        Send, Acknowledged, ClearFails, Rejected, Retry, Sample, SampleFails

(***************************************************************************)
(* Acknowledgments.                                                        *)
(***************************************************************************)

\* Cloudlink answers 202 only for a packet that is stored, and never removes one.
LEMMA AnswerIsStored ==
  ASSUME NEW m, NEW reply, Ingest(m, reply)
  PROVE  packets \subseteq packets' /\ (reply = "202" => m.packet \in packets')
  <1>1. CASE UNCHANGED tables /\ reply # "202"
    BY <1>1 DEF tables
  <1>2. CASE UNCHANGED tables /\ reply = "202"
    <2>1. CASE Replayed(m.packet)
      BY <1>2, <2>1 DEF tables, Replayed, Prior
    <2>2. CASE Store(m.packet)
      BY <2>2 DEF Store
    <2> QED
      BY <1>2, <2>1, <2>2 DEF Ingest
  <1>3. CASE Store(m.packet)
    BY <1>3 DEF Store
  <1> QED
    BY <1>1, <1>2, <1>3, IngestCases

LEMMA AckStep == Shape /\ AckInv /\ [Next]_vars => AckInv'
  <1> SUFFICES ASSUME Shape, AckInv, [Next]_vars PROVE AckInv'
    OBVIOUS
  <1>t. DeviceOK /\ LoopInv
    BY DEF Shape, ShapesOK
  <1>u. ASSUME packets \subseteq packets', UNCHANGED <<run, done>> PROVE AckInv'
    BY <1>u DEF AckInv, AcknowledgedIsStored
  <1>1. CASE Provisioning \/ UNCHANGED vars
    BY <1>u, <1>1 DEF Provisioning, Claim, Reissue, Download, HandoffExpires, Revoke, Install, device, tables, vars
  <1>2. ASSUME NEW reply \in Replies, Handle(reply) PROVE AckInv'
    <2>1. packets \subseteq packets' /\ (reply = "202" => run.packet \in packets')
      BY <1>2, AnswerIsStored DEF Handle, Request
    <2>2. run'.reply = reply /\ run'.packet = run.packet /\ done' = done
      BY <1>2, <1>t DEF Handle, DeviceOK
    <2> QED
      BY <2>1, <2>2 DEF AckInv, AcknowledgedIsStored
  <1>3. ASSUME NEW m \in stray, HandleStray(m) PROVE AckInv'
    BY <1>3, <1>u, AnswerIsStored DEF HandleStray, device
  \* The firmware keeps no 202, or keeps it with its packet.
  <1>4. ASSUME UNCHANGED <<packets, done>>,
               run'.reply # "202" \/ (run'.reply = run.reply /\ run'.packet = run.packet)
        PROVE  AckInv'
    BY <1>4 DEF AckInv, AcknowledgedIsStored
  <1>5. ASSUME Acknowledged PROVE AckInv'
    <2>1. run'.reply = "none" /\ done' = done \cup {run.packet.sample} /\ UNCHANGED packets
      BY <1>5, <1>t DEF Acknowledged, DeviceOK, tables
    <2>2. run.packet \in packets
      BY <1>5 DEF Acknowledged, AckInv
    <2> QED
      BY <2>1, <2>2 DEF AckInv, AcknowledgedIsStored
  <1>6. ASSUME Boot PROVE AckInv'
    <2>1. run'.reply = "none"
      BY <1>6 DEF Boot, Off
    <2> QED
      BY <1>4, <1>6, <2>1 DEF Boot, tables
  <1>7. ASSUME Send \/ Rejected PROVE AckInv'
    BY <1>4, <1>7, <1>t DEF Send, Rejected, tables, DeviceOK
  <1>8. ASSUME GiveUp \/ Retry \/ ClearFails \/ PowerLoss PROVE AckInv'
    <2>1. run'.reply = "none"
      <3>1. CASE GiveUp \/ Retry
        BY <3>1, <1>t DEF GiveUp, Retry, DeviceOK
      <3>2. CASE ClearFails
        BY <3>2, <1>t DEF ClearFails, Stalled, DeviceOK
      <3>3. CASE PowerLoss
        BY <3>3 DEF PowerLoss, Off
      <3> QED
        BY <1>8, <3>1, <3>2, <3>3
    <2>2. UNCHANGED <<packets, done>>
      BY <1>8 DEF GiveUp, Retry, ClearFails, PowerLoss, tables
    <2> QED
      BY <1>4, <2>1, <2>2
  <1>9. ASSUME NEW ts \in Stamps, Sample(ts) \/ SampleFails(ts) PROVE AckInv'
    <2>1. run'.reply = "none"
      BY <1>9, <1>t DEF Sample, SampleFails, Stalled, DeviceOK, LoopInv
    <2> QED
      BY <1>4, <1>9, <2>1 DEF Sample, SampleFails, tables
  <1> QED
    BY <1>1, <1>2, <1>3, <1>5, <1>6, <1>7, <1>8, <1>9 DEF Next, Cloud, Firmware

(***************************************************************************)
(* Sequences on the sensor board.                                          *)
(***************************************************************************)

Current == version # 0 /\ config.version = version

\* Storing a packet of the current credential, the pending one or an earlier one.
LEMMA StoreKeepsSequence ==
  ASSUME NEW p \in PacketType, Shape, Ahead, Exclusive, Store(p),
         p.seq < NextFree, nvs.packet # NoPacket /\ p.seq = nvs.packet.seq => p = nvs.packet,
         UNCHANGED <<version, config, nvs>>, stray' \subseteq stray
  PROVE  lastSeq' < NextFree' /\ Exclusive'
  <1>1. NextFree' = NextFree /\ NextFree \in Nat
    BY DEF NextFree, Shape, ShapesOK, DeviceOK
  <1>2. packets' = packets \cup {p} /\ lastSeq' \in {p.seq, lastSeq}
    BY DEF Store
  <1>3. lastSeq' < NextFree'
    BY <1>1, <1>2 DEF Ahead
  <1> QED
    BY <1>1, <1>2, <1>3 DEF Exclusive

\* What handling a request does to the device of the current credential.
LEMMA IngestKeepsSequence ==
  ASSUME NEW m, NEW reply, Shape, Ahead, Exclusive, Ingest(m, reply),
         m.packet \in PacketType,
         m.version = version => /\ m.packet.seq < NextFree
                                /\ nvs.packet # NoPacket /\ m.packet.seq = nvs.packet.seq
                                     => m.packet = nvs.packet,
         UNCHANGED <<version, config, nvs>>, stray' \subseteq stray
  PROVE  lastSeq' < NextFree' /\ Exclusive'
  <1>1. CASE UNCHANGED tables
    BY <1>1 DEF tables, Ahead, Exclusive, NextFree
  <1>2. CASE Authorized(m) /\ Store(m.packet)
    BY <1>2, StoreKeepsSequence DEF Authorized
  <1> QED
    BY <1>1, <1>2, IngestCases

\* The firmware a device runs is given at the start.
LEMMA BoardFixed == [Next]_vars => board' = board
  BY DEF Next, Provisioning, Cloud, Firmware, Claim, Reissue, Download, HandoffExpires, Revoke, Install,
         Handle, HandleStray, Boot, Send, GiveUp, Acknowledged, ClearFails, Rejected, Retry, PowerLoss,
         Sample, SampleFails, vars

LEMMA SequenceStep ==
  ASSUME board = "sensor", Shape, TableInv, FileInv, UseInv, SequenceInv, NoSequenceConflict, [Next]_vars
  PROVE  SequenceInv' /\ NoSequenceConflict'
  <1>t. /\ version \in Nat /\ lastSeq \in Nat \cup {-1} /\ handoff.start \in Nat
        /\ packets \subseteq PacketType /\ spent \subseteq files
        /\ \A f \in files : f.version \in Nat /\ f.start \in Nat
    BY DEF Shape, ShapesOK, IdentityOK, TablesOK, BenchOK
  <1>d. DeviceOK /\ StrayOK /\ LoopInv
    BY DEF Shape, ShapesOK
  <1>p. \A q \in packets : q.seq <= lastSeq
    BY DEF TableInv, LatestIsNewest
  <1>c. Current => Ahead /\ Exclusive
    BY DEF SequenceInv, Current
  <1>g. (Current' => Ahead' /\ Exclusive') => SequenceInv'
    BY DEF SequenceInv, Current
  <1>u. ASSUME UNCHANGED <<version, config, packets, lastSeq, nvs, run, stray>>
        PROVE  SequenceInv' /\ NoSequenceConflict'
    BY <1>u DEF SequenceInv, Ahead, Exclusive, NextFree, NoSequenceConflict
  <1>1. ASSUME version' \in {1, version + 1}, version' > version, UNCHANGED <<config, run>>
        PROVE  SequenceInv' /\ NoSequenceConflict'
    <2>1. config'.version # version'
      BY <1>1, <1>t, <1>d DEF UseInv, DeviceOK
    <2> QED
      BY <1>1, <2>1 DEF SequenceInv, NoSequenceConflict
  <1>2. ASSUME NEW s, Claim(s) PROVE SequenceInv' /\ NoSequenceConflict'
    BY <1>1, <1>2, <1>t DEF Claim, device
  <1>3. ASSUME NEW s, NEW id, NEW v, Reissue(s, id, v) PROVE SequenceInv' /\ NoSequenceConflict'
    BY <1>1, <1>3, <1>t DEF Reissue, device
  <1>4. ASSUME NEW f \in files, Install(f) PROVE SequenceInv' /\ NoSequenceConflict'
    <2>1. /\ UNCHANGED <<version, handoff, packets, lastSeq, stray, run>> /\ run.pc = "off"
          /\ f \notin spent
      BY <1>4 DEF Install, identity, tables
    <2>2. CASE UNCHANGED <<config, nvs>>
      BY <1>u, <2>1, <2>2
    <2>3. CASE config' = NoConfig
      BY <2>1, <2>3 DEF NoConfig, SequenceInv, NoSequenceConflict
    <2>4. CASE config' = [version |-> f.version, start |-> f.start] /\ nvs' = NoState
      <3> SUFFICES ASSUME Current' PROVE Ahead' /\ Exclusive'
        BY <1>g, <2>1 DEF NoSequenceConflict
      <3>1. f.version = version /\ version # 0
        BY <2>1, <2>4 DEF Current
      <3>2. ~Used
        BY <1>t, <2>1, <3>1 DEF Used, FileInv
      <3>3. lastSeq < f.start
        BY <3>1, <3>2 DEF UseInv, FileInv
      <3>4. \A m \in stray : m.version # version
        BY <3>1, <3>2 DEF UseInv
      <3>5. ~nvs'.saved /\ nvs'.packet = NoPacket /\ config'.start = f.start
        BY <2>4 DEF NoState
      <3> QED
        BY <2>1, <3>3, <3>4, <3>5 DEF Ahead, Exclusive, NextFree
    <2> QED
      BY <1>4, <2>2, <2>3, <2>4 DEF Install
  <1>5. ASSUME NEW reply \in Replies, Handle(reply) PROVE SequenceInv' /\ NoSequenceConflict'
    <2>1. /\ run.pc = "sent" /\ Ingest(Request, reply) /\ run.packet \in PacketType
          /\ Request.packet = run.packet /\ Request.version = config.version
          /\ UNCHANGED <<version, config, nvs, stray>> /\ run.packet # NoPacket
          /\ run'.pc = "answered" /\ run'.packet = run.packet /\ run'.next = run.next
          /\ run'.reply = reply
      BY <1>5, <1>d DEF Handle, Request, DeviceOK, LoopInv, identity
    <2>2. SequenceInv'
      <3> SUFFICES ASSUME Current PROVE Ahead' /\ Exclusive'
        BY <1>g, <2>1 DEF Current
      <3>1. /\ Ahead /\ Exclusive /\ run.packet = nvs.packet /\ nvs.saved
            /\ run.packet.seq = nvs.next - 1 /\ nvs.next \in Nat
        BY <1>c, <1>d, <2>1 DEF Ahead, DeviceOK
      <3>2. lastSeq' < NextFree' /\ Exclusive'
        BY <2>1, <3>1, IngestKeepsSequence DEF NextFree
      <3> QED
        BY <2>1, <3>1, <3>2 DEF Ahead, NextFree
    <2>3. reply # "409"
      <3> SUFFICES ASSUME reply = "409" PROVE FALSE
        OBVIOUS
      <3>1. Authorized(Request) /\ Prior(run.packet) # {} /\ ~Replayed(run.packet)
        BY <2>1 DEF Ingest
      <3>2. Exclusive /\ run.packet = nvs.packet
        BY <1>c, <2>1, <3>1 DEF Authorized, Current, Ahead
      <3> QED
        BY <2>1, <3>1, <3>2 DEF Exclusive, Prior, Replayed
    <2> QED
      BY <2>1, <2>2, <2>3 DEF NoSequenceConflict
  <1>6. ASSUME NEW m \in stray, HandleStray(m) PROVE SequenceInv' /\ NoSequenceConflict'
    <2>1. /\ UNCHANGED <<version, config, nvs, run>> /\ stray' \subseteq stray
          /\ m.packet \in PacketType
      BY <1>6, <1>d DEF HandleStray, StrayOK, identity, device
    <2>2. PICK reply \in Replies : Ingest(m, reply)
      BY <1>6 DEF HandleStray
    <2>3. SequenceInv'
      <3> SUFFICES ASSUME Current PROVE Ahead' /\ Exclusive'
        BY <1>g, <2>1 DEF Current
      <3>1. lastSeq' < NextFree' /\ Exclusive'
        BY <1>c, <2>1, <2>2, IngestKeepsSequence DEF Exclusive
      <3> QED
        BY <1>c, <2>1, <3>1 DEF Ahead, NextFree
    <2> QED
      BY <2>1, <2>3 DEF NoSequenceConflict
  \* The firmware leaves the cloud alone and only adds requests for its pending packet.
  <1>v. ASSUME UNCHANGED <<version, config, packets, lastSeq, nvs>>,
               stray' = stray \/ (run.pc = "sent" /\ stray' = stray \cup {Request}),
               run'.pc \in {"idle", "sent", "answered"} =>
                  /\ run.pc \in {"idle", "sent", "answered"}
                  /\ run'.packet = run.packet /\ run'.next = run.next,
               run'.reply # "409"
        PROVE  SequenceInv' /\ NoSequenceConflict'
    <2> SUFFICES ASSUME Current PROVE Ahead' /\ Exclusive'
      BY <1>g, <1>v DEF Current, NoSequenceConflict
    <2>1. Ahead' /\ NextFree' = NextFree /\ NextFree \in Nat
      BY <1>c, <1>d, <1>v DEF Ahead, NextFree, DeviceOK
    <2>2. ASSUME run.pc = "sent"
          PROVE  Request.packet = nvs.packet /\ Request.packet.seq < NextFree
      BY <2>2, <1>c, <1>d DEF Request, Ahead, NextFree, DeviceOK, LoopInv
    <2> QED
      BY <1>c, <1>v, <2>1, <2>2 DEF Exclusive
  <1>7. ASSUME Send \/ Retry \/ Rejected \/ GiveUp \/ PowerLoss PROVE SequenceInv' /\ NoSequenceConflict'
    <2>1. UNCHANGED <<version, config, packets, lastSeq, nvs>>
      BY <1>7 DEF Send, Retry, Rejected, GiveUp, PowerLoss, identity, tables
    <2>2. stray' = stray \/ (run.pc = "sent" /\ stray' = stray \cup {Request})
      BY <1>7 DEF Send, Retry, Rejected, GiveUp, PowerLoss
    <2>3. /\ run'.reply \in {run.reply, "none"}
          /\ run'.pc \in {"idle", "sent", "answered"} =>
                  /\ run.pc \in {"idle", "sent", "answered"}
                  /\ run'.packet = run.packet /\ run'.next = run.next
      <3>1. CASE PowerLoss
        BY <3>1 DEF PowerLoss, Off
      <3>2. CASE Send \/ Retry
        BY <3>2, <1>d DEF Send, Retry, DeviceOK
      <3>3. CASE Rejected \/ GiveUp
        BY <3>3, <1>d DEF Rejected, GiveUp, DeviceOK
      <3> QED
        BY <1>7, <3>1, <3>2, <3>3
    <2> QED
      BY <1>v, <2>1, <2>2, <2>3 DEF NoSequenceConflict
  <1>8. ASSUME Boot PROVE SequenceInv' /\ NoSequenceConflict'
    <2>1. UNCHANGED <<version, config, packets, lastSeq, nvs, stray>> /\ NextFree' = NextFree
      BY <1>8 DEF Boot, identity, tables, NextFree
    <2>2. /\ run'.reply = "none"
          /\ run'.pc = "stopped" \/ (run'.packet = nvs.packet /\ run'.next = NextFree)
      BY <1>8 DEF Boot, Off, NextFree
    <2> SUFFICES ASSUME Current PROVE Ahead' /\ Exclusive'
      BY <1>g, <2>1, <2>2 DEF Current, NoSequenceConflict
    <2> QED
      BY <1>c, <2>1, <2>2 DEF Ahead, Exclusive
  <1>e. ASSUME NEW ts \in Stamps, run.pc = "idle", samples < MaxSamples, Current,
               nvs' = Bound(ts), UNCHANGED <<version, config, packets, lastSeq, stray>>
        PROVE  /\ NextFree' = run.next + 1 /\ nvs'.saved /\ nvs'.packet = Encoded(ts)
               /\ lastSeq < NextFree' /\ nvs'.packet.seq = nvs'.next - 1 /\ Exclusive'
    <2>1. /\ NextFree' = run.next + 1 /\ nvs'.saved /\ nvs'.packet = Encoded(ts)
          /\ nvs'.next = run.next + 1 /\ Encoded(ts).seq = run.next
      BY <1>e DEF NextFree, Bound, Encoded
    <2>2. run.next = NextFree /\ lastSeq < run.next /\ run.next \in Nat
      BY <1>c, <1>d, <1>e DEF Ahead, DeviceOK
    <2>3. \A q \in packets : q.seq # run.next
      BY <1>p, <1>t, <2>2 DEF PacketType
    <2>4. \A m \in stray : m.version = version => m.packet.seq < run.next /\ m.packet.seq \in Int
      BY <1>c, <1>d, <1>e, <2>2 DEF Exclusive, StrayOK, PacketType
    <2>5. Exclusive'
      BY <1>e, <2>1, <2>2, <2>3, <2>4 DEF Exclusive
    <2> QED
      BY <1>t, <2>1, <2>2, <2>5
  <1>9. ASSUME NEW ts \in Stamps, Sample(ts) PROVE SequenceInv' /\ NoSequenceConflict'
    <2>1. /\ UNCHANGED <<version, config, packets, lastSeq, stray>> /\ nvs' = Bound(ts)
          /\ run.pc = "idle" /\ samples < MaxSamples
          /\ run'.packet = Encoded(ts) /\ run'.next = run.next + 1 /\ run'.reply = run.reply
      BY <1>9, <1>d DEF Sample, identity, tables, DeviceOK
    <2> SUFFICES ASSUME Current PROVE Ahead' /\ Exclusive'
      BY <1>g, <2>1 DEF Current, NoSequenceConflict
    <2> QED
      BY <1>e, <2>1 DEF Ahead
  <1>10. ASSUME NEW ts \in Stamps, SampleFails(ts) PROVE SequenceInv' /\ NoSequenceConflict'
    <2>1. /\ UNCHANGED <<version, config, packets, lastSeq, stray>> /\ nvs' \in {nvs, Bound(ts)}
          /\ run.pc = "idle" /\ samples < MaxSamples /\ run'.pc = "stopped" /\ run'.reply = "none"
      BY <1>10, <1>d DEF SampleFails, Stalled, identity, tables, DeviceOK
    <2>2. CASE nvs' = nvs
      BY <1>v, <2>1, <2>2
    <2>3. CASE nvs' = Bound(ts)
      <3> SUFFICES ASSUME Current PROVE Ahead' /\ Exclusive'
        BY <1>g, <2>1 DEF Current, NoSequenceConflict
      <3> QED
        BY <1>e, <2>1, <2>3 DEF Ahead
    <2> QED
      BY <2>1, <2>2, <2>3
  <1>k. ASSUME Current, nvs' = Cleared(nvs), UNCHANGED <<version, config, packets, lastSeq, stray>>
        PROVE  nvs'.packet = NoPacket /\ NextFree' = NextFree /\ Exclusive'
    <2>1. nvs'.packet = NoPacket /\ NextFree' = NextFree
      BY <1>k, <1>d DEF Cleared, NextFree, DeviceOK
    <2> QED
      BY <1>c, <1>k, <2>1 DEF Exclusive
  <1>11. ASSUME Acknowledged PROVE SequenceInv' /\ NoSequenceConflict'
    <2>1. /\ UNCHANGED <<version, config, packets, lastSeq, stray>> /\ nvs' = Cleared(nvs)
          /\ run.pc = "answered" /\ run'.packet = NoPacket /\ run'.next = run.next /\ run'.reply = "none"
      BY <1>11, <1>d DEF Acknowledged, identity, tables, DeviceOK
    <2> SUFFICES ASSUME Current PROVE Ahead' /\ Exclusive'
      BY <1>g, <2>1 DEF Current, NoSequenceConflict
    <2> QED
      BY <1>c, <1>k, <2>1 DEF Ahead
  <1>12. ASSUME ClearFails PROVE SequenceInv' /\ NoSequenceConflict'
    <2>1. /\ UNCHANGED <<version, config, packets, lastSeq, stray>> /\ nvs' \in {nvs, Cleared(nvs)}
          /\ run'.pc = "stopped" /\ run'.reply = "none"
      BY <1>12, <1>d DEF ClearFails, Stalled, identity, tables, DeviceOK
    <2>2. CASE nvs' = nvs
      BY <1>v, <2>1, <2>2
    <2>3. CASE nvs' = Cleared(nvs)
      <3> SUFFICES ASSUME Current PROVE Ahead' /\ Exclusive'
        BY <1>g, <2>1 DEF Current, NoSequenceConflict
      <3> QED
        BY <1>c, <1>k, <2>1, <2>3 DEF Ahead
    <2> QED
      BY <2>1, <2>2, <2>3
  <1> QED
    BY <1>u, <1>2, <1>3, <1>4, <1>5, <1>6, <1>7, <1>8, <1>9, <1>10, <1>11, <1>12
    DEF Next, Provisioning, Cloud, Firmware, vars, device, identity, tables, Download, HandoffExpires, Revoke

(***************************************************************************)
(* The theorems.                                                           *)
(***************************************************************************)

LEMMA InitInv == Init => Inv /\ SensorInv
  <1> SUFFICES ASSUME Init PROVE Inv /\ SensorInv
    OBVIOUS
  <1>1. TableInv /\ FileInv /\ AckInv
    BY DEF Init, TableInv, LatestIsNewest, FileInv, AckInv, AcknowledgedIsStored, Off
  <1>2. UseInv /\ SequenceInv /\ NoSequenceConflict
    BY DEF Init, UseInv, SequenceInv, NoSequenceConflict, NoConfig, Off
  <1> QED
    BY <1>1, <1>2, InitShape DEF Inv, SensorInv

LEMMA InvStep == Inv /\ [Next]_vars => Inv'
  BY ShapeStep, TableStep, FileStep, UseStep, AckStep DEF Inv

LEMMA Invariance == Spec => []Inv
  BY InitInv, InvStep, PTL DEF Spec

\* The rows, the files and the firmware keep their shapes on both boards.
THEOREM TypeCorrect == Spec => []TypeOK
  <1>1. Init => board \in Boards
    BY DEF Init
  <1>2. board \in Boards /\ [Next]_vars => (board \in Boards)'
    BY BoardFixed
  <1>3. Inv /\ board \in Boards => TypeOK
    BY DEF Inv, Shape, TypeOK
  <1> QED
    BY <1>1, <1>2, <1>3, Invariance, PTL DEF Spec

\* The upload loop of hsx_sdk.c, through power losses, lost replies, failing NVS writes,
\* replaced credentials and reflashing, is never told that its sequence is taken.
THEOREM SensorKeepsSequence == Spec => []SensorNeverConflicts
  <1>1. Inv /\ SensorInv /\ [Next]_vars => SensorInv'
    BY BoardFixed, SequenceStep DEF Inv, SensorInv
  <1>2. SensorInv => SensorNeverConflicts
    BY DEF SensorInv, SensorNeverConflicts
  <1> QED
    BY <1>1, <1>2, InitInv, Invariance, PTL DEF Spec

\* Cloudlink's latest, status and last_seq follow the samples' own order, whatever the
\* order in which the packets arrive.
THEOREM LatestCorrect == Spec => []LatestIsNewest
  <1>1. Inv => LatestIsNewest
    BY DEF Inv, TableInv
  <1> QED
    BY <1>1, Invariance, PTL

\* A device drops a packet only when cloudlink has stored it.
THEOREM NothingAcknowledgedIsLost == Spec => []AcknowledgedIsStored
  <1>1. Inv => AcknowledgedIsStored
    BY DEF Inv, AckInv
  <1> QED
    BY <1>1, Invariance, PTL

\* The gateway never writes a credential to a second file.
THEOREM CredentialHandedOutOnce == Spec => [][OneFilePerCredential]_vars
  <1>1. Inv /\ [Next]_vars => [OneFilePerCredential]_vars
    <2> SUFFICES ASSUME Inv, Next, NEW f \in files' \ files, NEW g \in files PROVE f.version # g.version
      BY DEF OneFilePerCredential
    <2>1. FileInv'
      BY FileStep DEF Inv
    <2>2. files \subseteq files'
      BY DEF Next, Provisioning, Cloud, Firmware, bench, Claim, Reissue, Download, HandoffExpires, Revoke,
             Install, Handle, HandleStray, Boot, Send, GiveUp, Acknowledged, ClearFails, Rejected, Retry,
             PowerLoss, Sample, SampleFails
    <2> QED
      BY <2>1, <2>2 DEF FileInv
  <1> QED
    BY <1>1, Invariance, PTL DEF Spec

\* Latest reading, status, last sequence and stored packets agree with the samples taken.
THEOREM TablesCorrect == Spec => []TablesTruthful
  <1>1. LatestIsNewest /\ AcknowledgedIsStored => TablesTruthful
    BY DEF TablesTruthful
  <1> QED
    BY <1>1, LatestCorrect, NothingAcknowledgedIsLost, PTL

\* Neither the sensor board nor a second copy of a configuration uses a sequence again.
THEOREM SequencesCorrect == Spec => SequencesKept
  <1>1. SensorNeverConflicts' /\ [OneFilePerCredential]_vars => [SensorNeverConflicts' /\ OneFilePerCredential]_vars
    OBVIOUS
  <1> QED
    BY <1>1, SensorKeepsSequence, CredentialHandedOutOnce, PTL DEF SequencesKept

(***************************************************************************)
(* Nothing is stored or counted twice.  A sample is encoded once, so two   *)
(* copies of it, in NVS, in the loop, on their way or stored, are the same *)
(* packet; and a packet is stored under a sequence nobody has.             *)
(***************************************************************************)

\* Every packet there is: stored, on its way, pending in the loop or in NVS.
Known == packets \cup {m.packet : m \in stray} \cup ({run.packet, nvs.packet} \ {NoPacket})

SampleInv ==
  /\ \A p \in Known : p.sample \in 0..samples
  /\ \A p, q \in Known : p.sample = q.sample => p = q

CountInv ==
  /\ IsFiniteSet(packets) /\ usage = Cardinality(packets)
  /\ \A p, q \in packets : p.seq = q.seq => p = q

\* No step makes a packet up, but for the one it encodes under a new sample number.
LEMMA KnownStep ==
  ASSUME Shape, [Next]_vars
  PROVE  \/ Known' \subseteq Known /\ samples' = samples
         \/ \E ts \in Stamps : Known' \subseteq Known \cup {Encoded(ts)} /\ samples' = samples + 1
  <1>d. DeviceOK /\ StrayOK /\ LoopInv
    BY DEF Shape, ShapesOK
  <1>1. CASE Provisioning \/ UNCHANGED vars
    <2>1. UNCHANGED <<packets, stray, run, samples>>
      BY <1>1 DEF Provisioning, Claim, Reissue, Download, HandoffExpires, Revoke, Install, device, tables, vars
    <2>2. nvs' = nvs \/ nvs'.packet = NoPacket
      BY <1>1 DEF Provisioning, Claim, Reissue, Download, HandoffExpires, Revoke, Install, device, vars, NoState
    <2> QED
      BY <2>1, <2>2 DEF Known
  <1>2. ASSUME NEW reply \in Replies, Handle(reply)
        PROVE  Known' \subseteq Known /\ samples' = samples
    <2>1. /\ UNCHANGED <<stray, nvs, samples>> /\ run'.packet = run.packet
          /\ run.packet # NoPacket /\ Ingest(Request, reply) /\ Request.packet = run.packet
      BY <1>2, <1>d DEF Handle, DeviceOK, LoopInv, Request
    <2>2. packets' \subseteq packets \cup {run.packet}
      BY <2>1, IngestCases DEF tables, Store
    <2> QED
      BY <2>1, <2>2 DEF Known
  <1>3. ASSUME NEW m \in stray, HandleStray(m)
        PROVE  Known' \subseteq Known /\ samples' = samples
    <2>1. UNCHANGED <<nvs, run, samples>> /\ stray' \subseteq stray
      BY <1>3 DEF HandleStray, device
    <2>2. packets' \subseteq packets \cup {m.packet}
      BY <1>3, IngestCases DEF HandleStray, tables, Store
    <2> QED
      BY <2>1, <2>2 DEF Known
  <1>4. CASE Boot \/ Send \/ Acknowledged \/ ClearFails \/ Rejected \/ Retry
    <2>1. UNCHANGED <<packets, stray, samples>>
      BY <1>4 DEF Boot, Send, Acknowledged, ClearFails, Rejected, Retry, tables
    <2>2. nvs'.packet \in {nvs.packet, NoPacket}
      <3>1. Cleared(nvs).packet = NoPacket
        BY <1>d DEF Cleared, NoState, DeviceOK
      <3> QED
        BY <1>4, <3>1 DEF Boot, Send, Acknowledged, ClearFails, Rejected, Retry
    <2>3. run'.packet \in {run.packet, nvs.packet, NoPacket}
      <3>1. CASE Boot
        BY <3>1 DEF Boot, Off
      <3>2. CASE Send \/ Rejected \/ Retry \/ Acknowledged
        BY <3>2, <1>d DEF Send, Rejected, Retry, Acknowledged, DeviceOK
      <3>3. CASE ClearFails
        BY <3>3, <1>d DEF ClearFails, Stalled, DeviceOK
      <3> QED
        BY <1>4, <3>1, <3>2, <3>3
    <2> QED
      BY <2>1, <2>2, <2>3 DEF Known
  <1>5. CASE GiveUp \/ PowerLoss
    <2>1. /\ UNCHANGED <<packets, nvs, samples>>
          /\ stray' = stray \/ (run.packet # NoPacket /\ stray' = stray \cup {Request})
      BY <1>5, <1>d DEF GiveUp, PowerLoss, tables, LoopInv
    <2>2. run'.packet \in {run.packet, NoPacket} /\ Request.packet = run.packet
      <3>1. CASE GiveUp
        BY <3>1, <1>d DEF GiveUp, Request, DeviceOK
      <3>2. CASE PowerLoss
        BY <3>2 DEF PowerLoss, Off, Request
      <3> QED
        BY <1>5, <3>1, <3>2
    <2> QED
      BY <2>1, <2>2 DEF Known
  <1>6. ASSUME NEW ts \in Stamps, Sample(ts) \/ SampleFails(ts)
        PROVE  Known' \subseteq Known \cup {Encoded(ts)} /\ samples' = samples + 1
    <2>1. UNCHANGED <<packets, stray>> /\ samples' = samples + 1
      BY <1>6 DEF Sample, SampleFails, tables
    <2>2. nvs'.packet \in {nvs.packet, Encoded(ts)}
      BY <1>6 DEF Sample, SampleFails, Bound
    <2>3. run'.packet \in {run.packet, Encoded(ts)}
      BY <1>6, <1>d DEF Sample, SampleFails, Stalled, DeviceOK
    <2> QED
      BY <2>1, <2>2, <2>3 DEF Known
  <1> QED
    BY <1>1, <1>2, <1>3, <1>4, <1>5, <1>6 DEF Next, Cloud, Firmware

LEMMA SampleStep == Shape /\ SampleInv /\ [Next]_vars => SampleInv'
  <1> SUFFICES ASSUME Shape, SampleInv, [Next]_vars PROVE SampleInv'
    OBVIOUS
  <1>s. samples \in Nat
    BY TelemetryAssumption DEF Shape, ShapesOK, DeviceOK
  <1>1. CASE Known' \subseteq Known /\ samples' = samples
    BY <1>1 DEF SampleInv
  <1>2. ASSUME NEW ts \in Stamps, Known' \subseteq Known \cup {Encoded(ts)}, samples' = samples + 1
        PROVE  SampleInv'
    <2>1. Encoded(ts).sample = samples + 1
      BY DEF Encoded
    <2>2. \A p \in Known : p.sample \in 0..samples /\ p.sample # samples + 1
      BY <1>s DEF SampleInv
    <2>3. \A p \in Known' : p.sample \in 0..samples'
      BY <1>s, <1>2, <2>1, <2>2
    <2>4. \A p, q \in Known' : p.sample = q.sample => p = q
      BY <1>2, <2>1, <2>2 DEF SampleInv
    <2> QED
      BY <2>3, <2>4 DEF SampleInv
  <1> QED
    BY <1>1, <1>2, KnownStep

LEMMA CountStep == Shape /\ CountInv /\ [Next]_vars => CountInv'
  <1> SUFFICES ASSUME Shape, CountInv, [Next]_vars PROVE CountInv'
    OBVIOUS
  <1>1. CASE UNCHANGED tables
    BY <1>1 DEF tables, CountInv
  <1>2. ASSUME NEW p, Prior(p) = {}, Store(p)
        PROVE  CountInv'
    <2>1. \A q \in packets : q.seq # p.seq
      BY <1>2 DEF Prior
    <2>2. packets' = packets \cup {p} /\ usage' = usage + 1 /\ p \notin packets
      BY <1>2, <2>1 DEF Store
    <2>3. IsFiniteSet(packets') /\ Cardinality(packets') = Cardinality(packets) + 1
      BY <2>2, FS_AddElement DEF CountInv
    <2>4. \A q, r \in packets' : q.seq = r.seq => q = r
      BY <2>1, <2>2 DEF CountInv
    <2> QED
      BY <2>2, <2>3, <2>4 DEF CountInv
  <1> QED
    BY <1>1, <1>2, StepKinds, IngestCases

\* Retries, late requests, lost replies and restarts never store or count a sample twice.
THEOREM NothingStoredTwice == Spec => []StoredOnce
  <1>1. Init => SampleInv /\ CountInv
    BY FS_EmptySet DEF Init, SampleInv, CountInv, Known, NoState, Off
  <1>2. SampleInv /\ CountInv => StoredOnce
    BY DEF SampleInv, CountInv, StoredOnce, Known
  <1>3. Inv => Shape
    BY DEF Inv
  <1> QED
    BY <1>1, <1>2, <1>3, SampleStep, CountStep, Invariance, PTL DEF Spec

(***************************************************************************)
(* The camera: directories and what scan_limits does to them.              *)
(***************************************************************************)
FileState == {"none", "part", "whole", "damaged", "garbled"}
Dir == [Frames -> FileState]
CardType == [marker : {"none", "ours", "theirs", "torn"}, probe : BOOLEAN, spool : Dir, quarantine : Dir]
Times == {t \in Int : t >= -1}

LEMMA DirFinite ==
  ASSUME NEW S \in SUBSET Frames
  PROVE  IsFiniteSet(S) /\ Cardinality(S) \in Nat
  BY CameraAssumption, FS_Subset, FS_CardinalityType

LEMMA OlderIsAnOrder ==
  ASSUME taken \in [Frames -> Times]
  PROVE  /\ \A f \in Frames : ~Older(f, f)
         /\ \A f, g \in Frames : f # g => Older(f, g) \/ Older(g, f)
         /\ \A f, g, h \in Frames : Older(f, g) /\ Older(g, h) => Older(f, h)
  <1>1. \A f \in Frames : f \in Int /\ taken[f] \in Int
    BY CameraAssumption DEF Times
  <1> QED
    BY <1>1 DEF Older

\* Of a set of frames exactly k have fewer than k older ones.
LEMMA EvictedCount ==
  ASSUME taken \in [Frames -> Times], NEW free \in SUBSET Frames,
         NEW k \in Nat, k <= Cardinality(free)
  PROVE  Cardinality(Evicted(free, k)) = k
  <1> DEFINE n == Cardinality(free)
             Before(f) == {g \in free : Older(g, f)}
             rank == [f \in free |-> Cardinality(Before(f))]
             gone == Evicted(free, k)
  <1>1. IsFiniteSet(free) /\ n \in Nat
    BY DirFinite
  <1>2. \A f \in free : IsFiniteSet(Before(f)) /\ Cardinality(Before(f)) \in Nat
    BY DirFinite
  <1>3. ASSUME NEW f \in free PROVE Cardinality(Before(f)) \in 0 .. n - 1
    <2>1. f \notin Before(f)
      BY OlderIsAnOrder
    <2>2. IsFiniteSet(Before(f) \cup {f}) /\ Cardinality(Before(f) \cup {f}) = Cardinality(Before(f)) + 1
      BY <1>2, <2>1, FS_AddElement
    <2>3. Before(f) \cup {f} \in SUBSET free
      OBVIOUS
    <2>4. Cardinality(Before(f) \cup {f}) <= n
      BY <1>1, <2>3, FS_Subset
    <2> QED
      BY <1>1, <1>2, <2>2, <2>4
  <1>4. ASSUME NEW f \in free, NEW g \in free, Older(f, g)
        PROVE  Cardinality(Before(f)) < Cardinality(Before(g))
    <2>1. f \notin Before(f) /\ Before(f) \cup {f} \in SUBSET Before(g)
      BY <1>4, OlderIsAnOrder
    <2>2. Cardinality(Before(f) \cup {f}) = Cardinality(Before(f)) + 1
      BY <1>2, <2>1, FS_AddElement
    <2>3. Cardinality(Before(f) \cup {f}) <= Cardinality(Before(g))
      BY <1>2, <2>1, FS_Subset
    <2> QED
      BY <1>2, <2>2, <2>3
  <1>5. rank \in [free -> 0 .. n - 1] /\ \A f \in free : rank[f] = Cardinality(Before(f))
    BY <1>3
  <1>6. \A f, g \in free : rank[f] = rank[g] => f = g
    <2> SUFFICES ASSUME NEW f \in free, NEW g \in free, f # g PROVE rank[f] # rank[g]
      OBVIOUS
    <2>1. Older(f, g) \/ Older(g, f)
      BY OlderIsAnOrder
    <2> QED
      BY <1>2, <1>4, <1>5, <2>1
  <1>7. gone = {f \in free : rank[f] < k}
    BY <1>5 DEF Evicted
  <1> HIDE DEF rank, gone
  <1>8. rank \in Injection(free, 0 .. n - 1)
    BY <1>5, <1>6, Fun_IsInj
  <1>9. IsFiniteSet(0 .. n - 1) /\ Cardinality(0 .. n - 1) = n
    <2> DEFINE m == n - 1
    <2>1. m \in Int /\ 0 \in Int
      BY <1>1
    <2> HIDE DEF m
    <2>2. IsFiniteSet(0 .. m) /\ Cardinality(0 .. m) = IF 0 <= m THEN m - 0 + 1 ELSE 0
      BY <2>1, FS_Interval
    <2> QED
      BY <1>1, <2>2 DEF m
  <1>10. \A i \in 0 .. n - 1 : \E f \in free : rank[f] = i
    <2> DEFINE Ranks == 0 .. n - 1
    <2>1. rank \in Injection(free, Ranks) /\ IsFiniteSet(free) /\ IsFiniteSet(Ranks)
          /\ Cardinality(free) = Cardinality(Ranks)
      BY <1>1, <1>8, <1>9
    <2> HIDE DEF Ranks, n
    <2>2. rank \in Surjection(free, Ranks)
      BY <2>1, FS_Injection
    <2>3. \A i \in Ranks : \E f \in free : rank[f] = i
      BY <2>2 DEF Surjection
    <2> QED
      BY <2>3 DEF Ranks
  <1> DEFINE count == [f \in gone |-> rank[f]]
  <1>11. count \in [gone -> 0 .. k - 1]
    BY <1>1, <1>5, <1>7
  <1>12. \A f, g \in gone : count[f] = count[g] => f = g
    BY <1>6, <1>7
  <1>13. \A i \in 0 .. k - 1 : \E f \in gone : count[f] = i
    BY <1>1, <1>7, <1>10
  <1> HIDE DEF count
  <1>14. count \in Bijection(gone, 0 .. k - 1)
    BY <1>11, <1>12, <1>13, Fun_IsBij
  <1>15. ExistsBijection(gone, 0 .. k - 1)
    BY <1>14 DEF ExistsBijection
  <1>16. IsFiniteSet(gone)
    BY <1>7, DirFinite
  <1>17. Cardinality(0 .. k - 1) = k
    BY FS_Interval
  <1> QED
    BY <1>15, <1>16, <1>17, FS_Bijection DEF gone

\* A set of frames that is not empty has an oldest one.
LEMMA OldestExists ==
  ASSUME taken \in [Frames -> Times], NEW S \in SUBSET Frames, S # {}
  PROVE  \E f \in S : \A g \in S : ~Older(g, f)
  <1>1. IsFiniteSet(S) /\ Cardinality(S) \in Nat /\ Cardinality(S) # 0
    BY DirFinite, FS_EmptySet
  <1>2. Cardinality(Evicted(S, 1)) = 1
    BY <1>1, EvictedCount
  <1>3. Evicted(S, 1) # {}
    BY <1>2, FS_EmptySet
  <1>4. PICK f \in S : Cardinality({g \in S : Older(g, f)}) < 1
    BY <1>3 DEF Evicted
  <1>5. IsFiniteSet({g \in S : Older(g, f)}) /\ Cardinality({g \in S : Older(g, f)}) \in Nat
    BY DirFinite
  <1>6. {g \in S : Older(g, f)} = {}
    BY <1>4, <1>5, FS_EmptySet
  <1> QED
    BY <1>6

(***************************************************************************)
(* scan_limits.  What it removes is too old, or the oldest of too many.    *)
(***************************************************************************)
TooOld(f, now) == taken[f] < now - MaxAge
TooMany(f, before, after, keep, reserve, limit) ==
  /\ Cardinality(before) + reserve > limit /\ f # keep
  /\ \A g \in after : Older(g, f) => g = keep

ScanSound(s, d, now, keep, reserve, limit) ==
  /\ s.dir \in Dir /\ \A f \in Frames : s.dir[f] \in {d[f], "none"}
  /\ Records(s.dir) \subseteq Records(d)
  /\ s.ok => Cardinality(Records(s.dir)) + reserve <= limit
  /\ reserve = 0 /\ keep = NoFrame => Cardinality(Records(s.dir)) <= limit
  /\ keep = NoFrame => s.oldest \in Records(s.dir) \cup {NoFrame}
  /\ \A f \in Records(d) \ Records(s.dir) :
       TooOld(f, now) \/ TooMany(f, Records(d), Records(s.dir), keep, reserve, limit)

LEMMA ScanFacts ==
  ASSUME taken \in [Frames -> Times], NEW d \in Dir, NEW now \in Int, NEW keep \in Frames \cup {NoFrame},
         NEW reserve \in {0, 1}, NEW limit \in Nat \ {0}
  PROVE  ScanSound(Scan(d, now, keep, reserve, limit), d, now, keep, reserve, limit)
  <1> DEFINE s == Scan(d, now, keep, reserve, limit)
             live == {f \in Records(d) : f = keep \/ taken[f] >= now - MaxAge}
             free == Disposable(live, keep)
             excess == Excess(live, reserve, limit)
             gone == Evicted(free, excess)
             left == live \ gone
             dir == [f \in Frames |-> IF f \in left THEN d[f] ELSE "none"]
             oldest == CHOOSE f \in (left \ {keep}) \cup {NoFrame} :
                         IF left \ {keep} = {} THEN f = NoFrame
                         ELSE f \in left \ {keep} /\ \A g \in left \ {keep} : ~Older(g, f)
  <1>1. /\ s.dir = dir /\ s.oldest = oldest
        /\ s.ok <=> excess <= Cardinality(free)
    BY DEF Scan
  <1>2. /\ live \in SUBSET Records(d) /\ live \in SUBSET Frames /\ free = live \ {keep} /\ gone \in SUBSET free
        /\ Records(d) \in SUBSET Frames /\ left \in SUBSET live /\ gone \in SUBSET live
    BY DEF Records, Disposable, Evicted
  <1>3. /\ IsFiniteSet(live) /\ Cardinality(live) \in Nat /\ IsFiniteSet(free) /\ Cardinality(free) \in Nat
        /\ excess \in Int /\ excess = Cardinality(live) + reserve - limit
    <2>1. IsFiniteSet(live) /\ Cardinality(live) \in Nat /\ IsFiniteSet(free) /\ Cardinality(free) \in Nat
      BY <1>2, DirFinite
    <2> QED
      BY <2>1 DEF Excess
  <1>4. Records(dir) = left /\ dir \in Dir /\ \A f \in Frames : dir[f] \in {d[f], "none"}
    BY <1>2 DEF Records, Dir, FileState
  <1> HIDE DEF live, free, excess, dir, oldest
  <1>5. excess <= Cardinality(free) => Cardinality(left) + reserve <= limit
    <2> SUFFICES ASSUME excess <= Cardinality(free) PROVE Cardinality(left) + reserve <= limit
      OBVIOUS
    <2>1. CASE excess < 0
      <3>1. Cardinality(left) <= Cardinality(live) /\ Cardinality(left) \in Nat
        BY <1>2, <1>3, FS_Subset, DirFinite
      <3> QED
        BY <1>3, <2>1, <3>1
    <2>2. CASE excess >= 0
      <3>1. free \in SUBSET Frames /\ excess \in Nat
        BY <1>2, <1>3, <2>2
      <3>2. Cardinality(gone) = excess
        BY <3>1, EvictedCount
      <3>3. Cardinality(left) = Cardinality(live) - Cardinality(live \cap gone) /\ live \cap gone = gone
        BY <1>2, <1>3, FS_Difference
      <3> QED
        BY <1>3, <3>2, <3>3
    <2> QED
      BY <1>3, <2>1, <2>2
  <1>6. reserve = 0 /\ keep = NoFrame => excess <= Cardinality(free)
    <2> SUFFICES ASSUME reserve = 0, keep = NoFrame PROVE excess <= Cardinality(free)
      OBVIOUS
    <2>1. free = live
      BY <1>2, CameraAssumption DEF NoFrame
    <2> QED
      BY <1>3, <2>1
  <1>7. ASSUME keep = NoFrame PROVE oldest \in left \cup {NoFrame}
    <2>1. left \ {keep} = left /\ left \in SUBSET Frames /\ NoFrame \notin left
      <3>1. left \in SUBSET Frames
        BY <1>2
      <3>2. NoFrame \notin Frames
        BY CameraAssumption DEF NoFrame
      <3> QED
        BY <1>7, <3>1, <3>2
    <2>2. CASE left = {}
      BY <1>7, <2>1, <2>2 DEF oldest
    <2>3. CASE left # {}
      <3>1. \E f \in left : \A g \in left : ~Older(g, f)
        BY <2>1, <2>3, OldestExists
      <3> QED
        BY <1>7, <2>1, <2>3, <3>1 DEF oldest
    <2> QED
      BY <2>2, <2>3
  <1>8. ASSUME NEW f \in Records(d) \ left
        PROVE  TooOld(f, now) \/ TooMany(f, Records(d), left, keep, reserve, limit)
    <2>1. CASE f \notin live
      <3>1. f \in Frames /\ taken[f] \in Int /\ now - MaxAge \in Int
        BY CameraAssumption DEF Records, Times
      <3> QED
        BY <2>1, <3>1 DEF live, TooOld
    <2>2. CASE f \in live
      <3>1. f \in gone /\ f \in free /\ f # keep
        BY <1>2, <1>8, <2>2
      <3>2. Cardinality({g \in free : Older(g, f)}) < excess
        BY <3>1 DEF Evicted
      <3>3. {g \in free : Older(g, f)} \in SUBSET Frames
        BY <1>2
      <3>4. Cardinality({g \in free : Older(g, f)}) \in Nat
        BY <3>3, DirFinite
      <3>5. Cardinality(live) <= Cardinality(Records(d)) /\ Cardinality(Records(d)) \in Nat
        BY <1>2, DirFinite, FS_Subset
      <3>6. Cardinality(Records(d)) + reserve > limit
        BY <1>3, <3>2, <3>4, <3>5
      <3>7. ASSUME NEW g \in left, Older(g, f), g # keep PROVE FALSE
        <4>1. g \in free /\ g \in Frames /\ f \in Frames
          BY <1>2, <3>1, <3>7
        <4>2. {h \in free : Older(h, g)} \in SUBSET {h \in free : Older(h, f)}
          BY <1>2, <3>7, <4>1, OlderIsAnOrder
        <4>3. Cardinality({h \in free : Older(h, g)}) <= Cardinality({h \in free : Older(h, f)})
          BY <3>3, <4>2, DirFinite, FS_Subset
        <4>4. Cardinality({h \in free : Older(h, g)}) \in Nat
          BY <1>2, DirFinite
        <4>5. Cardinality({h \in free : Older(h, g)}) < excess
          BY <1>3, <3>2, <3>4, <4>3, <4>4
        <4> QED
          BY <3>7, <4>1, <4>5 DEF Evicted
      <3> QED
        BY <3>1, <3>6, <3>7 DEF TooMany
    <2> QED
      BY <2>1, <2>2
  <1> HIDE DEF left, gone
  <1>9. Records(s.dir) = left /\ s.dir \in Dir /\ (\A f \in Frames : s.dir[f] \in {d[f], "none"}) /\ left \subseteq Records(d)
    BY <1>1, <1>2, <1>4
  <1>10. /\ s.ok => Cardinality(left) + reserve <= limit
         /\ reserve = 0 /\ keep = NoFrame => Cardinality(left) <= limit
    <2>1. Cardinality(left) \in Nat
      BY <1>9, DirFinite, <1>2
    <2> QED
      BY <1>1, <1>5, <1>6, <2>1
  <1>11. keep = NoFrame => s.oldest \in left \cup {NoFrame}
    BY <1>1, <1>7
  <1> QED
    BY <1>8, <1>9, <1>10, <1>11 DEF ScanSound

(***************************************************************************)
(* The inductive invariant.                                                *)
(***************************************************************************)
Images == {Service!Absent, Service!Retired} \cup {Service!Kept(f) : f \in Frames}

CameraShape ==
  /\ card \in [Cards -> CardType] /\ slot \in Cards /\ on \in BOOLEAN
  /\ claimed \in Frames \cup {NoFrame} /\ day \in Nat /\ taken \in [Frames -> Times]
  /\ up \in [pc : {"idle", "corrupt", "sent", "replied"}, frame : Frames \cup {NoFrame}, code : Int]
  /\ wire \in SUBSET Frames /\ gallery \in [Frames -> Images]

\* A card that is ours keeps to its limits and has no file of another device.
OursKept ==
  \A c \in Cards : card[c].marker = "ours" =>
    /\ Cardinality(Records(card[c].spool)) <= MaxSpool
    /\ Cardinality(Records(card[c].quarantine)) <= MaxQuarantine
    /\ \A f \in Foreign : card[c].spool[f] = "none"

\* The other device's files are whole on a card that never became ours.
TheirsKept ==
  \E c \in Cards : \A f \in Foreign : card[c].spool[f] = "whole" /\ card[c].marker # "ours"

\* A frame not taken is on no card, and one of ours on one card only.
OnOneCard ==
  /\ \A c \in Cards, f \in Frames : taken[f] = -1 => card[c].spool[f] = "none"
  /\ \A c, d \in Cards, f \in Frames \ Foreign :
       card[c].spool[f] # "none" /\ card[d].spool[f] # "none" => c = d

Files == OursKept /\ TheirsKept /\ OnOneCard

\* What the upload task knows of the frame it works on.
CameraKnown ==
  /\ ~on => up = Waiting
  /\ up.pc # "idle" => up.frame \in Frames \ Foreign /\ taken[up.frame] # -1
  /\ up.pc = "corrupt" => \A c \in Cards : card[c].spool[up.frame] # "whole"
  /\ up.pc = "replied" /\ up.code \in {200, 201, 410} => gallery[up.frame] # Service!Absent

NotTheirs == \A f \in Foreign : f \notin wire /\ gallery[f] = Service!Absent

CameraInv == CameraShape /\ Files /\ CameraKnown /\ NotTheirs

(***************************************************************************)
(* Steps.                                                                  *)
(***************************************************************************)
LEMMA OnCardFacts ==
  ASSUME card \in [Cards -> CardType], slot \in Cards, NEW s \in Dir, NEW q \in Dir, OnCard(s, q)
  PROVE  /\ card' \in [Cards -> CardType]
         /\ \A c \in Cards \ {slot} : card'[c] = card[c]
         /\ card'[slot].spool = s /\ card'[slot].quarantine = q
         /\ card'[slot].marker = card[slot].marker
  <1> DEFINE new == [card[slot] EXCEPT !.spool = s, !.quarantine = q]
  <1>1. card[slot] \in CardType
    OBVIOUS
  <1>2. new \in CardType /\ new.spool = s /\ new.quarantine = q /\ new.marker = card[slot].marker
    BY <1>1 DEF CardType
  <1>3. card' = [card EXCEPT ![slot] = new]
    BY <1>1 DEF OnCard, CardType
  <1> HIDE DEF new
  <1> QED
    BY <1>2, <1>3

\* What keeps the cards in order: a file changes only in the card of the slot, another
\* device's file only on a card that is ours, and a card becomes ours when it is empty.
LEMMA CardStep ==
  ASSUME CameraShape, Files, card' \in [Cards -> CardType], taken' \in [Frames -> Times],
         \A c \in Cards \ {slot} : card'[c] = card[c],
         \A f \in Frames : taken'[f] = -1 => taken[f] = -1,
         \A f \in Frames :
           \/ card'[slot].spool[f] \in {card[slot].spool[f], "none"}
           \/ f \notin Foreign /\ card[slot].spool[f] # "none"
           \/ f \notin Foreign /\ taken[f] = -1 /\ taken'[f] # -1,
         card[slot].marker # "ours" => \A f \in Foreign : card'[slot].spool[f] = card[slot].spool[f],
         card'[slot].marker = "ours" =>
           /\ card[slot].marker = "ours" \/ card[slot].spool = Empty
           /\ Cardinality(Records(card'[slot].spool)) <= MaxSpool
           /\ Cardinality(Records(card'[slot].quarantine)) <= MaxQuarantine
  PROVE  Files'
  <1>1. /\ slot \in Cards /\ Foreign \subseteq Frames
        /\ \A c \in Cards : card[c].spool \in [Frames -> FileState] /\ card'[c].spool \in [Frames -> FileState]
    BY CameraAssumption DEF CameraShape, CardType, Dir
  <1>2. OursKept'
    <2>1. ASSUME card'[slot].marker = "ours", NEW f \in Foreign PROVE card'[slot].spool[f] = "none"
      <3>1. card[slot].spool[f] = "none"
        BY <1>1, <2>1 DEF Files, OursKept, Empty
      <3> QED
        BY <1>1, <3>1
    <2> QED
      BY <1>1, <2>1 DEF Files, OursKept
  <1>3. TheirsKept'
    <2>1. PICK c \in Cards : \A f \in Foreign : card[c].spool[f] = "whole" /\ card[c].marker # "ours"
      BY DEF Files, TheirsKept
    <2>2. ASSUME c = slot, NEW f \in Foreign PROVE card'[c].spool[f] = "whole" /\ card'[c].marker # "ours"
      <3>1. card[slot].marker # "ours" /\ card[slot].spool[f] = "whole" /\ f \in Frames
        BY <1>1, <2>1, <2>2
      <3>2. card[slot].spool # Empty
        BY <3>1 DEF Empty
      <3> QED
        BY <2>2, <3>1, <3>2
    <2> QED
      BY <2>1, <2>2 DEF TheirsKept
  <1>4. OnOneCard'
    <2>1. ASSUME NEW c \in Cards, NEW f \in Frames, taken'[f] = -1 PROVE card'[c].spool[f] = "none"
      BY <1>1, <2>1 DEF Files, OnOneCard
    <2>2. ASSUME NEW c \in Cards, NEW d \in Cards, NEW f \in Frames \ Foreign,
                 card'[c].spool[f] # "none", card'[d].spool[f] # "none", c # d
          PROVE  FALSE
      <3>1. \A e \in Cards : card'[e].spool[f] # "none" => card[e].spool[f] # "none" \/ (e = slot /\ taken[f] = -1)
        <4> SUFFICES ASSUME NEW e \in Cards, card'[e].spool[f] # "none"
                     PROVE  card[e].spool[f] # "none" \/ (e = slot /\ taken[f] = -1)
          OBVIOUS
        <4>1. CASE e = slot
          BY <1>1, <4>1
        <4>2. CASE e # slot
          BY <4>2
        <4> QED
          BY <4>1, <4>2
      <3>2. \A e \in Cards : taken[f] = -1 => card[e].spool[f] = "none"
        BY DEF Files, OnOneCard
      <3> QED
        BY <2>2, <3>1, <3>2 DEF Files, OnOneCard
    <2> QED
      BY <2>1, <2>2 DEF OnOneCard
  <1> QED
    BY <1>2, <1>3, <1>4 DEF Files

\* The upload task's knowledge survives what other steps do.
LEMMA KnownStays ==
  ASSUME CameraShape, CameraKnown, up' = up, on' = on, gallery' = gallery,
         \A f \in Frames : taken'[f] = -1 => taken[f] = -1,
         \A c \in Cards, f \in Frames : card'[c].spool[f] = "whole" => card[c].spool[f] = "whole" \/ taken[f] = -1
  PROVE  CameraKnown'
  BY DEF CameraShape, CameraKnown, Waiting

LEMMA QuietStep ==
  ASSUME CameraInv, UNCHANGED <<card, on, claimed, up, wire, gallery, taken>>, slot' \in Cards, day' \in Nat
  PROVE  CameraInv'
  <1>1. CameraShape'
    BY DEF CameraInv, CameraShape
  <1>2. Files'
    BY DEF CameraInv, Files, OursKept, TheirsKept, OnOneCard
  <1>3. CameraKnown' /\ NotTheirs'
    BY DEF CameraInv, CameraKnown, NotTheirs
  <1> QED
    BY <1>1, <1>2, <1>3 DEF CameraInv

\* A scan of a card that is ours keeps it in order.
LEMMA OursFacts ==
  ASSUME CameraShape, Files, OwnerValid, NEW s \in Dir, NEW q \in Dir, OnCard(s, q), taken' \in [Frames -> Times],
         \A f \in Frames : taken'[f] = -1 => taken[f] = -1,
         \A f \in Frames :
           \/ s[f] \in {Here.spool[f], "none"}
           \/ f \notin Foreign /\ taken[f] = -1 /\ taken'[f] # -1,
         Cardinality(Records(s)) <= MaxSpool, Cardinality(Records(q)) <= MaxQuarantine
  PROVE  /\ card' \in [Cards -> CardType] /\ Files'
         /\ \A c \in Cards, f \in Frames :
              card'[c].spool[f] = "whole" => card[c].spool[f] = "whole" \/ taken[f] = -1
         /\ \A c \in Cards, f \in Frames :
              f \in Records(card[c].spool) /\ f \notin Records(card'[c].spool) => c = slot /\ f \notin Records(s)
  <1>1. /\ card' \in [Cards -> CardType] /\ slot \in Cards
        /\ \A c \in Cards \ {slot} : card'[c] = card[c]
        /\ card'[slot].spool = s /\ card'[slot].quarantine = q /\ card'[slot].marker = card[slot].marker
    BY OnCardFacts DEF CameraShape
  <1>2. Here = card[slot] /\ card[slot].marker = "ours"
    BY DEF Here, OwnerValid
  <1>3. Files'
    BY <1>1, <1>2, CardStep
  <1>4. \A c \in Cards, f \in Frames :
              card'[c].spool[f] = "whole" => card[c].spool[f] = "whole" \/ taken[f] = -1
    <2> SUFFICES ASSUME NEW c \in Cards, NEW f \in Frames, card'[c].spool[f] = "whole"
                 PROVE  card[c].spool[f] = "whole" \/ taken[f] = -1
      OBVIOUS
    <2>1. CASE c = slot
      BY <1>1, <1>2, <2>1
    <2>2. CASE c # slot
      BY <1>1, <2>2
    <2> QED
      BY <2>1, <2>2
  <1> QED
    BY <1>1, <1>3, <1>4

\* What the card in the slot holds, when it is ours.
LEMMA HereFacts ==
  ASSUME CameraShape, Files
  PROVE  /\ Here \in CardType /\ Here.spool \in Dir /\ Here.quarantine \in Dir
         /\ Cardinality(Records(Here.spool)) \in Nat /\ Cardinality(Records(Here.quarantine)) \in Nat
         /\ OwnerValid => /\ Cardinality(Records(Here.spool)) <= MaxSpool
                          /\ Cardinality(Records(Here.quarantine)) <= MaxQuarantine
                          /\ \A f \in Foreign : Here.spool[f] = "none"
  <1>1. Here = card[slot] /\ slot \in Cards /\ Here \in CardType /\ Here.spool \in Dir /\ Here.quarantine \in Dir
    BY DEF CameraShape, Here, CardType
  <1>2. Records(Here.spool) \in SUBSET Frames /\ Records(Here.quarantine) \in SUBSET Frames
    BY DEF Records
  <1>3. OwnerValid => /\ Cardinality(Records(Here.spool)) <= MaxSpool
                      /\ Cardinality(Records(Here.quarantine)) <= MaxQuarantine
                      /\ \A f \in Foreign : Here.spool[f] = "none"
    BY <1>1 DEF Files, OursKept, OwnerValid
  <1> QED
    BY <1>1, <1>2, <1>3, DirFinite

\* One frame put into a directory that was scanned.
LEMMA PutFacts ==
  ASSUME NEW d \in Dir, NEW f \in Frames, NEW to \in FileState
  PROVE  /\ [d EXCEPT ![f] = to] \in Dir
         /\ \A g \in Frames : [d EXCEPT ![f] = to][g] = IF g = f THEN to ELSE d[g]
         /\ Records([d EXCEPT ![f] = to]) \subseteq Records(d) \cup {f}
         /\ Records(d) \ {f} \subseteq Records([d EXCEPT ![f] = to])
         /\ Cardinality(Records([d EXCEPT ![f] = to])) <= Cardinality(Records(d)) + 1
         /\ to \notin {"whole", "damaged"} => Cardinality(Records([d EXCEPT ![f] = to])) <= Cardinality(Records(d))
  <1> DEFINE e == [d EXCEPT ![f] = to]
  <1>1. e \in Dir /\ \A g \in Frames : e[g] = IF g = f THEN to ELSE d[g]
    BY DEF Dir
  <1> HIDE DEF e
  <1>2. /\ Records(e) \in SUBSET Frames /\ Records(d) \in SUBSET Frames
        /\ Records(e) \in SUBSET (Records(d) \cup {f}) /\ Records(d) \ {f} \subseteq Records(e)
        /\ to \notin {"whole", "damaged"} => Records(e) \in SUBSET Records(d)
    BY <1>1 DEF Records
  <1>3. IsFiniteSet(Records(d)) /\ Cardinality(Records(d)) \in Nat /\ Cardinality(Records(e)) \in Nat
    BY <1>2, DirFinite
  <1>4. /\ IsFiniteSet(Records(d) \cup {f})
        /\ Cardinality(Records(d) \cup {f}) = IF f \in Records(d) THEN Cardinality(Records(d)) ELSE Cardinality(Records(d)) + 1
    BY <1>3, FS_AddElement
  <1>5. Cardinality(Records(e)) <= Cardinality(Records(d) \cup {f})
    BY <1>2, <1>4, FS_Subset
  <1>6. to \notin {"whole", "damaged"} => Cardinality(Records(e)) <= Cardinality(Records(d))
    BY <1>2, <1>3, FS_Subset
  <1>7. Cardinality(Records(e)) <= Cardinality(Records(d)) + 1
    BY <1>3, <1>4, <1>5
  <1> QED
    BY <1>1, <1>2, <1>6, <1>7 DEF e

\* What a scan of the spool removes may be removed: it is too old, or one too many.
LEMMA ScanMayRemove ==
  ASSUME CameraShape, Files, NEW now, now \in Int, now <= day, NEW keep, keep \in Frames \cup {NoFrame},
         keep = claimed \/ (keep = NoFrame /\ up = Waiting),
         NEW reserve, reserve \in {0, 1},
         NEW f \in Records(Here.spool), f \notin Records(Scan(Here.spool, now, keep, reserve, MaxSpool).dir),
         \A g \in Records(card'[slot].spool) :
           g \in Records(Scan(Here.spool, now, keep, reserve, MaxSpool).dir) \/ taken[g] = -1
  PROVE  LeftForAReason(slot, f)
  <1> DEFINE s == Scan(Here.spool, now, keep, reserve, MaxSpool)
  <1>1. Here.spool \in Dir /\ Cardinality(Records(Here.spool)) \in Nat /\ Here = card[slot]
    BY HereFacts DEF Here
  <1>2. MaxSpool \in Nat \ {0} /\ taken \in [Frames -> Times] /\ MaxAge \in Nat /\ day \in Nat
    BY CameraAssumption DEF CameraShape
  <1>3. TooOld(f, now) \/ TooMany(f, Records(Here.spool), Records(s.dir), keep, reserve, MaxSpool)
    <2>1. ScanSound(s, Here.spool, now, keep, reserve, MaxSpool)
      BY <1>1, <1>2, ScanFacts
    <2>2. f \in Records(Here.spool) \ Records(s.dir)
      OBVIOUS
    <2> QED
      BY <2>1, <2>2 DEF ScanSound
  <1>4. CASE TooOld(f, now)
    <2>1. f \in Frames /\ taken[f] \in Int
      BY <1>2 DEF Records, Times
    <2> QED
      BY <1>2, <1>4, <2>1 DEF TooOld, LeftForAReason
  <1>5. CASE TooMany(f, Records(Here.spool), Records(s.dir), keep, reserve, MaxSpool)
    <2>1. Cardinality(Records(card[slot].spool)) >= MaxSpool
      BY <1>1, <1>2, <1>5 DEF TooMany
    <2>2. f # claimed \/ up = Waiting
      BY <1>5 DEF TooMany
    <2>3. \A g \in Records(card'[slot].spool) : Older(g, f) => g = claimed \/ taken[g] = -1
      <3>1. NoFrame \notin Frames /\ Records(s.dir) \subseteq Frames
        BY CameraAssumption DEF NoFrame, Records
      <3> QED
        BY <1>5, <3>1 DEF TooMany
    <2> QED
      BY <2>1, <2>2, <2>3 DEF LeftForAReason
  <1> QED
    BY <1>3, <1>4, <1>5

\* A step that scans the spool, and perhaps puts a frame never taken before.
LEMMA ScanLosesNothing ==
  ASSUME CameraShape, Files, OwnerValid, NEW keep, keep \in Frames \cup {NoFrame},
         keep = claimed \/ (keep = NoFrame /\ up = Waiting),
         NEW reserve, reserve \in {0, 1}, NEW s \in Dir, NEW q \in Dir, OnCard(s, q),
         \A g \in Records(s) : g \in Records(Scan(Here.spool, day, keep, reserve, MaxSpool).dir) \/ taken[g] = -1,
         \A g \in Records(Scan(Here.spool, day, keep, reserve, MaxSpool).dir) :
           g \in Records(s) \/ taken[g] = -1
  PROVE  NoSilentLoss
  <1>1. /\ slot \in Cards /\ day \in Int /\ day <= day /\ Here = card[slot]
        /\ \A c \in Cards \ {slot} : card'[c] = card[c]
        /\ card'[slot].spool = s
    BY OnCardFacts DEF CameraShape, Here
  <1>2. ASSUME NEW f \in Frames, f \in Records(card[slot].spool), f \notin Records(s)
        PROVE  LeftForAReason(slot, f)
    <2>1. taken[f] # -1
      BY <1>1, <1>2 DEF Files, OnOneCard, Records
    <2>2. f \in Records(Here.spool) /\ f \notin Records(Scan(Here.spool, day, keep, reserve, MaxSpool).dir)
      BY <1>1, <1>2, <2>1
    <2>3. \A g \in Records(card'[slot].spool) :
            g \in Records(Scan(Here.spool, day, keep, reserve, MaxSpool).dir) \/ taken[g] = -1
      BY <1>1
    <2> QED
      BY <1>1, <2>2, <2>3, ScanMayRemove
  <1> QED
    BY <1>1, <1>2 DEF NoSilentLoss

\* CameraInv after a step of the tasks on a card that is ours.
LEMMA OwnStep ==
  ASSUME CameraInv, OwnerValid, NEW s \in Dir, NEW q \in Dir, OnCard(s, q), taken' \in [Frames -> Times],
         \A f \in Frames : taken'[f] = -1 => taken[f] = -1,
         \A f \in Frames :
           \/ s[f] \in {Here.spool[f], "none"}
           \/ f \notin Foreign /\ taken[f] = -1 /\ taken'[f] # -1,
         Cardinality(Records(s)) <= MaxSpool, Cardinality(Records(q)) <= MaxQuarantine,
         slot' = slot, day' = day, on' \in BOOLEAN, claimed' \in Frames \cup {NoFrame}, gallery' = gallery, wire' = wire,
         (up' = up /\ on' = on) \/ up' = Waiting
  PROVE  CameraInv'
  <1>1. /\ card' \in [Cards -> CardType] /\ Files'
        /\ \A c \in Cards, f \in Frames :
             card'[c].spool[f] = "whole" => card[c].spool[f] = "whole" \/ taken[f] = -1
    BY OursFacts DEF CameraInv
  <1>2. Waiting \in [pc : {"idle", "corrupt", "sent", "replied"}, frame : Frames \cup {NoFrame}, code : Int]
        /\ Waiting.pc = "idle"
    BY DEF Waiting
  <1>3. CameraShape'
    BY <1>1, <1>2 DEF CameraInv, CameraShape
  <1>4. CameraKnown'
    <2>1. CASE up' = up /\ on' = on
      BY <1>1, <2>1, KnownStays DEF CameraInv
    <2>2. CASE up' = Waiting
      BY <1>2, <2>2 DEF CameraKnown, Waiting
    <2> QED
      BY <2>1, <2>2
  <1>5. NotTheirs'
    BY DEF CameraInv, NotTheirs
  <1> QED
    BY <1>1, <1>3, <1>4, <1>5 DEF CameraInv

LEMMA CaptureStep ==
  ASSUME CameraInv, NEW f \in Frames, Capture(f)
  PROVE  CameraInv' /\ NoSilentLoss
  <1> DEFINE scan == Scan(Here.spool, day, claimed, 1, MaxSpool)
             put == [scan.dir EXCEPT ![f] = "whole"]
  <1>1. /\ CameraShape /\ Files /\ CameraKnown /\ NotTheirs
        /\ f \notin Foreign /\ taken[f] = -1
        /\ UNCHANGED <<slot, on, claimed, up, wire, gallery, day>>
        /\ \/ /\ OwnerValid /\ scan.ok /\ OnCard(put, Here.quarantine) /\ taken' = [taken EXCEPT ![f] = day]
           \/ OwnerValid /\ OnCard(scan.dir, Here.quarantine) /\ taken' = taken
           \/ UNCHANGED <<card, taken>>
    BY DEF CameraInv, Capture, Unused, service
  <1>2. /\ taken \in [Frames -> Times] /\ day \in Int /\ claimed \in Frames \cup {NoFrame}
        /\ MaxSpool \in Nat \ {0} /\ MaxQuarantine \in Nat
    BY <1>1, CameraAssumption DEF CameraShape
  <1>3. /\ Here.spool \in Dir /\ Here.quarantine \in Dir /\ Here = card[slot]
        /\ Cardinality(Records(Here.spool)) \in Nat
        /\ OwnerValid => Cardinality(Records(Here.spool)) <= MaxSpool /\ Cardinality(Records(Here.quarantine)) <= MaxQuarantine
    BY <1>1, HereFacts DEF Here
  <1>4. /\ scan.dir \in Dir /\ \A g \in Frames : scan.dir[g] \in {Here.spool[g], "none"}
        /\ Records(scan.dir) \subseteq Records(Here.spool)
        /\ scan.ok => Cardinality(Records(scan.dir)) + 1 <= MaxSpool
    BY <1>2, <1>3, ScanFacts DEF ScanSound
  <1>5. CASE OwnerValid /\ scan.ok /\ OnCard(put, Here.quarantine) /\ taken' = [taken EXCEPT ![f] = day]
    <2>1. /\ put \in Dir /\ \A g \in Frames : put[g] = IF g = f THEN "whole" ELSE scan.dir[g]
          /\ Records(put) \subseteq Records(scan.dir) \cup {f} /\ Records(scan.dir) \ {f} \subseteq Records(put)
          /\ Cardinality(Records(put)) <= Cardinality(Records(scan.dir)) + 1
      BY <1>4, PutFacts DEF FileState
    <2>2. Records(scan.dir) \in SUBSET Frames /\ Records(put) \in SUBSET Frames
      BY DEF Records
    <2>3. Cardinality(Records(put)) <= MaxSpool
      BY <1>2, <1>4, <1>5, <2>1, <2>2, DirFinite
    <2>4. taken' \in [Frames -> Times] /\ taken'[f] # -1 /\ \A g \in Frames \ {f} : taken'[g] = taken[g]
      BY <1>1, <1>2, <1>5 DEF CameraShape, Times
    <2>5. \A g \in Frames : \/ put[g] \in {Here.spool[g], "none"}
                            \/ g \notin Foreign /\ taken[g] = -1 /\ taken'[g] # -1
      BY <1>1, <1>4, <2>1, <2>4
    <2> HIDE DEF put
    <2>6. CameraInv'
      BY <1>1, <1>2, <1>3, <1>5, <2>1, <2>3, <2>4, <2>5, OwnStep DEF CameraShape
    <2>7. NoSilentLoss
      BY <1>1, <1>2, <1>3, <1>5, <2>1, ScanLosesNothing
    <2> QED
      BY <2>6, <2>7
  <1>6. CASE OwnerValid /\ OnCard(scan.dir, Here.quarantine) /\ taken' = taken
    <2>1. Records(scan.dir) \in SUBSET Frames /\ Records(Here.spool) \in SUBSET Frames
      BY DEF Records
    <2>2. Cardinality(Records(scan.dir)) <= MaxSpool
      BY <1>2, <1>3, <1>4, <1>6, <2>1, DirFinite, FS_Subset
    <2>3. CameraInv'
      BY <1>1, <1>2, <1>3, <1>4, <1>6, <2>2, OwnStep DEF CameraShape
    <2>4. NoSilentLoss
      BY <1>1, <1>2, <1>3, <1>4, <1>6, ScanLosesNothing
    <2> QED
      BY <2>3, <2>4
  <1>7. CASE UNCHANGED <<card, taken>>
    <2>1. slot' \in Cards /\ day' \in Nat
      BY <1>1 DEF CameraShape
    <2>2. NoSilentLoss
      BY <1>7 DEF NoSilentLoss
    <2> QED
      BY <1>1, <1>7, <2>1, <2>2, QuietStep
  <1> QED
    BY <1>1, <1>5, <1>6, <1>7

\* A scan of the spool, or of the quarantine, of a card that is ours.
LEMMA ScanHere ==
  ASSUME CameraShape, Files, OwnerValid, NEW keep, keep \in Frames \cup {NoFrame}, NEW reserve, reserve \in {0, 1}
  PROVE  LET s == Scan(Here.spool, day, keep, reserve, MaxSpool)
             q == Scan(Here.quarantine, day, keep, reserve, MaxQuarantine)
         IN  /\ s.dir \in Dir /\ \A f \in Frames : s.dir[f] \in {Here.spool[f], "none"}
             /\ Cardinality(Records(s.dir)) <= MaxSpool /\ Cardinality(Records(s.dir)) \in Nat
             /\ q.dir \in Dir
             /\ Cardinality(Records(q.dir)) <= MaxQuarantine /\ Cardinality(Records(q.dir)) \in Nat
             /\ q.ok => Cardinality(Records(q.dir)) + reserve <= MaxQuarantine
             /\ keep = NoFrame => s.oldest \in Records(s.dir) \cup {NoFrame}
  <1> DEFINE s == Scan(Here.spool, day, keep, reserve, MaxSpool)
             q == Scan(Here.quarantine, day, keep, reserve, MaxQuarantine)
  <1>1. /\ taken \in [Frames -> Times] /\ day \in Int
        /\ MaxSpool \in Nat \ {0} /\ MaxQuarantine \in Nat \ {0}
    BY CameraAssumption DEF CameraShape
  <1>2. /\ Here.spool \in Dir /\ Here.quarantine \in Dir
        /\ Cardinality(Records(Here.spool)) <= MaxSpool /\ Cardinality(Records(Here.quarantine)) <= MaxQuarantine
    BY HereFacts
  <1>3. ScanSound(s, Here.spool, day, keep, reserve, MaxSpool)
    BY <1>1, <1>2, ScanFacts
  <1>4. ScanSound(q, Here.quarantine, day, keep, reserve, MaxQuarantine)
    BY <1>1, <1>2, ScanFacts
  <1>5. Records(Here.spool) \in SUBSET Frames /\ Records(Here.quarantine) \in SUBSET Frames
    BY DEF Records
  <1>6. Cardinality(Records(s.dir)) <= MaxSpool /\ Cardinality(Records(s.dir)) \in Nat
    <2>1. Records(s.dir) \in SUBSET Records(Here.spool)
      BY <1>3 DEF ScanSound
    <2> QED
      BY <1>1, <1>2, <1>5, <2>1, DirFinite, FS_Subset
  <1>7. Cardinality(Records(q.dir)) <= MaxQuarantine /\ Cardinality(Records(q.dir)) \in Nat
    <2>1. Records(q.dir) \in SUBSET Records(Here.quarantine)
      BY <1>4 DEF ScanSound
    <2> QED
      BY <1>1, <1>2, <1>5, <2>1, DirFinite, FS_Subset
  <1> QED
    BY <1>3, <1>4, <1>6, <1>7 DEF ScanSound

LEMMA PutFailsStep ==
  ASSUME CameraInv, NEW f \in Frames, PutFails(f)
  PROVE  CameraInv' /\ NoSilentLoss
  <1> DEFINE scan == Scan(Here.spool, day, claimed, 1, MaxSpool)
             put(to) == [scan.dir EXCEPT ![f] = to]
  <1>1. /\ CameraShape /\ Files /\ f \notin Foreign /\ taken[f] = -1 /\ OwnerValid
        /\ UNCHANGED <<slot, on, claimed, up, wire, gallery, day>> /\ taken' = [taken EXCEPT ![f] = day]
    BY DEF CameraInv, PutFails, Unused, service
  <1>2. PICK to \in {"none", "part"} : OnCard(put(to), Here.quarantine)
    BY DEF PutFails
  <1>3. taken \in [Frames -> Times] /\ day \in Int /\ claimed \in Frames \cup {NoFrame} /\ day \in Times /\ day # -1
    BY <1>1 DEF CameraShape, Times
  <1>4. /\ Here.spool \in Dir /\ Here.quarantine \in Dir
        /\ Cardinality(Records(Here.quarantine)) <= MaxQuarantine
    BY <1>1, HereFacts
  <1>5. /\ scan.dir \in Dir /\ \A g \in Frames : scan.dir[g] \in {Here.spool[g], "none"}
        /\ Cardinality(Records(scan.dir)) <= MaxSpool /\ Cardinality(Records(scan.dir)) \in Nat
    BY <1>1, <1>3, ScanHere
  <1> DEFINE new == put(to)
  <1>6. /\ new \in Dir /\ \A g \in Frames : new[g] = IF g = f THEN to ELSE scan.dir[g]
        /\ Records(new) \subseteq Records(scan.dir) \cup {f} /\ Records(scan.dir) \ {f} \subseteq Records(new)
        /\ Cardinality(Records(new)) <= Cardinality(Records(scan.dir))
    <2>1. to \in FileState /\ to \notin {"whole", "damaged"} /\ scan.dir \in Dir
      BY <1>2, <1>5 DEF FileState
    <2> HIDE DEF scan
    <2> QED
      BY <2>1, PutFacts
  <1>7. taken' \in [Frames -> Times] /\ taken'[f] # -1 /\ \A g \in Frames \ {f} : taken'[g] = taken[g]
    BY <1>1, <1>3
  <1>8. \A g \in Frames : \/ new[g] \in {Here.spool[g], "none"}
                          \/ g \notin Foreign /\ taken[g] = -1 /\ taken'[g] # -1
    BY <1>1, <1>5, <1>6, <1>7
  <1>9. OnCard(new, Here.quarantine)
    BY <1>2
  <1>10. Cardinality(Records(new)) <= MaxSpool
    <2>1. Records(new) \in SUBSET Frames /\ MaxSpool \in Nat
      BY CameraAssumption DEF Records
    <2> QED
      BY <1>5, <1>6, <2>1, DirFinite
  <1> HIDE DEF new
  <1>11. CameraInv'
    BY <1>1, <1>3, <1>4, <1>6, <1>7, <1>8, <1>9, <1>10, OwnStep DEF CameraShape
  <1>12. NoSilentLoss
    BY <1>1, <1>3, <1>4, <1>6, <1>9, ScanLosesNothing
  <1> QED
    BY <1>11, <1>12

LEMMA PickStep ==
  ASSUME CameraInv, Pick
  PROVE  CameraInv' /\ NoSilentLoss
  <1> DEFINE scan == Scan(Here.spool, day, NoFrame, 0, MaxSpool)
             held == Scan(Here.quarantine, day, NoFrame, 0, MaxQuarantine)
             first == scan.oldest
  <1>1. /\ CameraShape /\ Files /\ CameraKnown /\ NotTheirs /\ up = Waiting
        /\ UNCHANGED <<slot, on, gallery, day, taken>>
        /\ \/ ~OwnerValid /\ UNCHANGED <<card, claimed, up, wire>>
           \/ /\ OwnerValid /\ OnCard(scan.dir, held.dir) /\ claimed' = first
              /\ \/ first = NoFrame /\ UNCHANGED <<up, wire>>
                 \/ /\ first # NoFrame /\ scan.dir[first] = "damaged"
                    /\ up' = [pc |-> "corrupt", frame |-> first, code |-> 0] /\ UNCHANGED wire
                 \/ /\ first # NoFrame
                    /\ up' = [pc |-> "sent", frame |-> first, code |-> 0] /\ wire' = wire \cup {first}
    BY DEF CameraInv, Pick, time
  <1>2. CASE ~OwnerValid /\ UNCHANGED <<card, claimed, up, wire>>
    <2>1. slot' \in Cards /\ day' \in Nat /\ NoSilentLoss
      BY <1>1, <1>2 DEF CameraShape, NoSilentLoss
    <2> QED
      BY <1>1, <1>2, <2>1, QuietStep
  <1>3. CASE OwnerValid /\ OnCard(scan.dir, held.dir)
    <2>1. NoFrame \in Frames \cup {NoFrame} /\ 0 \in {0, 1} /\ taken \in [Frames -> Times]
      BY <1>1 DEF CameraShape
    <2>2. /\ scan.dir \in Dir /\ \A g \in Frames : scan.dir[g] \in {Here.spool[g], "none"}
          /\ held.dir \in Dir
          /\ Cardinality(Records(scan.dir)) <= MaxSpool /\ Cardinality(Records(held.dir)) <= MaxQuarantine
          /\ first \in Records(scan.dir) \cup {NoFrame}
      BY <1>1, <1>3, <2>1, ScanHere
    <2>3. NoSilentLoss
      BY <1>1, <1>3, <2>1, <2>2, ScanLosesNothing
    <2>4. /\ card' \in [Cards -> CardType] /\ Files'
          /\ \A c \in Cards, f \in Frames :
               card'[c].spool[f] = "whole" => card[c].spool[f] = "whole" \/ taken[f] = -1
      BY <1>1, <1>3, <2>1, <2>2, OursFacts
    <2>5. first # NoFrame =>
            first \in Frames \ Foreign /\ taken[first] # -1 /\ scan.dir[first] # "none" /\ Here.spool[first] = scan.dir[first]
      <3>1. \A f \in Foreign : Here.spool[f] = "none"
        BY <1>1, <1>3, HereFacts
      <3>2. first # NoFrame => first \in Frames /\ scan.dir[first] # "none"
        BY <2>2 DEF Records
      <3>3. first # NoFrame => Here.spool[first] = scan.dir[first] /\ scan.dir[first] # "none"
        BY <2>2, <3>2
      <3>4. first # NoFrame => taken[first] # -1
        BY <1>1, <3>2, <3>3 DEF Files, OnOneCard, Here, CameraShape
      <3> QED
        BY <3>1, <3>2, <3>3, <3>4
    <2> HIDE DEF first
    <2>6. CameraShape'
      BY <1>1, <1>3, <2>4, <2>5 DEF CameraShape
    <2>7. NotTheirs'
      BY <1>1, <1>3, <2>5 DEF NotTheirs
    <2>8. CameraKnown'
      <3>1. CASE UNCHANGED up
        BY <1>1, <2>4, <3>1, KnownStays
      <3>2. CASE first # NoFrame /\ up' = [pc |-> "sent", frame |-> first, code |-> 0]
        BY <1>1, <2>5, <3>2 DEF CameraKnown, Pick
      <3>3. CASE first # NoFrame /\ scan.dir[first] = "damaged" /\ up' = [pc |-> "corrupt", frame |-> first, code |-> 0]
        <4>1. \A c \in Cards : card[c].spool[first] # "whole"
          BY <1>1, <2>5, <3>3 DEF Files, OnOneCard, Here, CameraShape
        <4> QED
          BY <1>1, <2>4, <2>5, <3>3, <4>1 DEF CameraKnown, Pick
      <3> QED
        BY <1>1, <1>3, <3>1, <3>2, <3>3
    <2> QED
      BY <2>3, <2>4, <2>6, <2>7, <2>8 DEF CameraInv
  <1> QED
    BY <1>1, <1>2, <1>3

\* The upload task lets go of its frame and leaves the card as it is.
LEMMA GivesUp ==
  ASSUME CameraInv, UNCHANGED <<card, slot, on, wire, gallery, day, taken>>, claimed' = NoFrame, up' = Waiting
  PROVE  CameraInv' /\ NoSilentLoss
  <1>1. CameraShape' /\ NotTheirs' /\ CameraKnown'
    BY DEF CameraInv, CameraShape, NotTheirs, CameraKnown, Waiting
  <1>2. Files' /\ NoSilentLoss
    BY DEF CameraInv, Files, OursKept, TheirsKept, OnOneCard, NoSilentLoss
  <1> QED
    BY <1>1, <1>2 DEF CameraInv

LEMMA ReadFailsStep ==
  ASSUME CameraInv, ReadFails
  PROVE  CameraInv' /\ NoSilentLoss
  <1> DEFINE scan == Scan(Here.spool, day, NoFrame, 0, MaxSpool)
  <1>1. /\ CameraShape /\ Files /\ up = Waiting /\ OwnerValid /\ OnCard(scan.dir, Here.quarantine)
        /\ UNCHANGED <<slot, on, up, wire, gallery, day, taken>> /\ claimed' = scan.oldest
    BY DEF CameraInv, ReadFails, service, time
  <1>2. NoFrame \in Frames \cup {NoFrame} /\ 0 \in {0, 1} /\ taken \in [Frames -> Times]
    BY <1>1 DEF CameraShape
  <1>3. /\ scan.dir \in Dir /\ \A g \in Frames : scan.dir[g] \in {Here.spool[g], "none"}
        /\ Cardinality(Records(scan.dir)) <= MaxSpool
        /\ scan.oldest \in Records(scan.dir) \cup {NoFrame}
    BY <1>1, <1>2, ScanHere
  <1>4. Here.quarantine \in Dir /\ Cardinality(Records(Here.quarantine)) <= MaxQuarantine
    BY <1>1, HereFacts
  <1>5. NoSilentLoss
    BY <1>1, <1>2, <1>3, <1>4, ScanLosesNothing
  <1>6. claimed' \in Frames \cup {NoFrame} /\ on' \in BOOLEAN
    BY <1>1, <1>3 DEF CameraShape, Records
  <1>7. CameraInv'
    BY <1>1, <1>2, <1>3, <1>4, <1>6, OwnStep
  <1> QED
    BY <1>5, <1>7

\* What happens to the card when a file of the spool is unlinked.
LEMMA Unlink ==
  ASSUME CameraInv, OwnerValid, NEW f \in Frames, OnCard([Here.spool EXCEPT ![f] = "none"], Here.quarantine),
         slot' = slot, day' = day, taken' = taken, on' = on, claimed' \in Frames \cup {NoFrame},
         gallery' = gallery, wire' = wire, up' = Waiting,
         gallery[f] # Service!Absent \/ \A c \in Cards : card[c].spool[f] # "whole"
  PROVE  CameraInv' /\ NoSilentLoss
  <1> DEFINE new == [Here.spool EXCEPT ![f] = "none"]
  <1>1. CameraShape /\ Files /\ taken \in [Frames -> Times] /\ on' \in BOOLEAN
    BY DEF CameraInv, CameraShape
  <1>2. /\ Here.spool \in Dir /\ Here.quarantine \in Dir
        /\ Cardinality(Records(Here.spool)) <= MaxSpool /\ Cardinality(Records(Here.quarantine)) <= MaxQuarantine
        /\ Cardinality(Records(Here.spool)) \in Nat
    BY <1>1, HereFacts
  <1>3. /\ new \in Dir /\ \A g \in Frames : new[g] = IF g = f THEN "none" ELSE Here.spool[g]
        /\ Cardinality(Records(new)) <= Cardinality(Records(Here.spool)) /\ Records(Here.spool) \ {f} \subseteq Records(new)
    <2>1. "none" \in FileState /\ "none" \notin {"whole", "damaged"}
      BY DEF FileState
    <2> QED
      BY <1>2, <2>1, PutFacts
  <1>4. Cardinality(Records(new)) <= MaxSpool
    <2>1. Records(new) \in SUBSET Frames /\ MaxSpool \in Nat
      BY CameraAssumption DEF Records
    <2> QED
      BY <1>2, <1>3, <2>1, DirFinite
  <1>5. OnCard(new, Here.quarantine)
    OBVIOUS
  <1> HIDE DEF new
  <1>6. CameraInv'
    BY <1>1, <1>2, <1>3, <1>4, <1>5, OwnStep
  <1>7. \A c \in Cards, g \in Frames :
          g \in Records(card[c].spool) /\ g \notin Records(card'[c].spool) => c = slot /\ g \notin Records(new)
    BY <1>1, <1>2, <1>3, <1>4, <1>5, OursFacts
  <1>8. ASSUME NEW c \in Cards, NEW g \in Frames, g \in Records(card[c].spool), g \notin Records(card'[c].spool)
        PROVE  LeftForAReason(c, g)
    <2>1. c = slot /\ g = f /\ Here = card[slot]
      BY <1>3, <1>7, <1>8 DEF Here
    <2>2. card[c].spool[g] = "whole" \/ card[c].spool[g] = "damaged"
      BY <1>8 DEF Records
    <2> QED
      BY <2>1, <2>2 DEF LeftForAReason
  <1> QED
    BY <1>6, <1>8 DEF NoSilentLoss

LEMMA DropCorruptStep ==
  ASSUME CameraInv, DropCorrupt
  PROVE  CameraInv' /\ NoSilentLoss
  <1>1. /\ CameraShape /\ Files /\ CameraKnown /\ NotTheirs /\ up.pc = "corrupt" /\ claimed' = NoFrame /\ up' = Waiting
        /\ UNCHANGED <<slot, on, wire, gallery, day, taken>>
        /\ \/ OwnerValid /\ OnCard([Here.spool EXCEPT ![up.frame] = "none"], Here.quarantine)
           \/ UNCHANGED card
    BY DEF CameraInv, DropCorrupt, service, time
  <1>2. up.frame \in Frames /\ \A c \in Cards : card[c].spool[up.frame] # "whole"
    BY <1>1 DEF CameraKnown
  <1>3. CASE OwnerValid /\ OnCard([Here.spool EXCEPT ![up.frame] = "none"], Here.quarantine)
    BY <1>1, <1>2, <1>3, Unlink
  <1>4. CASE UNCHANGED card
    BY <1>1, <1>4, GivesUp
  <1> QED
    BY <1>1, <1>3, <1>4

LEMMA QuarantineStep ==
  ASSUME CameraInv, OwnerValid, NEW f \in Frames, Quarantine(f),
         UNCHANGED <<slot, on, wire, gallery, day, taken>>, claimed' = NoFrame, up' = Waiting
  PROVE  CameraInv' /\ NoSilentLoss
  <1> DEFINE held == Scan(Here.quarantine, day, NoFrame, 1, MaxQuarantine)
             new == [Here.spool EXCEPT ![f] = "none"]
             quarantined == [held.dir EXCEPT ![f] = Here.spool[f]]
  <1>1. /\ CameraShape /\ Files /\ taken \in [Frames -> Times] /\ taken' = taken /\ on' \in BOOLEAN
        /\ NoFrame \in Frames \cup {NoFrame} /\ 1 \in {0, 1} /\ Here = card[slot] /\ slot \in Cards
    BY DEF CameraInv, CameraShape, Here
  <1>2. /\ Here.spool \in Dir /\ Here.quarantine \in Dir
        /\ Cardinality(Records(Here.spool)) <= MaxSpool /\ Cardinality(Records(Here.spool)) \in Nat
    BY <1>1, HereFacts
  <1>3. /\ held.dir \in Dir /\ Cardinality(Records(held.dir)) \in Nat
        /\ Cardinality(Records(held.dir)) <= MaxQuarantine
        /\ held.ok => Cardinality(Records(held.dir)) + 1 <= MaxQuarantine
    BY <1>1, ScanHere
  <1>4. \/ /\ held.ok /\ Here.spool[f] # "none" /\ OnCard(new, quarantined)
        \/ OnCard(Here.spool, held.dir)
        \/ UNCHANGED card
    BY DEF Quarantine
  <1>5. CASE held.ok /\ Here.spool[f] # "none" /\ OnCard(new, quarantined)
    <2>1. /\ "none" \in FileState /\ "none" \notin {"whole", "damaged"} /\ Here.spool[f] \in FileState
      BY <1>2 DEF FileState, Dir
    <2>2. /\ new \in Dir /\ \A g \in Frames : new[g] = IF g = f THEN "none" ELSE Here.spool[g]
          /\ Cardinality(Records(new)) <= Cardinality(Records(Here.spool)) /\ Records(Here.spool) \ {f} \subseteq Records(new)
      BY <1>2, <2>1, PutFacts
    <2>3. /\ quarantined \in Dir /\ quarantined[f] = Here.spool[f]
          /\ Cardinality(Records(quarantined)) <= Cardinality(Records(held.dir)) + 1
      BY <1>3, <2>1, PutFacts
    <2>4. Cardinality(Records(new)) <= MaxSpool /\ Cardinality(Records(quarantined)) <= MaxQuarantine
      <3>1. Records(new) \in SUBSET Frames /\ Records(quarantined) \in SUBSET Frames /\ MaxSpool \in Nat /\ MaxQuarantine \in Nat
        BY CameraAssumption DEF Records
      <3>2. Cardinality(Records(new)) \in Nat /\ Cardinality(Records(quarantined)) \in Nat
        BY <3>1, DirFinite
      <3> QED
        BY <1>2, <1>3, <1>5, <2>2, <2>3, <3>1, <3>2
    <2> HIDE DEF new, quarantined
    <2>5. CameraInv'
      BY <1>1, <1>2, <1>5, <2>2, <2>3, <2>4, OwnStep
    <2>6. card'[slot].quarantine = quarantined
      BY <1>1, <1>5, <2>2, <2>3, OnCardFacts DEF CameraShape
    <2>7. \A c \in Cards, g \in Frames :
            g \in Records(card[c].spool) /\ g \notin Records(card'[c].spool) => c = slot /\ g \notin Records(new)
      BY <1>1, <1>2, <1>5, <2>2, <2>3, <2>4, OursFacts
    <2>8. NoSilentLoss
      BY <1>1, <1>5, <2>2, <2>3, <2>6, <2>7 DEF NoSilentLoss, LeftForAReason
    <2> QED
      BY <2>5, <2>8
  <1>6. CASE OnCard(Here.spool, held.dir)
    <2>1. CameraInv'
      BY <1>1, <1>2, <1>3, <1>6, OwnStep
    <2>2. \A c \in Cards, g \in Frames :
            g \in Records(card[c].spool) /\ g \notin Records(card'[c].spool) => c = slot /\ g \notin Records(Here.spool)
      BY <1>1, <1>2, <1>3, <1>6, OursFacts
    <2> QED
      BY <1>1, <2>1, <2>2 DEF NoSilentLoss
  <1>7. CASE UNCHANGED card
    BY <1>7, GivesUp
  <1> QED
    BY <1>4, <1>5, <1>6, <1>7

LEMMA SettleStep ==
  ASSUME CameraInv, Settle
  PROVE  CameraInv' /\ NoSilentLoss
  <1> DEFINE act == Action(up.code)
  <1>1. /\ CameraShape /\ Files /\ CameraKnown /\ NotTheirs /\ up.pc = "replied" /\ claimed' = NoFrame /\ up' = Waiting
        /\ UNCHANGED <<slot, on, wire, gallery, day, taken>>
        /\ \/ UNCHANGED card
           \/ OwnerValid /\ act \in {"ack", "expired"} /\ OnCard([Here.spool EXCEPT ![up.frame] = "none"], Here.quarantine)
           \/ OwnerValid /\ Quarantine(up.frame)
    BY DEF CameraInv, Settle, service, time
  <1>2. up.frame \in Frames /\ (up.code \in {200, 201, 410} => gallery[up.frame] # Service!Absent)
    BY <1>1 DEF CameraKnown
  <1>3. CASE UNCHANGED card
    BY <1>1, <1>3, GivesUp
  <1>4. CASE OwnerValid /\ act \in {"ack", "expired"} /\ OnCard([Here.spool EXCEPT ![up.frame] = "none"], Here.quarantine)
    <2>1. up.code \in {200, 201, 410}
      BY <1>4 DEF Action
    <2> QED
      BY <1>1, <1>2, <1>4, <2>1, Unlink
  <1>5. CASE OwnerValid /\ Quarantine(up.frame)
    BY <1>1, <1>2, <1>5, QuarantineStep
  <1> QED
    BY <1>1, <1>3, <1>4, <1>5

(***************************************************************************)
(* The service.                                                            *)
(***************************************************************************)
LEMMA ServiceStep ==
  ASSUME CameraInv, NEW f \in Frames, HandleFrame(f) \/ FrameFails(f) \/ Retention(f)
  PROVE  CameraInv' /\ NoSilentLoss
  <1>1. /\ CameraShape /\ Files /\ CameraKnown /\ NotTheirs
        /\ UNCHANGED <<card, slot, on, claimed, day, taken>>
    BY DEF CameraInv, HandleFrame, FrameFails, Retention, tasks, time
  <1>2. Files' /\ NoSilentLoss
    BY <1>1 DEF Files, OursKept, TheirsKept, OnOneCard, NoSilentLoss
  <1> DEFINE Answer(code) == /\ up' = IF up.pc = "sent" /\ up.frame = f THEN [up EXCEPT !.pc = "replied", !.code = code] ELSE up
                             /\ code \in {200, 201, 410} => gallery'[f] # Service!Absent
  <1>3. /\ gallery \in [Frames -> Images] /\ wire \in SUBSET Frames
        /\ Service!Kept(f) # Service!Absent /\ Service!Retired # Service!Absent
        /\ Service!Kept(f) \in Images /\ Service!Retired \in Images
    BY <1>1 DEF CameraShape, Images, Service!Kept, Service!Absent, Service!Retired
  <1> DEFINE Goal == /\ gallery' \in [Frames -> Images] /\ wire' \in SUBSET wire
                     /\ \A g \in Frames : gallery[g] # Service!Absent => gallery'[g] # Service!Absent
                     /\ gallery' = gallery \/ (gallery' = [gallery EXCEPT ![f] = gallery'[f]] /\ f \notin Foreign)
                     /\ up' = up \/ \E code \in Int : Answer(code)
  <1>4. ASSUME HandleFrame(f) PROVE Goal
    <2>1. f \in wire /\ wire' = wire \ {f}
      BY <1>4 DEF HandleFrame
    <2>2. f \notin Foreign
      BY <1>1, <2>1 DEF NotTheirs
    <2>3. \/ gallery' = gallery /\ \E code \in {200, 401, 410, 422} :
               Replied(f, code) /\ (code \in {200, 410} => gallery[f] \in {Service!Kept(f), Service!Retired})
          \/ gallery' = [gallery EXCEPT ![f] = Service!Kept(f)] /\ Replied(f, 201)
      BY <1>4 DEF HandleFrame, Service!Take
    <2>4. CASE gallery' = gallery /\ \E code \in {200, 401, 410, 422} :
               Replied(f, code) /\ (code \in {200, 410} => gallery[f] \in {Service!Kept(f), Service!Retired})
      <3>1. PICK code \in {200, 401, 410, 422} :
              Replied(f, code) /\ (code \in {200, 410} => gallery[f] \in {Service!Kept(f), Service!Retired})
        BY <2>4
      <3>2. Answer(code)
        BY <1>3, <2>4, <3>1 DEF Replied
      <3> HIDE DEF Answer
      <3>3. \E n \in Int : Answer(n)
        BY <3>1, <3>2
      <3> QED
        BY <1>3, <2>1, <2>4, <3>3
    <2>5. CASE gallery' = [gallery EXCEPT ![f] = Service!Kept(f)] /\ Replied(f, 201)
      <3>1. gallery'[f] = Service!Kept(f) /\ gallery' = [gallery EXCEPT ![f] = gallery'[f]] /\ gallery' \in [Frames -> Images]
        BY <1>3, <2>5
      <3>2. Answer(201)
        BY <1>3, <2>5, <3>1 DEF Replied
      <3>3. \A g \in Frames : gallery[g] # Service!Absent => gallery'[g] # Service!Absent
        BY <1>3, <2>5
      <3> HIDE DEF Answer
      <3> QED
        BY <2>1, <2>2, <3>1, <3>2, <3>3
    <2> QED
      BY <2>3, <2>4, <2>5
  <1>5. ASSUME FrameFails(f) PROVE Goal
    <2>1. wire' = wire \ {f} /\ gallery' = gallery /\ \E code \in {299, 503} : Replied(f, code)
      BY <1>5 DEF FrameFails
    <2>2. PICK code \in {299, 503} : Replied(f, code)
      BY <2>1
    <2>3. Answer(code)
      BY <2>2 DEF Replied
    <2> HIDE DEF Answer
    <2> QED
      BY <1>3, <2>1, <2>2, <2>3
  <1>6. ASSUME Retention(f) PROVE Goal
    <2>1. /\ gallery[f].state = "kept" /\ gallery' = [gallery EXCEPT ![f] = Service!Retired] /\ wire' = wire /\ up' = up
      BY <1>6 DEF Retention, tasks, Service!Retire
    <2>2. f \notin Foreign
      BY <1>1, <2>1 DEF NotTheirs, Service!Absent
    <2> QED
      BY <1>3, <2>1, <2>2
  <1>7. /\ gallery' \in [Frames -> Images] /\ wire' \in SUBSET wire
        /\ \A g \in Frames : gallery[g] # Service!Absent => gallery'[g] # Service!Absent
        /\ gallery' = gallery \/ (gallery' = [gallery EXCEPT ![f] = gallery'[f]] /\ f \notin Foreign)
    BY <1>4, <1>5, <1>6
  <1>8. up' = up \/ \E code \in Int : Answer(code)
    BY <1>4, <1>5, <1>6
  <1>9. CameraShape'
    BY <1>1, <1>7, <1>8 DEF CameraShape
  <1>10. NotTheirs'
    BY <1>1, <1>7, CameraAssumption DEF NotTheirs, CameraShape
  <1>11. CameraKnown'
    <2>1. CASE up' = up
      BY <1>1, <1>7, <2>1 DEF CameraKnown, CameraShape
    <2>2. CASE \E code \in Int : Answer(code)
      BY <1>1, <1>7, <2>2 DEF CameraKnown, CameraShape, Waiting
    <2> QED
      BY <1>8, <2>1, <2>2
  <1> QED
    BY <1>2, <1>9, <1>10, <1>11 DEF CameraInv

(***************************************************************************)
(* Faults, power and cards.                                                *)
(***************************************************************************)
LEMMA TimeoutStep ==
  ASSUME CameraInv, Timeout
  PROVE  CameraInv' /\ NoSilentLoss
  <1>1. /\ CameraShape /\ Files /\ CameraKnown /\ NotTheirs /\ up.pc = "sent" /\ on
        /\ UNCHANGED <<card, slot, on, claimed, gallery, day, taken>>
        /\ up' = [up EXCEPT !.pc = "replied", !.code = 0] /\ wire' \in SUBSET wire
    BY DEF CameraInv, Timeout, time
  <1>2. Files' /\ NoSilentLoss
    BY <1>1 DEF Files, OursKept, TheirsKept, OnOneCard, NoSilentLoss
  <1>3. up \in [pc : {"idle", "corrupt", "sent", "replied"}, frame : Frames \cup {NoFrame}, code : Int]
    BY <1>1 DEF CameraShape
  <1>4. /\ up' \in [pc : {"idle", "corrupt", "sent", "replied"}, frame : Frames \cup {NoFrame}, code : Int]
        /\ up'.pc = "replied" /\ up'.frame = up.frame /\ up'.code = 0
    <2>1. up' = [pc |-> "replied", frame |-> up.frame, code |-> 0]
      BY <1>1, <1>3
    <2> QED
      BY <1>3, <2>1
  <1>5. CameraShape'
    BY <1>1, <1>4 DEF CameraShape
  <1>6. NotTheirs'
    BY <1>1 DEF NotTheirs
  <1>7. CameraKnown'
    BY <1>1, <1>4 DEF CameraKnown
  <1> QED
    BY <1>2, <1>5, <1>6, <1>7 DEF CameraInv

LEMMA RotStep ==
  ASSUME CameraInv, NEW f \in Frames, Rot(f)
  PROVE  CameraInv' /\ NoSilentLoss
  <1>1. PICK to \in {"damaged", "garbled"} : OnCard([Here.spool EXCEPT ![f] = to], Here.quarantine)
    BY DEF Rot
  <1> DEFINE new == [Here.spool EXCEPT ![f] = to]
  <1>2. /\ CameraShape /\ Files /\ CameraKnown /\ NotTheirs /\ f \notin Foreign /\ Here.spool[f] = "whole"
        /\ UNCHANGED <<slot, on, claimed, up, wire, gallery, day, taken>>
    BY DEF CameraInv, Rot, tasks, service, time
  <1>3. Here = card[slot] /\ slot \in Cards /\ taken \in [Frames -> Times]
    BY <1>2 DEF Here, CameraShape
  <1>4. /\ Here.spool \in Dir /\ Here.quarantine \in Dir
        /\ Cardinality(Records(Here.spool)) \in Nat
        /\ OwnerValid => /\ Cardinality(Records(Here.spool)) <= MaxSpool
                         /\ Cardinality(Records(Here.quarantine)) <= MaxQuarantine
    BY <1>2, HereFacts
  <1>5. /\ new \in Dir /\ \A g \in Frames : new[g] = IF g = f THEN to ELSE Here.spool[g]
        /\ Records(Here.spool) \ {f} \subseteq Records(new)
    <2>1. to \in FileState
      BY <1>1 DEF FileState
    <2> QED
      BY <1>4, <2>1, PutFacts
  <1>6. OwnerValid => Cardinality(Records(new)) <= MaxSpool
    <2>1. Records(new) \in SUBSET Records(Here.spool) /\ Records(Here.spool) \in SUBSET Frames
      BY <1>2, <1>5 DEF Records
    <2>2. Cardinality(Records(new)) <= Cardinality(Records(Here.spool)) /\ Cardinality(Records(new)) \in Nat
      BY <2>1, DirFinite, FS_Subset
    <2>3. MaxSpool \in Nat
      BY CameraAssumption
    <2> HIDE DEF new
    <2> QED
      BY <1>4, <2>2, <2>3
  <1>7. OnCard(new, Here.quarantine)
    BY <1>1
  <1> HIDE DEF new
  <1>8. /\ card' \in [Cards -> CardType]
        /\ \A c \in Cards \ {slot} : card'[c] = card[c]
        /\ card'[slot].spool = new /\ card'[slot].quarantine = Here.quarantine
        /\ card'[slot].marker = card[slot].marker
    BY <1>2, <1>3, <1>4, <1>5, <1>7, OnCardFacts DEF CameraShape
  <1>9. Files'
    <2>1. \A g \in Foreign : card'[slot].spool[g] = card[slot].spool[g]
      BY <1>2, <1>3, <1>5, <1>8, CameraAssumption
    <2>2. \A g \in Frames : \/ card'[slot].spool[g] \in {card[slot].spool[g], "none"}
                            \/ g \notin Foreign /\ card[slot].spool[g] # "none"
      BY <1>2, <1>3, <1>5, <1>8
    <2>3. card'[slot].marker = "ours" =>
            /\ card[slot].marker = "ours" \/ card[slot].spool = Empty
            /\ Cardinality(Records(card'[slot].spool)) <= MaxSpool
            /\ Cardinality(Records(card'[slot].quarantine)) <= MaxQuarantine
      BY <1>3, <1>4, <1>6, <1>8 DEF OwnerValid
    <2>4. taken' \in [Frames -> Times] /\ \A g \in Frames : taken'[g] = -1 => taken[g] = -1
      BY <1>2, <1>3
    <2> QED
      BY <1>2, <1>8, <2>1, <2>2, <2>3, <2>4, CardStep
  <1>10. \A c \in Cards, g \in Frames : card'[c].spool[g] = "whole" => card[c].spool[g] = "whole"
    <2> SUFFICES ASSUME NEW c \in Cards, NEW g \in Frames, card'[c].spool[g] = "whole" PROVE card[c].spool[g] = "whole"
      OBVIOUS
    <2>1. CASE c = slot
      BY <1>1, <1>3, <1>5, <1>8, <2>1
    <2>2. CASE c # slot
      BY <1>8, <2>2
    <2> QED
      BY <2>1, <2>2
  <1>11. CameraKnown'
    BY <1>2, <1>10, KnownStays
  <1>12. NoSilentLoss
    <2> SUFFICES ASSUME NEW c \in Cards, NEW g \in Frames, g \in Records(card[c].spool), g \notin Records(card'[c].spool)
                 PROVE  LeftForAReason(c, g)
      BY DEF NoSilentLoss
    <2>1. c = slot
      BY <1>8
    <2>2. g = f /\ new[g] = to
      BY <1>3, <1>5, <1>8, <2>1
    <2>3. to = "garbled"
      BY <1>1, <1>8, <2>1, <2>2 DEF Records
    <2> QED
      BY <1>8, <2>1, <2>2, <2>3 DEF LeftForAReason
  <1> QED
    BY <1>2, <1>8, <1>9, <1>11, <1>12 DEF CameraInv, CameraShape, NotTheirs

LEMMA LosePowerStep ==
  ASSUME CameraInv, LosePower
  PROVE  CameraInv' /\ NoSilentLoss
  <1>1. /\ CameraShape /\ Files /\ CameraKnown /\ NotTheirs /\ claimed' = NoFrame /\ up' = Waiting /\ on' = FALSE
        /\ UNCHANGED <<slot, wire, gallery, day>>
        /\ \/ UNCHANGED <<card, taken>>
           \/ \E f \in Unused : /\ OwnerValid /\ OnCard([Here.spool EXCEPT ![f] = "part"], Here.quarantine)
                                /\ taken' = [taken EXCEPT ![f] = day]
    BY DEF CameraInv, LosePower, service
  <1>2. CASE UNCHANGED <<card, taken>>
    <2>1. Files' /\ NoSilentLoss
      BY <1>1, <1>2 DEF Files, OursKept, TheirsKept, OnOneCard, NoSilentLoss
    <2>2. Waiting \in [pc : {"idle", "corrupt", "sent", "replied"}, frame : Frames \cup {NoFrame}, code : Int]
      BY DEF Waiting
    <2>3. CameraShape' /\ NotTheirs'
      BY <1>1, <1>2, <2>2 DEF CameraShape, NotTheirs
    <2>4. CameraKnown'
      BY <1>1 DEF CameraKnown, Waiting
    <2> QED
      BY <2>1, <2>3, <2>4 DEF CameraInv
  <1>3. CASE \E f \in Unused : /\ OwnerValid /\ OnCard([Here.spool EXCEPT ![f] = "part"], Here.quarantine)
                               /\ taken' = [taken EXCEPT ![f] = day]
    <2>1. PICK f \in Unused : /\ OwnerValid /\ OnCard([Here.spool EXCEPT ![f] = "part"], Here.quarantine)
                              /\ taken' = [taken EXCEPT ![f] = day]
      BY <1>3
    <2> DEFINE new == [Here.spool EXCEPT ![f] = "part"]
    <2>2. f \in Frames /\ f \notin Foreign /\ taken[f] = -1
      BY DEF Unused
    <2>3. taken \in [Frames -> Times] /\ day \in Times /\ day # -1 /\ slot \in Cards /\ Here = card[slot]
      BY <1>1 DEF CameraShape, Times, Here
    <2>4. /\ Here.spool \in Dir /\ Here.quarantine \in Dir
          /\ Cardinality(Records(Here.spool)) <= MaxSpool /\ Cardinality(Records(Here.quarantine)) <= MaxQuarantine
          /\ Cardinality(Records(Here.spool)) \in Nat
      BY <1>1, <2>1, HereFacts
    <2>5. /\ new \in Dir /\ \A g \in Frames : new[g] = IF g = f THEN "part" ELSE Here.spool[g]
          /\ Records(Here.spool) \ {f} \subseteq Records(new)
          /\ Cardinality(Records(new)) <= Cardinality(Records(Here.spool))
      <3>1. "part" \in FileState /\ "part" \notin {"whole", "damaged"}
        BY DEF FileState
      <3> QED
        BY <2>2, <2>4, <3>1, PutFacts
    <2>6. Cardinality(Records(new)) <= MaxSpool
      <3>1. Records(new) \in SUBSET Frames /\ MaxSpool \in Nat
        BY CameraAssumption DEF Records
      <3> QED
        BY <2>4, <2>5, <3>1, DirFinite
    <2>7. OnCard(new, Here.quarantine)
      BY <2>1
    <2> HIDE DEF new
    <2>8. taken' \in [Frames -> Times] /\ taken'[f] # -1 /\ \A g \in Frames \ {f} : taken'[g] = taken[g]
      BY <2>1, <2>2, <2>3
    <2>9. \A g \in Frames : taken'[g] = -1 => taken[g] = -1
      BY <2>8
    <2>10. \A g \in Frames : \/ new[g] \in {Here.spool[g], "none"}
                             \/ g \notin Foreign /\ taken[g] = -1 /\ taken'[g] # -1
      BY <2>2, <2>5, <2>8
    <2>11. CameraInv'
      BY <1>1, <2>1, <2>4, <2>5, <2>6, <2>7, <2>8, <2>9, <2>10, OwnStep
    <2>12. \A c \in Cards, g \in Frames :
             g \in Records(card[c].spool) /\ g \notin Records(card'[c].spool) => c = slot /\ g \notin Records(new)
      BY <1>1, <2>1, <2>4, <2>5, <2>6, <2>7, <2>8, <2>9, <2>10, OursFacts
    <2>13. f \notin Records(card[slot].spool)
      BY <1>1, <2>2, <2>3 DEF Files, OnOneCard, Records
    <2>14. NoSilentLoss
      BY <2>3, <2>5, <2>12, <2>13 DEF NoSilentLoss
    <2> QED
      BY <2>11, <2>14
  <1> QED
    BY <1>1, <1>2, <1>3

LEMMA BootCameraStep ==
  ASSUME CameraInv, BootCamera
  PROVE  CameraInv' /\ NoSilentLoss
  <1> DEFINE spool == Scan(Here.spool, 0, NoFrame, 0, MaxSpool)
             held == Scan(Here.quarantine, 0, NoFrame, 0, MaxQuarantine)
             usable == Mark(Here) = "ours" /\ ~Here.probe
             new == [Here EXCEPT !.marker = Mark(Here),
                      !.spool = IF usable THEN spool.dir ELSE Here.spool,
                      !.quarantine = IF usable THEN held.dir ELSE Here.quarantine]
  <1>1. /\ CameraShape /\ Files /\ CameraKnown /\ NotTheirs /\ up = Waiting /\ on' = TRUE
        /\ UNCHANGED <<slot, claimed, up, wire, gallery, day, taken>>
        /\ Here = card[slot] /\ slot \in Cards
    BY DEF CameraInv, BootCamera, CameraKnown, service, time, Here, CameraShape
  <1>2. card' = [card EXCEPT ![slot] = new]
    BY DEF BootCamera
  <1>3. /\ Here \in CardType /\ Here.spool \in Dir /\ Here.quarantine \in Dir
        /\ OwnerValid => /\ Cardinality(Records(Here.spool)) <= MaxSpool
                         /\ Cardinality(Records(Here.quarantine)) <= MaxQuarantine
    BY <1>1, HereFacts
  <1>4. /\ taken \in [Frames -> Times] /\ NoFrame \in Frames \cup {NoFrame} /\ 0 \in {0, 1} /\ 0 \in Int
        /\ MaxSpool \in Nat \ {0} /\ MaxQuarantine \in Nat \ {0} /\ day \in Nat
    BY <1>1, CameraAssumption DEF CameraShape
  <1>5. /\ spool.dir \in Dir /\ \A f \in Frames : spool.dir[f] \in {Here.spool[f], "none"}
        /\ Cardinality(Records(spool.dir)) <= MaxSpool
    <2>1. ScanSound(spool, Here.spool, 0, NoFrame, 0, MaxSpool)
      BY <1>3, <1>4, ScanFacts
    <2> QED
      BY <2>1 DEF ScanSound
  <1>6. held.dir \in Dir /\ Cardinality(Records(held.dir)) <= MaxQuarantine
    <2>1. ScanSound(held, Here.quarantine, 0, NoFrame, 0, MaxQuarantine)
      BY <1>3, <1>4, ScanFacts
    <2> QED
      BY <2>1 DEF ScanSound
  <1>7. /\ Mark(Here) \in {Here.marker, "ours"}
        /\ Mark(Here) = "ours" => Here.marker = "ours" \/ (Here.spool = Empty /\ ~Here.probe)
    BY DEF Mark
  <1> HIDE DEF spool, held
  <1>8. /\ new \in CardType /\ new.marker = Mark(Here)
        /\ new.spool = (IF usable THEN spool.dir ELSE Here.spool)
        /\ new.quarantine = (IF usable THEN held.dir ELSE Here.quarantine)
    BY <1>3, <1>5, <1>6, <1>7 DEF CardType
  <1> HIDE DEF new
  <1>9. /\ card' \in [Cards -> CardType] /\ card'[slot] = new
        /\ \A c \in Cards \ {slot} : card'[c] = card[c]
    BY <1>1, <1>2, <1>8 DEF CameraShape
  <1>10. \A f \in Frames : new.spool[f] \in {Here.spool[f], "none"}
    BY <1>5, <1>8
  <1>11. Files'
    <2>1. Here.marker # "ours" => \A f \in Foreign : new.spool[f] = Here.spool[f]
      BY <1>5, <1>7, <1>8, CameraAssumption DEF Empty
    <2>2. new.marker = "ours" =>
            /\ Here.marker = "ours" \/ Here.spool = Empty
            /\ Cardinality(Records(new.spool)) <= MaxSpool
            /\ Cardinality(Records(new.quarantine)) <= MaxQuarantine
      BY <1>3, <1>5, <1>6, <1>7, <1>8 DEF OwnerValid
    <2> QED
      BY <1>1, <1>4, <1>9, <1>10, <2>1, <2>2, CardStep
  <1>12. \A c \in Cards, f \in Frames : card'[c].spool[f] = "whole" => card[c].spool[f] = "whole"
    <2> SUFFICES ASSUME NEW c \in Cards, NEW f \in Frames, card'[c].spool[f] = "whole" PROVE card[c].spool[f] = "whole"
      OBVIOUS
    <2>1. CASE c = slot
      BY <1>1, <1>9, <1>10, <2>1
    <2>2. CASE c # slot
      BY <1>9, <2>2
    <2> QED
      BY <2>1, <2>2
  <1>13. CameraKnown'
    BY <1>1, <1>12 DEF CameraKnown, Waiting
  <1>14. NoSilentLoss
    <2> SUFFICES ASSUME NEW c \in Cards, NEW f \in Frames, f \in Records(card[c].spool), f \notin Records(card'[c].spool)
                 PROVE  LeftForAReason(c, f)
      BY DEF NoSilentLoss
    <2>1. c = slot /\ f \in Records(Here.spool) /\ f \notin Records(new.spool)
      BY <1>1, <1>9
    <2>2. usable /\ new.spool = spool.dir
      BY <1>8, <2>1
    <2>3. \A g \in Records(card'[slot].spool) : g \in Records(spool.dir) \/ taken[g] = -1
      BY <1>9, <2>2
    <2>4. LeftForAReason(slot, f)
      BY <1>1, <1>4, <2>1, <2>2, <2>3, ScanMayRemove DEF spool
    <2> QED
      BY <2>1, <2>4
  <1> QED
    BY <1>1, <1>9, <1>11, <1>13, <1>14 DEF CameraInv, CameraShape, NotTheirs

LEMMA BootInterruptedStep ==
  ASSUME CameraInv, BootInterrupted
  PROVE  CameraInv' /\ NoSilentLoss
  <1> DEFINE new == IF Here.marker = "none" /\ Mark(Here) = "ours" THEN [Here EXCEPT !.marker = "torn"]
                    ELSE IF Here.marker = "ours" THEN [Here EXCEPT !.probe = TRUE] ELSE Here
  <1>1. /\ CameraShape /\ Files /\ CameraKnown /\ NotTheirs
        /\ UNCHANGED <<slot, on, claimed, up, wire, gallery, day, taken>>
        /\ Here = card[slot] /\ slot \in Cards /\ Here \in CardType
    BY DEF CameraInv, BootInterrupted, tasks, service, time, Here, CameraShape
  <1>2. card' = [card EXCEPT ![slot] = new]
    BY DEF BootInterrupted, Here
  <1>3. /\ new \in CardType /\ new.spool = Here.spool /\ new.quarantine = Here.quarantine
        /\ new.marker \in {Here.marker, "torn"}
    BY <1>1 DEF CardType
  <1> HIDE DEF new
  <1>4. /\ card' \in [Cards -> CardType] /\ card'[slot] = new
        /\ \A c \in Cards \ {slot} : card'[c] = card[c]
    BY <1>1, <1>2, <1>3 DEF CameraShape
  <1>5. \A c \in Cards : card'[c].spool = card[c].spool
    BY <1>1, <1>3, <1>4
  <1>6. Files'
    <2>1. OursKept'
      BY <1>1, <1>3, <1>4 DEF Files, OursKept
    <2>2. TheirsKept'
      BY <1>1, <1>3, <1>4 DEF Files, TheirsKept
    <2>3. OnOneCard'
      BY <1>1, <1>5 DEF Files, OnOneCard
    <2> QED
      BY <2>1, <2>2, <2>3 DEF Files
  <1>7. CameraKnown' /\ NoSilentLoss
    BY <1>1, <1>5 DEF CameraKnown, NoSilentLoss
  <1> QED
    BY <1>1, <1>4, <1>6, <1>7 DEF CameraInv, CameraShape, NotTheirs

(***************************************************************************)
(* The theorems.                                                           *)
(***************************************************************************)
LEMMA InvInit ==
  ASSUME CameraInit
  PROVE  CameraInv
  <1> USE CameraAssumption
  <1>1. PICK c \in Cards, m \in {"theirs", "none"} :
          /\ slot = c
          /\ card = [x \in Cards |-> IF x = c THEN Blank ELSE
               [Blank EXCEPT !.marker = m, !.spool = [f \in Frames |-> IF f \in Foreign THEN "whole" ELSE "none"]]]
    BY DEF CameraInit
  <1> DEFINE theirs == [f \in Frames |-> IF f \in Foreign THEN "whole" ELSE "none"]
             spare == [Blank EXCEPT !.marker = m, !.spool = theirs]
  <1>2. theirs \in Dir /\ Empty \in Dir
    BY DEF Dir, FileState, Empty
  <1>3. /\ Blank \in CardType /\ Blank.spool = Empty /\ Blank.quarantine = Empty /\ Blank.marker = "none"
        /\ spare \in CardType /\ spare.spool = theirs /\ spare.quarantine = Empty /\ spare.marker = m
    BY <1>2 DEF CardType, Blank
  <1>4. \A x \in Cards : card[x] = IF x = c THEN Blank ELSE spare
    BY <1>1
  <1> HIDE DEF spare
  <1>5. CameraShape
    <2>1. card \in [Cards -> CardType]
      BY <1>1, <1>3, <1>4 DEF spare
    <2>2. Waiting \in [pc : {"idle", "corrupt", "sent", "replied"}, frame : Frames \cup {NoFrame}, code : Int]
      BY DEF Waiting
    <2>3. taken \in [Frames -> Times]
      <3>1. taken = [f \in Frames |-> IF f \in Foreign THEN 0 ELSE -1]
        BY DEF CameraInit
      <3>2. 0 \in Times /\ -1 \in Times
        BY DEF Times
      <3> QED
        BY <3>1, <3>2
    <2>4. gallery \in [Frames -> Images]
      BY DEF CameraInit, Images
    <2> QED
      BY <1>1, <2>1, <2>2, <2>3, <2>4 DEF CameraInit, CameraShape
  <1>6. OursKept
    BY <1>1, <1>3, <1>4 DEF OursKept
  <1>7. TheirsKept
    <2>1. PICK d \in Cards : d # c
      OBVIOUS
    <2> QED
      BY <1>1, <1>3, <1>4, <2>1 DEF TheirsKept
  <1>8. OnOneCard
    <2>1. \A f \in Frames : taken[f] = -1 => f \notin Foreign
      <3>1. \A f \in Frames : taken[f] = IF f \in Foreign THEN 0 ELSE -1
        BY DEF CameraInit
      <3>2. 0 # -1
        OBVIOUS
      <3> QED
        BY <3>1, <3>2
    <2>2. \A x \in Cards, f \in Frames \ Foreign : card[x].spool[f] = "none"
      BY <1>3, <1>4 DEF Empty
    <2> QED
      BY <2>1, <2>2 DEF OnOneCard
  <1>9. CameraKnown /\ NotTheirs
    BY DEF CameraInit, CameraKnown, NotTheirs, Waiting
  <1> QED
    BY <1>5, <1>6, <1>7, <1>8, <1>9 DEF CameraInv, Files

LEMMA CameraInvStep ==
  ASSUME CameraInv, [CameraNext]_cameraVars
  PROVE  CameraInv' /\ NoSilentLoss
  <1>1. CASE \E f \in Frames : Capture(f) \/ PutFails(f) \/ HandleFrame(f) \/ FrameFails(f) \/ Retention(f) \/ Rot(f)
    BY <1>1, CaptureStep, PutFailsStep, ServiceStep, RotStep
  <1>2. CASE Pick \/ ReadFails \/ DropCorrupt \/ Settle \/ Timeout
    BY <1>2, PickStep, ReadFailsStep, DropCorruptStep, SettleStep, TimeoutStep
  <1>3. CASE LosePower \/ BootCamera \/ BootInterrupted
    BY <1>3, LosePowerStep, BootCameraStep, BootInterruptedStep
  <1>4. CASE RemoveFails
    BY <1>4, GivesUp DEF RemoveFails, service, time
  <1>5. CASE \/ TelemetryPauses \/ Connect \/ SyncClock \/ Disconnect \/ WifiWatch \/ SaveWifi \/ SaveMistyped
             \/ ChangeRouter \/ Swap \/ DenyToken \/ NextDay \/ UNCHANGED cameraVars
    <2>1. UNCHANGED <<card, on, claimed, up, wire, gallery, taken>> /\ slot' \in Cards /\ day' \in Nat
      <3>1. slot \in Cards /\ day \in Nat
        BY DEF CameraInv, CameraShape
      <3>2. CASE TelemetryPauses \/ Connect \/ SyncClock \/ Disconnect \/ WifiWatch
        BY <3>1, <3>2 DEF TelemetryPauses, Connect, SyncClock, Disconnect, WifiWatch, tasks, service, time
      <3>3. CASE SaveWifi \/ SaveMistyped \/ ChangeRouter
        BY <3>1, <3>3 DEF SaveWifi, SaveMistyped, ChangeRouter, tasks, service, time
      <3>4. CASE Swap \/ DenyToken \/ NextDay
        BY <3>1, <3>4 DEF Swap, DenyToken, NextDay, tasks, service, time
      <3>5. CASE UNCHANGED cameraVars
        BY <3>1, <3>5 DEF cameraVars, tasks, service, time
      <3> QED
        BY <1>5, <3>2, <3>3, <3>4, <3>5
    <2>2. NoSilentLoss
      BY <2>1 DEF NoSilentLoss
    <2> QED
      BY <2>1, <2>2, QuietStep
  <1> QED
    BY <1>1, <1>2, <1>3, <1>4, <1>5 DEF CameraNext

\* Whatever is interrupted, swapped or refused, a card that is ours keeps to its limits and
\* another device's files are neither uploaded nor removed (obs_owner_check before every
\* use of the card, scan_limits before every put).
THEOREM CardIsSound == CameraSpec => []CardSound
  <1>1. CameraInit => CameraInv
    BY InvInit
  <1>2. CameraInv /\ [CameraNext]_cameraVars => CameraInv'
    BY CameraInvStep
  <1>3. CameraInv => CardSound
    BY DEF CameraInv, Files, OursKept, TheirsKept, NotTheirs, CardSound, SpoolBounded, ForeignUntouched
  <1> QED
    BY <1>1, <1>2, <1>3, PTL DEF CameraSpec

\* No step makes a whole record disappear without one of the reasons the code has for it:
\* acknowledged, too old, quarantined, corrupt, or evicted from a full spool.
THEOREM NoRecordIsLostSilently == CameraSpec => NothingLostSilently
  <1>1. CameraInit => CameraInv
    BY InvInit
  <1>2. CameraInv /\ [CameraNext]_cameraVars => CameraInv' /\ NoSilentLoss
    BY CameraInvStep
  <1> QED
    BY <1>1, <1>2, PTL DEF CameraSpec, NothingLostSilently

=============================================================================
