----------------------------- MODULE MCAccounts -----------------------------
\* Small instances of Accounts, EmailSignIn and PortalCalls.  They share no state, so a behaviour
\* is one of them at work while the others rest.
EXTENDS Accounts, EmailSignIn, PortalCalls, TLC
CONSTANTS e1, t1, t2, h1, b1, r1, r2
VARIABLE open

Symmetric == Permutations({r1, r2})
Limits == [ip |-> 2, email |-> 1, verify |-> 1]

\* What the browsers ask: one visit of any kind, next to one that is charged for.
Ask(kind, session, anon, origin, stated) ==
  [kind |-> kind, from |-> "ann", session |-> session, anon |-> anon, origin |-> origin, stated |-> stated]
Asks == 1 :> {Ask("page", "old", "mine", "portal", <<>>), Ask("stream", "torn", "torn", "portal", <<>>),
              Ask("action", "", "mine", "portal", <<>>), Ask("action", "old", "", "portal", <<"bob">>),
              Ask("guarded", "old", "", "portal", <<>>), Ask("guarded", "old", "", "elsewhere", <<>>),
              Ask("direct", "old", "mine", "portal", <<"bob">>)}
     @@ 2 :> {[Ask("action", "", "mine", "portal", <<>>) EXCEPT !.from = "bob"]}

MCInit == open \in {"accounts", "sign-in", "calls"} /\ Init /\ SignInInit /\ CallsInit
MCNext ==
  \/ open = "accounts" /\ Next /\ UNCHANGED <<signInVars, callVars, open>>
  \/ open = "sign-in" /\ SignInNext /\ UNCHANGED <<vars, callVars, open>>
  \/ open = "calls" /\ CallsNext /\ UNCHANGED <<vars, signInVars, open>>
MCSpec == MCInit /\ [][MCNext]_<<vars, signInVars, callVars, open>>
=============================================================================
