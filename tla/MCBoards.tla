------------------------------ MODULE MCBoards ------------------------------
\* A device's readings from its flash to the tables, or a camera's pictures from its card to the
\* gallery: small instances of DeviceTelemetry and Camera.  They are separate tasks on separate
\* storage, so a behaviour is one of them at work while the other rests.
EXTENDS DeviceTelemetry, Camera
VARIABLE open

mcVars == <<vars, cameraVars, open>>

MCInit ==
  /\ open \in {"readings", "pictures"}
  /\ Init /\ CameraInit
  /\ open = "readings" => slot = "a" /\ card["b"].marker = "none"
  /\ open = "pictures" => board = "camera"

MCNext ==
  \/ open = "readings" /\ Next /\ UNCHANGED <<cameraVars, open>>
  \/ open = "pictures" /\ CameraNext /\ UNCHANGED <<vars, open>>

MCSpec ==
  /\ MCInit /\ [][MCNext]_mcVars
  /\ WF_mcVars(open = "pictures" /\ Progress /\ UNCHANGED <<vars, open>>)

\* The pictures on the card drain again and again, as SpoolDrains says.
PicturesDrain == open = "pictures" => SpoolDrains
=============================================================================
