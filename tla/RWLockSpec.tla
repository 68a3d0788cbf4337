------------------------------- MODULE RWLockSpec ------------------------------
(***************************************************************************)
(* What a reader/writer lock promises: a writer enters only an empty lock,  *)
(* a reader only a lock without a writer.                                   *)
(***************************************************************************)
CONSTANTS Readers, Writers

VARIABLES reading, writing      \* the threads inside, by the side they entered

Init == reading = {} /\ writing = {}

EnterShared(t) ==
  /\ writing = {}
  /\ t \notin reading
  /\ reading' = reading \cup {t}
  /\ UNCHANGED writing

LeaveShared(t) ==
  /\ t \in reading
  /\ reading' = reading \ {t}
  /\ UNCHANGED writing

Enter(t) ==
  /\ writing = {}
  /\ reading = {}
  /\ writing' = {t}
  /\ UNCHANGED reading

Leave(t) ==
  /\ writing = {t}
  /\ writing' = {}
  /\ UNCHANGED reading

Next ==
  \/ \E t \in Readers : EnterShared(t) \/ LeaveShared(t)
  \/ \E t \in Writers : Enter(t) \/ Leave(t)

Spec == Init /\ [][Next]_<<reading, writing>>
================================================================================
