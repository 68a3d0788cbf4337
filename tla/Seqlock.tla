--------------------------------- MODULE Seqlock -------------------------------
(***************************************************************************)
(* mutex/locks/seqlock.hpp: readers copy the value without a lock and keep  *)
(* the copy only if the sequence was even and is unchanged behind it; the   *)
(* writers, one at a time under a mutex, make it odd while they store.      *)
(*                                                                          *)
(* The payload is Words words, copied one by one in both directions, so a   *)
(* copy may meet a store anywhere.  The n-th store writes n into each word. *)
(* Every thread may write and read.                                         *)
(***************************************************************************)
EXTENDS Integers

CONSTANTS
  Threads, Nobody,
  Words,          \* size of the payload
  Half,           \* half the values of the sequence: 2^31 in the code
  MaxStores       \* bound: how many stores there are

VARIABLES
  seq, w, data,       \* __seq, __w (its holder) and __v
  pc, k,              \* k: the word a thread copies next
  s0, out,            \* locals of load() and try_load()
  stores,             \* auxiliary: stores that are complete
  since               \* auxiliary: stores that were complete when a read began

lockVars == <<seq, w, data, stores>>
readVars == <<s0, out, since>>
vars == <<lockVars, pc, k, readVars>>

Cells == 1 .. Words
Modulus == 2 * Half

Goto(t, l) == pc' = [pc EXCEPT ![t] = l]

Init ==
  /\ seq = 0
  /\ w = Nobody
  /\ data = [c \in Cells |-> 0]
  /\ pc = [t \in Threads |-> "idle"]
  /\ k = [t \in Threads |-> 1]
  /\ s0 = [t \in Threads |-> 0]
  /\ out = [t \in Threads |-> [c \in Cells |-> 0]]
  /\ stores = 0
  /\ since = [t \in Threads |-> 0]

--------------------------------------------------------------------------------
(* store(), and write() that changes the value in place *)

Lock(t) ==
  /\ pc[t] = "idle"
  /\ stores < MaxStores
  /\ w = Nobody
  /\ w' = t
  /\ Goto(t, "odd")
  /\ UNCHANGED <<seq, data, stores, k, readVars>>

\* Mutated form: the sequence stays even while the words are stored.
MakeOddNot(t) ==
  /\ pc[t] = "odd"
  /\ Goto(t, "store")
  /\ UNCHANGED <<lockVars, k, readVars>>

MakeOdd(t) ==
  /\ pc[t] = "odd"
  /\ seq' = (seq + 1) % Modulus
  /\ Goto(t, "store")
  /\ UNCHANGED <<w, data, stores, k, readVars>>

StoreWord(t) ==
  /\ pc[t] = "store"
  /\ data' = [data EXCEPT ![k[t]] = stores + 1]
  /\ IF k[t] < Words
     THEN k' = [k EXCEPT ![t] = @ + 1] /\ UNCHANGED pc
     ELSE k' = [k EXCEPT ![t] = 1] /\ Goto(t, "even")
  /\ UNCHANGED <<seq, w, stores, readVars>>

\* A reader in the middle of a copy: it must not be overtaken by so many stores
\* that the sequence comes round, a bound of the model.
Overtakes(t) == pc[t] = "copy" /\ stores + 1 - since[t] >= Half

MakeEven(t) ==
  /\ pc[t] = "even"
  /\ ~\E r \in Threads : Overtakes(r)
  /\ seq' = (seq + 1) % Modulus
  /\ stores' = stores + 1
  /\ Goto(t, "unlock")
  /\ UNCHANGED <<w, data, k, readVars>>

Unlock(t) ==
  /\ pc[t] = "unlock"
  /\ w' = Nobody
  /\ Goto(t, "idle")
  /\ UNCHANGED <<seq, data, stores, k, readVars>>

--------------------------------------------------------------------------------
(* load() and try_load(): the second returns false where the first begins again *)

Forget(t) ==
  /\ s0' = [s0 EXCEPT ![t] = 0]
  /\ out' = [out EXCEPT ![t] = [c \in Cells |-> 0]]
  /\ since' = [since EXCEPT ![t] = 0]

Load(t) ==
  /\ pc[t] = "idle"
  /\ Goto(t, "load")
  /\ UNCHANGED <<lockVars, k, readVars>>

LoadSeq(t) ==
  /\ pc[t] \in {"idle", "load"}
  /\ seq % 2 = 0
  /\ s0' = [s0 EXCEPT ![t] = seq]
  /\ since' = [since EXCEPT ![t] = stores]
  /\ Goto(t, "copy")
  /\ UNCHANGED <<lockVars, k, out>>

CopyWord(t) ==
  /\ pc[t] = "copy"
  /\ k[t] <= Words
  /\ out' = [out EXCEPT ![t][k[t]] = data[k[t]]]
  /\ k' = [k EXCEPT ![t] = @ + 1]
  /\ UNCHANGED <<lockVars, pc, s0, since>>

\* The second look at the sequence: the copy is good, or the read failed.
Check(t) ==
  /\ pc[t] = "copy"
  /\ k[t] > Words
  /\ k' = [k EXCEPT ![t] = 1]
  /\ \/ seq = s0[t] /\ Goto(t, "got") /\ UNCHANGED readVars
     \/ seq # s0[t] /\ (\E l \in {"load", "idle"} : Goto(t, l)) /\ Forget(t)
  /\ UNCHANGED lockVars

Return(t) ==
  /\ pc[t] = "got"
  /\ Goto(t, "idle")
  /\ Forget(t)
  /\ UNCHANGED <<lockVars, k>>

--------------------------------------------------------------------------------
Running(t) ==
  \/ MakeOdd(t) \/ StoreWord(t) \/ MakeEven(t) \/ Unlock(t)
  \/ pc[t] = "load" /\ LoadSeq(t)
  \/ CopyWord(t) \/ Check(t) \/ Return(t)

Calls(t) == Lock(t) \/ Load(t) \/ LoadSeq(t)

Next == \E t \in Threads : Running(t) \/ Calls(t)

Spec == Init /\ [][Next]_vars

--------------------------------------------------------------------------------
(* Properties. *)

TypeOK ==
  /\ seq \in 0 .. Modulus - 1
  /\ w \in Threads \cup {Nobody}
  /\ data \in [Cells -> Nat]
  /\ pc \in [Threads -> {"idle", "odd", "store", "even", "unlock", "load", "copy", "got"}]
  /\ k \in [Threads -> 1 .. Words + 1]
  /\ s0 \in [Threads -> 0 .. Modulus - 1]
  /\ out \in [Threads -> [Cells -> Nat]]
  /\ stores \in Nat
  /\ since \in [Threads -> Nat]

\* A copy that load() or try_load() returns is one value and not a mixture: the
\* value of the last store that was complete when the read began.
Untorn == \A t \in Threads : pc[t] = "got" => \A c \in Cells : out[t][c] = since[t]

\* A writer holds the mutex from before its first change to behind its last.
OneWriter ==
  \A t \in Threads : pc[t] \in {"odd", "store", "even", "unlock"} => w = t

\* In the middle of a call.
Busy(t) == pc[t] # "idle"
================================================================================
