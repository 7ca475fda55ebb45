----------------------------- MODULE PageStore -----------------------------
(***************************************************************************)
(* What BufferManager promises its clients: a page per page id.  A client  *)
(* sees and changes a page only while it holds it, and nothing but its     *)
(* holders changes it.  A new page is Blank.                               *)
(***************************************************************************)
CONSTANTS PageIds, NoPage, Handles, Version, Blank

VARIABLES
  store,   \* the version of each page
  holds    \* the page each handle stands for, or NoPage

vars == <<store, holds>>

Init ==
  /\ store = [p \in PageIds |-> Blank]
  /\ holds = [h \in Handles |-> NoPage]

Acquire(h, p) ==
  /\ holds[h] = NoPage
  /\ holds' = [holds EXCEPT ![h] = p]
  /\ UNCHANGED store

Change(h) ==
  /\ holds[h] # NoPage
  /\ \E v \in Version : store' = [store EXCEPT ![holds[h]] = v]
  /\ UNCHANGED holds

Release(h) ==
  /\ holds[h] # NoPage
  /\ holds' = [holds EXCEPT ![h] = NoPage]
  /\ UNCHANGED store

\* A deleted page may fall back to any version; no handle is affected.
Discard(p) ==
  /\ \A h \in Handles : holds[h] # p
  /\ \E v \in Version : store' = [store EXCEPT ![p] = v]
  /\ UNCHANGED holds

Next ==
  \/ \E h \in Handles : Change(h) \/ Release(h) \/ \E p \in PageIds : Acquire(h, p)
  \/ \E p \in PageIds : Discard(p)

Spec == Init /\ [][Next]_vars
=============================================================================
