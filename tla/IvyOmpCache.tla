---------------------------- MODULE IvyOmpCache -----------------------------
(***************************************************************************)
(* The array of dictionary entries that the OpenMP build keeps beside the  *)
(* dictionary (ompDictCache, ivy.c), because an OpenMP loop cannot follow  *)
(* a list: IvySendMsg tries exactly the first numPtr pointers of the array.*)
(*                                                                         *)
(* The array is rebuilt at a peer's EndRegexp and at every removal.  A new *)
(* entry is added to it alone if its peer has ended its handshake, and not *)
(* at all before: entries of peers in their handshake are in the dictionary*)
(* and not in the array.  A pointer is the text of the entry it points to, *)
(* "dangling" when that entry was freed, "garbage" where realloc's memory  *)
(* was never written.                                                      *)
(***************************************************************************)
EXTENDS IvyRegistry, FiniteSets

CONSTANTS
  Peers, Texts, Ids,
  Slack,       \* the 128 by which the array is larger than it needs to be
  MaxRegs      \* bound: expressions of a peer, clients of an entry

VARIABLES
  reg,         \* the registry
  omp,         \* ompDictCache: num, size and the array
  end          \* endRegexpReceived of every peer, "none" when not connected

vars == <<reg, omp, end>>

DictTexts(d) == {d[k].re : k \in DOMAIN d}

(* The pointers to the entries that are no longer in the dictionary dangle. *)
Freed(c, d) ==
  [c EXCEPT !.arr = [k \in DOMAIN @ |->
     IF @[k] \in DictTexts(d) \union {"garbage"} THEN @[k] ELSE "dangling"]]

(* realloc when the count reaches the size. *)
Resized(c, n) ==
  LET size == IF n >= c.size THEN 2 * n + Slack ELSE c.size
  IN  [num |-> n, size |-> size,
       arr |-> [k \in 1 .. size |-> IF k \in DOMAIN c.arr THEN c.arr[k] ELSE "garbage"]]

Filled(c, d) ==
  [c EXCEPT !.arr = [k \in DOMAIN @ |-> IF k <= Len(d) THEN d[k].re ELSE @[k]]]

regenerateRegPtrArrayCache(c, d) == Filled(Resized(Freed(c, d), Len(d)), d)

(* All pointers if the array had to grow, else the new one at the end.     *)
addRegToPtrArrayCache(c, d, re) ==
  LET r == Resized(c, Len(d))
  IN  IF Len(d) >= c.size THEN Filled(r, d) ELSE [r EXCEPT !.arr[Len(d)] = re]

-----------------------------------------------------------------------------
(* addRegexpToDictionary: the array follows only when an entry is created  *)
(* for a peer whose handshake has ended.                                   *)
Entered(c, d, re, e) ==
  IF InDict(d, re) \/ end[e] # "ended" THEN c
  ELSE addRegToPtrArrayCache(c, Append(d, [re |-> re, cls |-> <<>>]), re)

StartRegexp(e) ==
  /\ end[e] = "none"
  /\ end' = [end EXCEPT ![e] = "started"]
  /\ UNCHANGED <<reg, omp>>

(* addOrChangeRegexp: a changed expression is removed, which rebuilds the  *)
(* array, and entered again.                                               *)
AddRegexp(e, id, re) ==
  LET changed == /\ InDict(reg.dict, re) /\ Lists(EntryOf(reg.dict, re).cls, e)
                 /\ FirstOf(EntryOf(reg.dict, re).cls, e).id = id
      gone == delRegexpForOneClientFromDictionary(reg.dict, {re}, e, id)
  IN  /\ end[e] # "none"
      /\ changed \/ /\ Len(reg.regs[e]) < MaxRegs
                    /\ InDict(reg.dict, re) => Len(EntryOf(reg.dict, re).cls) < MaxRegs
      /\ reg' = addOrChangeRegexp(reg, re, e, id)
      /\ omp' = IF changed
                  THEN Entered(regenerateRegPtrArrayCache(omp, gone), gone, re, e)
                  ELSE Entered(omp, reg.dict, re, e)
      /\ UNCHANGED end

(* Mutant: the array is not rebuilt at the end of the handshake. *)
EndNoRebuild(e) ==
  /\ end[e] = "started"
  /\ end' = [end EXCEPT ![e] = "ended"]
  /\ UNCHANGED <<omp, reg>>

EndRegexp(e) ==
  /\ end[e] = "started"
  /\ end' = [end EXCEPT ![e] = "ended"]
  /\ omp' = regenerateRegPtrArrayCache(omp, reg.dict)
  /\ UNCHANGED reg

DelRegexp(e, id) ==
  /\ end[e] = "ended"
  /\ \E k \in DOMAIN reg.regs[e] : reg.regs[e][k].id = id
  /\ reg' = delRegexpForOneClient(reg, e, id)
  /\ omp' = regenerateRegPtrArrayCache(omp, reg'.dict)
  /\ UNCHANGED end

(* delOneClient, when the connection is deleted in any phase.              *)
Disconnect(e) ==
  /\ end[e] # "none"
  /\ reg' = delOneClient(reg, e)
  /\ omp' = regenerateRegPtrArrayCache(omp, reg'.dict)
  /\ end' = [end EXCEPT ![e] = "none"]

Init ==
  /\ reg = EmptyRegistry(Peers)
  /\ omp = [num |-> 0, size |-> 0, arr |-> <<>>]
  /\ end = [e \in Peers |-> "none"]

Next ==
  \E e \in Peers :
    \/ StartRegexp(e) \/ EndRegexp(e) \/ Disconnect(e)
    \/ \E id \in Ids : DelRegexp(e, id)
    \/ \E id \in Ids, re \in Texts : AddRegexp(e, id, re)

Spec == Init /\ [][Next]_vars

-----------------------------------------------------------------------------
TypeOK ==
  /\ omp.num <= omp.size /\ DOMAIN omp.arr = 1 .. omp.size
  /\ \A k \in DOMAIN omp.arr : omp.arr[k] \in Texts \union {"garbage", "dangling"}
  /\ \A e \in Peers : end[e] \in {"none", "started", "ended"}

Tried == {omp.arr[k] : k \in 1 .. omp.num}

(* When no peer is in its handshake, IvySendMsg tries every entry of the   *)
(* dictionary once and nothing else.                                       *)
ExactWhenSettled ==
  (\A e \in Peers : end[e] # "started") =>
    Tried = DictTexts(reg.dict) /\ omp.num = Len(reg.dict)

(* Whatever IvySendMsg tries is an entry of the dictionary: it never       *)
(* follows a pointer to freed memory or one that was never written.  Does  *)
(* not hold while a peer is in its handshake.                              *)
TriedLive == Tried \subseteq DictTexts(reg.dict)
=============================================================================
