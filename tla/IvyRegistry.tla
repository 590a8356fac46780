---------------------------- MODULE IvyRegistry ----------------------------
(***************************************************************************)
(* The subscriptions an application holds for its peers (ivy.c): the       *)
(* dictionary messSndByRegexp, which maps the text of a regular expression *)
(* to the clients that bound it, and every client's list srcRegList of the *)
(* expressions it bound.  The two are updated by separate functions.       *)
(*                                                                         *)
(* The dictionary is a sequence of entries, in the order uthash iterates   *)
(* (insertion order); the lists are sequences, newest element first.  A    *)
(* registry is a record r of the dictionary r.dict and of r.regs, the      *)
(* srcRegList of every connection end.                                     *)
(***************************************************************************)
EXTENDS Naturals, Sequences, Sublists

EmptyRegistry(Ends) == [dict |-> <<>>, regs |-> [e \in Ends |-> <<>>]]

(* HASH_FIND_STR *)
InDict(d, re) == \E k \in DOMAIN d : d[k].re = re
EntryOf(d, re) == d[CHOOSE k \in DOMAIN d : d[k].re = re]

(* IVY_LIST_ITER on a clientList: only the first element of client e is looked at. *)
FirstOf(cls, e) ==
  cls[CHOOSE n \in DOMAIN cls : cls[n].cl = e /\ \A j \in 1 .. n - 1 : cls[j].cl # e]
Lists(cls, e) == \E k \in DOMAIN cls : cls[k].cl = e

addRegexpToDictionary(d, re, e, id) ==
  LET new == <<[cl |-> e, id |-> id]>>
  IN  IF InDict(d, re)
        THEN [k \in DOMAIN d |-> IF d[k].re = re THEN [d[k] EXCEPT !.cls = new \o @]
                                                 ELSE d[k]]
        ELSE Append(d, [re |-> re, cls |-> new])

(* An entry whose client list became empty is freed and leaves the dictionary. *)
Purged(d) == Sublist(d, {k \in DOMAIN d : d[k].cls # <<>>})

delOneIvyClientFromDictionaryEntry(cls, e, id) ==
  Sublist(cls, {n \in DOMAIN cls : cls[n] # [cl |-> e, id |-> id]})

delRegexpForOneClientFromDictionary(d, texts, e, id) ==
  Purged([k \in DOMAIN d |->
            IF d[k].re \in texts
              THEN [d[k] EXCEPT !.cls = delOneIvyClientFromDictionaryEntry(@, e, id)]
              ELSE d[k]])

(* Mutant: the entry goes with the first of its clients. *)
delEntriesOf(d, e) == SelectSeq(d, LAMBDA entry : ~ Lists(entry.cls, e))

delOneClientFromDictionaryEntry(cls, e) == Sublist(cls, {n \in DOMAIN cls : cls[n].cl # e})

delOneClientFromDictionary(d, e) ==
  Purged([k \in DOMAIN d |-> [d[k] EXCEPT !.cls = delOneClientFromDictionaryEntry(@, e)]])

(* Mutant: the changed expression is taken out and not entered again. *)
changeForgets(d, re, e, id) == delRegexpForOneClientFromDictionary(d, {re}, e, id)

changeRegexpInDictionary(d, re, e, id) ==
  addRegexpToDictionary(delRegexpForOneClientFromDictionary(d, {re}, e, id), re, e, id)

(* The places of the entries K of a dictionary: the entry, and the position *)
(* in its client list.                                                     *)
Places(d, K) == UNION {{k} \X DOMAIN d[k].cls : k \in K}

-----------------------------------------------------------------------------
addRegexp(r, re, e, id) ==
  [dict |-> addRegexpToDictionary(r.dict, re, e, id),
   regs |-> [r.regs EXCEPT ![e] = <<[id |-> id, re |-> re]>> \o @]]

(* Every source expression of that id takes the new text. *)
changeRegexp(r, re, e, id) ==
  [dict |-> changeRegexpInDictionary(r.dict, re, e, id),
   regs |-> [r.regs EXCEPT ![e] =
               [k \in DOMAIN @ |-> IF @[k].id = id THEN [@[k] EXCEPT !.re = re] ELSE @[k]]]]

(* Mutant: a text the client has bound is changed, whatever the id. *)
changeAnyId(r, re, e, id) ==
  IF InDict(r.dict, re) /\ Lists(EntryOf(r.dict, re).cls, e)
    THEN changeRegexp(r, re, e, id)
    ELSE addRegexp(r, re, e, id)

(* The expression is looked up by its text, and only the first time the    *)
(* client appears under that text is compared with the id.                 *)
addOrChangeRegexp(r, re, e, id) ==
  IF /\ InDict(r.dict, re)
     /\ Lists(EntryOf(r.dict, re).cls, e)
     /\ FirstOf(EntryOf(r.dict, re).cls, e).id = id
    THEN changeRegexp(r, re, e, id)
    ELSE addRegexp(r, re, e, id)

(* Every source expression of that id goes, from the list and from the     *)
(* entry of its text.                                                      *)
delRegexpForOneClient(r, e, id) ==
  LET mine == {k \in DOMAIN r.regs[e] : r.regs[e][k].id = id}
  IN  [dict |-> delRegexpForOneClientFromDictionary(
                  r.dict, {r.regs[e][k].re : k \in mine}, e, id),
       regs |-> [r.regs EXCEPT ![e] = Sublist(@, DOMAIN @ \ mine)]]

(* Mutant: the dictionary is not searched for the client. *)
delListOnly(r, e) == [r EXCEPT !.regs[e] = <<>>]

(* The source expressions one by one, then whatever is left in the dictionary. *)
delOneClient(r, e) ==
  [dict |-> delOneClientFromDictionary(r.dict, e), regs |-> [r.regs EXCEPT ![e] = <<>>]]

-----------------------------------------------------------------------------
(* The clients of a dictionary, and the subscriptions of client e according *)
(* to the dictionary and to srcRegList.                                    *)
Clients(d) == UNION {{d[k].cls[n].cl : n \in DOMAIN d[k].cls} : k \in DOMAIN d}
DictSubs(d, e) ==
  UNION {{[id |-> d[k].cls[n].id, re |-> d[k].re] :
            n \in {j \in DOMAIN d[k].cls : d[k].cls[j].cl = e}} : k \in DOMAIN d}
ListSubs(l) == {l[k] : k \in DOMAIN l}
=============================================================================
