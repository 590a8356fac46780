---------------------------- MODULE IvyBusProofs ----------------------------
(***************************************************************************)
(* The safety of the bus for every number of applications, connections,    *)
(* bindings, messages and calls.                                           *)
(*                                                                         *)
(* First, what the functions that edit the dictionary of subscriptions do  *)
(* to it, for every dictionary that is in order: which client holds which  *)
(* subscription afterwards, and that the dictionary stays in order.        *)
(*                                                                         *)
(* Then the inductive invariants, one layer on the other: the shape of the *)
(* state, the records of clients that are held, the lines a channel may    *)
(* carry and the ids of bindings.  The last part relates the two ends of a *)
(* connection: what one end registered, with the lines still to be read,   *)
(* against what the other has bound; three theorems about it end the       *)
(* module: CurrentAlwaysHeld, AlwaysMirrored and ReadyIsComplete.          *)
(***************************************************************************)
EXTENDS IvyBus, IvyLemmas

(* Client lists, entries and dictionaries, of texts T and clients E. *)
ClientList(E) == Seq([cl : E, id : Nat])
Entry(T, E) == [re : T, cls : ClientList(E)]
Dictionary(T, E) == Seq(Entry(T, E))

(* A text has one entry; no entry is empty. *)
OneEntry(d) == \A j, k \in DOMAIN d : d[j].re = d[k].re => j = k
NoneEmpty(d) == \A k \in DOMAIN d : d[k].cls # <<>>

(* c, a client with the id of its subscription, is listed under the text re. *)
Holds(d, re, c) == \E k \in DOMAIN d : d[k].re = re /\ c \in Elems(d[k].cls)

LEMMA EntryFields ==
  ASSUME NEW T, NEW E, NEW d \in Dictionary(T, E), NEW k \in DOMAIN d
  PROVE  d[k] \in Entry(T, E) /\ d[k].re \in T /\ d[k].cls \in ClientList(E)
<1>1. d[k] \in Entry(T, E)
  BY ElementOfSeq, LenProperties DEF Dictionary
<1> QED
  BY <1>1 DEF Entry

LEMMA EntryChanged ==
  ASSUME NEW T, NEW E, NEW x \in Entry(T, E), NEW cls \in ClientList(E)
  PROVE  /\ [x EXCEPT !.cls = cls] \in Entry(T, E)
         /\ [x EXCEPT !.cls = cls].re = x.re
         /\ [x EXCEPT !.cls = cls].cls = cls
  BY DEF Entry

(* Taking the empty entries out changes nothing that is held. *)
LEMMA PurgedOK ==
  ASSUME NEW T, NEW E, NEW d \in Dictionary(T, E), OneEntry(d)
  PROVE  /\ Purged(d) \in Dictionary(T, E) /\ OneEntry(Purged(d)) /\ NoneEmpty(Purged(d))
         /\ \A re, c : Holds(Purged(d), re, c) <=> Holds(d, re, c)
<1> DEFINE S == Entry(T, E)
           K == {k \in DOMAIN d : d[k].cls # <<>>}
           p == Purged(d)
<1>1. d \in Seq(S) /\ DOMAIN d = 1 .. Len(d) /\ Len(d) \in Nat
  BY LenProperties DEF Dictionary
<1>2. K \in SUBSET (1 .. Len(d))
  BY <1>1
<1> HIDE DEF S
<1>3. /\ p \in Seq(S) /\ Len(p) = Cardinality(K) /\ Cardinality(K) \in Nat
      /\ \E f : Positions(f, d, K)
  BY <1>1, <1>2, SublistOK DEF Purged
<1>4. PICK f : Positions(f, d, K)
  BY <1>3
<1>5. DOMAIN p = 1 .. Cardinality(K)
  BY <1>3, LenProperties
<1>6. /\ f \in [DOMAIN p -> K]
      /\ \A n \in DOMAIN p : p[n] = d[f[n]]
      /\ \A i \in K : \E n \in DOMAIN p : f[n] = i
      /\ \A a, b \in DOMAIN p : f[a] = f[b] => a = b
  BY <1>4, <1>5 DEF Positions, Purged
<1> HIDE DEF p
<1>7. \A n \in DOMAIN p : f[n] \in DOMAIN d /\ d[f[n]].cls # <<>>
  BY <1>6
<1>8. OneEntry(p)
  <2> SUFFICES ASSUME NEW j \in DOMAIN p, NEW k \in DOMAIN p, p[j].re = p[k].re PROVE j = k
    BY DEF OneEntry
  <2>1. d[f[j]].re = d[f[k]].re /\ f[j] \in DOMAIN d /\ f[k] \in DOMAIN d
    BY <1>6, <1>7
  <2>2. f[j] = f[k]
    BY <2>1 DEF OneEntry
  <2> QED
    BY <2>2, <1>6
<1>9. NoneEmpty(p)
  BY <1>6, <1>7 DEF NoneEmpty
<1>10. ASSUME NEW re, NEW c, Holds(p, re, c) PROVE Holds(d, re, c)
  BY <1>6, <1>7, <1>10 DEF Holds
<1>11. ASSUME NEW re, NEW c, Holds(d, re, c) PROVE Holds(p, re, c)
  <2>1. PICK k \in DOMAIN d : d[k].re = re /\ c \in Elems(d[k].cls)
    BY <1>11 DEF Holds
  <2>2. PICK i \in DOMAIN d[k].cls : TRUE
    BY <2>1 DEF Elems
  <2>3. d[k].cls # <<>>
    BY <2>2
  <2>4. PICK n \in DOMAIN p : f[n] = k
    BY <2>3, <1>6
  <2>5. p[n] = d[k]
    BY <2>4, <1>6
  <2> QED
    BY <2>1, <2>5 DEF Holds
<1> QED
  BY <1>3, <1>8, <1>9, <1>10, <1>11 DEF p, S, Dictionary

(* The two removals from the client list of one entry. *)
LEMMA ItemRemoval ==
  ASSUME NEW E, NEW cls \in ClientList(E), NEW e, NEW id
  PROVE  /\ delOneIvyClientFromDictionaryEntry(cls, e, id) \in ClientList(E)
         /\ Elems(delOneIvyClientFromDictionaryEntry(cls, e, id))
              = Elems(cls) \ {[cl |-> e, id |-> id]}
<1> DEFINE S == [cl : E, id : Nat]
           K == {n \in DOMAIN cls : cls[n] # [cl |-> e, id |-> id]}
<1>1. cls \in Seq(S) /\ DOMAIN cls = 1 .. Len(cls)
  BY LenProperties DEF ClientList
<1>2. K \in SUBSET (1 .. Len(cls))
  BY <1>1
<1> HIDE DEF S
<1>3. /\ Sublist(cls, K) \in Seq(S)
      /\ {Sublist(cls, K)[n] : n \in DOMAIN Sublist(cls, K)} = {cls[i] : i \in K}
  BY <1>1, <1>2, SublistOK, SublistElements
<1>4. {cls[i] : i \in K} = Elems(cls) \ {[cl |-> e, id |-> id]}
  BY DEF Elems
<1>5. Elems(Sublist(cls, K)) = Elems(cls) \ {[cl |-> e, id |-> id]}
  BY <1>3, <1>4 DEF Elems
<1> QED
  BY <1>3, <1>5 DEF S, ClientList, delOneIvyClientFromDictionaryEntry

LEMMA ClientRemoval ==
  ASSUME NEW E, NEW cls \in ClientList(E), NEW e
  PROVE  /\ delOneClientFromDictionaryEntry(cls, e) \in ClientList(E)
         /\ Elems(delOneClientFromDictionaryEntry(cls, e)) = {c \in Elems(cls) : c.cl # e}
<1> DEFINE S == [cl : E, id : Nat]
           K == {n \in DOMAIN cls : cls[n].cl # e}
<1>1. cls \in Seq(S) /\ DOMAIN cls = 1 .. Len(cls)
  BY LenProperties DEF ClientList
<1>2. K \in SUBSET (1 .. Len(cls))
  BY <1>1
<1> HIDE DEF S
<1>3. /\ Sublist(cls, K) \in Seq(S)
      /\ {Sublist(cls, K)[n] : n \in DOMAIN Sublist(cls, K)} = {cls[i] : i \in K}
  BY <1>1, <1>2, SublistOK, SublistElements
<1>4. {cls[i] : i \in K} = {c \in Elems(cls) : c.cl # e}
  BY DEF Elems
<1>5. Elems(Sublist(cls, K)) = {c \in Elems(cls) : c.cl # e}
  BY <1>3, <1>4 DEF Elems
<1> QED
  BY <1>3, <1>5 DEF S, ClientList, delOneClientFromDictionaryEntry

(* A dictionary whose entries keep their texts, with other client lists. *)
LEMMA EntriesReplaced ==
  ASSUME NEW T, NEW E, NEW d \in Dictionary(T, E), OneEntry(d), NEW g,
         g = [k \in DOMAIN d |-> g[k]],
         \A k \in DOMAIN d : g[k] \in Entry(T, E) /\ g[k].re = d[k].re
  PROVE  g \in Dictionary(T, E) /\ OneEntry(g) /\ DOMAIN g = DOMAIN d
<1> DEFINE S == Entry(T, E)
<1>1. d \in Seq(S) /\ DOMAIN d = 1 .. Len(d) /\ Len(d) \in Nat
  BY LenProperties DEF Dictionary
<1> HIDE DEF S
<1>0. DOMAIN g = DOMAIN d
  OBVIOUS
<1>2. g \in [1 .. Len(d) -> S]
  BY <1>1 DEF S
<1>3. g \in Seq(S)
  BY <1>1, <1>2, SeqDef
<1>4. OneEntry(g)
  BY <1>0 DEF OneEntry
<1> QED
  BY <1>0, <1>3, <1>4 DEF S, Dictionary

(* delRegexpForOneClientFromDictionary takes the subscription id of e out  *)
(* of the entries of the texts, and nothing else.                          *)
LEMMA DelRegexpOK ==
  ASSUME NEW T, NEW E, NEW d \in Dictionary(T, E), OneEntry(d), NEW texts, NEW e, NEW id
  PROVE  LET r == delRegexpForOneClientFromDictionary(d, texts, e, id)
         IN  /\ r \in Dictionary(T, E) /\ OneEntry(r) /\ NoneEmpty(r)
             /\ \A re, c : Holds(r, re, c) <=>
                  Holds(d, re, c) /\ ~ (re \in texts /\ c = [cl |-> e, id |-> id])
<1> DEFINE S == Entry(T, E)
           f == [k \in DOMAIN d |->
                   IF d[k].re \in texts
                     THEN [d[k] EXCEPT !.cls = delOneIvyClientFromDictionaryEntry(@, e, id)]
                     ELSE d[k]]
<1>1. \A k \in DOMAIN d : d[k] \in S /\ d[k].cls \in ClientList(E)
  BY EntryFields
<1>2. ASSUME NEW k \in DOMAIN d
      PROVE  /\ f[k] \in S /\ f[k].re = d[k].re
             /\ Elems(f[k].cls) = IF d[k].re \in texts
                                    THEN Elems(d[k].cls) \ {[cl |-> e, id |-> id]}
                                    ELSE Elems(d[k].cls)
  <2> DEFINE cls == delOneIvyClientFromDictionaryEntry(d[k].cls, e, id)
  <2>1. /\ cls \in ClientList(E)
        /\ Elems(cls) = Elems(d[k].cls) \ {[cl |-> e, id |-> id]}
    BY <1>1, ItemRemoval
  <2>2. f[k] = IF d[k].re \in texts THEN [d[k] EXCEPT !.cls = cls] ELSE d[k]
    OBVIOUS
  <2> HIDE DEF cls, f
  <2>3. CASE d[k].re \in texts
    <3>1. f[k] = [d[k] EXCEPT !.cls = cls]
      BY <2>2, <2>3
    <3> QED
      BY <2>1, <2>3, <3>1, <1>1, EntryChanged
  <2>4. CASE d[k].re \notin texts
    <3>1. f[k] = d[k]
      BY <2>2, <2>4
    <3> QED
      BY <2>4, <3>1, <1>1
  <2> QED
    BY <2>3, <2>4
<1>4. delRegexpForOneClientFromDictionary(d, texts, e, id) = Purged(f)
  BY DEF delRegexpForOneClientFromDictionary
<1>3. f = [k \in DOMAIN d |-> f[k]]
  OBVIOUS
<1> HIDE DEF f
<1>5. f \in Dictionary(T, E) /\ OneEntry(f) /\ DOMAIN f = DOMAIN d
  <2>1. \A k \in DOMAIN d : f[k] \in Entry(T, E) /\ f[k].re = d[k].re
    BY <1>2
  <2> QED
    BY <2>1, <1>3, EntriesReplaced
<1>6. ASSUME NEW re, NEW c
      PROVE  Holds(f, re, c) <=>
               Holds(d, re, c) /\ ~ (re \in texts /\ c = [cl |-> e, id |-> id])
  <2>1. Holds(f, re, c) <=> \E k \in DOMAIN d : d[k].re = re /\ c \in Elems(f[k].cls)
    BY <1>2, <1>5 DEF Holds
  <2>2. \A k \in DOMAIN d : d[k].re = re =>
          (c \in Elems(f[k].cls) <=>
             c \in Elems(d[k].cls) /\ ~ (re \in texts /\ c = [cl |-> e, id |-> id]))
    BY <1>2
  <2> QED
    BY <2>1, <2>2 DEF Holds
<1>7. /\ Purged(f) \in Dictionary(T, E) /\ OneEntry(Purged(f)) /\ NoneEmpty(Purged(f))
      /\ \A re, c : Holds(Purged(f), re, c) <=> Holds(f, re, c)
  BY <1>5, PurgedOK
<1> QED
  BY <1>4, <1>6, <1>7

(* delOneClientFromDictionary takes every subscription of e out. *)
LEMMA DelClientOK ==
  ASSUME NEW T, NEW E, NEW d \in Dictionary(T, E), OneEntry(d), NEW e
  PROVE  LET r == delOneClientFromDictionary(d, e)
         IN  /\ r \in Dictionary(T, E) /\ OneEntry(r) /\ NoneEmpty(r)
             /\ \A re, c : Holds(r, re, c) <=> Holds(d, re, c) /\ c.cl # e
<1> DEFINE S == Entry(T, E)
           f == [k \in DOMAIN d |-> [d[k] EXCEPT !.cls = delOneClientFromDictionaryEntry(@, e)]]
<1>1. \A k \in DOMAIN d : d[k] \in S /\ d[k].cls \in ClientList(E)
  BY EntryFields
<1>2. ASSUME NEW k \in DOMAIN d
      PROVE  /\ f[k] \in S /\ f[k].re = d[k].re
             /\ Elems(f[k].cls) = {c \in Elems(d[k].cls) : c.cl # e}
  <2> DEFINE cls == delOneClientFromDictionaryEntry(d[k].cls, e)
  <2>1. /\ cls \in ClientList(E)
        /\ Elems(cls) = {c \in Elems(d[k].cls) : c.cl # e}
    BY <1>1, ClientRemoval
  <2>2. f[k] = [d[k] EXCEPT !.cls = cls]
    OBVIOUS
  <2> HIDE DEF cls, f
  <2> QED
    BY <2>1, <2>2, <1>1, EntryChanged
<1>4. delOneClientFromDictionary(d, e) = Purged(f)
  BY DEF delOneClientFromDictionary
<1>3. f = [k \in DOMAIN d |-> f[k]]
  OBVIOUS
<1> HIDE DEF f
<1>5. f \in Dictionary(T, E) /\ OneEntry(f) /\ DOMAIN f = DOMAIN d
  <2>1. \A k \in DOMAIN d : f[k] \in Entry(T, E) /\ f[k].re = d[k].re
    BY <1>2
  <2> QED
    BY <2>1, <1>3, EntriesReplaced
<1>6. ASSUME NEW re, NEW c
      PROVE  Holds(f, re, c) <=> Holds(d, re, c) /\ c.cl # e
  <2>1. Holds(f, re, c) <=> \E k \in DOMAIN d : d[k].re = re /\ c \in Elems(f[k].cls)
    BY <1>2, <1>5 DEF Holds
  <2>2. \A k \in DOMAIN d : c \in Elems(f[k].cls) <=> c \in Elems(d[k].cls) /\ c.cl # e
    BY <1>2
  <2> QED
    BY <2>1, <2>2 DEF Holds
<1>7. /\ Purged(f) \in Dictionary(T, E) /\ OneEntry(Purged(f)) /\ NoneEmpty(Purged(f))
      /\ \A re, c : Holds(Purged(f), re, c) <=> Holds(f, re, c)
  BY <1>5, PurgedOK
<1> QED
  BY <1>4, <1>6, <1>7
(* addRegexpToDictionary adds the subscription id of e to the text. *)
LEMMA AddRegexpOK ==
  ASSUME NEW T, NEW E, NEW d \in Dictionary(T, E), OneEntry(d), NoneEmpty(d),
         NEW re \in T, NEW e \in E, NEW id \in Nat
  PROVE  LET r == addRegexpToDictionary(d, re, e, id)
         IN  /\ r \in Dictionary(T, E) /\ OneEntry(r) /\ NoneEmpty(r)
             /\ \A t, c : Holds(r, t, c) <=>
                  Holds(d, t, c) \/ (t = re /\ c = [cl |-> e, id |-> id])
<1> DEFINE item == [cl |-> e, id |-> id]
           new == <<item>>
           r == addRegexpToDictionary(d, re, e, id)
<1>1. new \in ClientList(E) /\ Elems(new) = {item} /\ new # <<>>
  BY SingleElems DEF ClientList
<1>2. CASE InDict(d, re)
  <2> DEFINE f == [k \in DOMAIN d |-> IF d[k].re = re THEN [d[k] EXCEPT !.cls = new \o @]
                                                      ELSE d[k]]
  <2>1. r = f
    BY <1>2 DEF addRegexpToDictionary
  <2>2. ASSUME NEW k \in DOMAIN d
        PROVE  /\ f[k] \in Entry(T, E) /\ f[k].re = d[k].re
               /\ f[k].cls # <<>>
               /\ Elems(f[k].cls) = IF d[k].re = re THEN {item} \cup Elems(d[k].cls)
                                                    ELSE Elems(d[k].cls)
    <3> DEFINE cls == new \o d[k].cls
    <3>1. d[k] \in Entry(T, E) /\ d[k].cls \in ClientList(E) /\ d[k].cls # <<>>
      BY EntryFields DEF NoneEmpty
    <3>2. cls \in ClientList(E) /\ Elems(cls) = {item} \cup Elems(d[k].cls)
      <4> DEFINE S == [cl : E, id : Nat]
                 s == d[k].cls
      <4>1. item \in S /\ s \in Seq(S)
        BY <3>1 DEF ClientList
      <4> HIDE DEF item, S, s
      <4>2. <<item>> \o s \in Seq(S) /\ Elems(<<item>> \o s) = {item} \cup Elems(s)
        BY <4>1, FrontElems
      <4> QED
        BY <4>2 DEF ClientList, S, s
    <3>3. cls # <<>>
      <4>1. item \in Elems(cls)
        BY <3>2
      <4>2. PICK i \in DOMAIN cls : cls[i] = item
        BY <4>1 DEF Elems
      <4> HIDE DEF cls
      <4> QED
        BY <4>2
    <3>4. f[k] = IF d[k].re = re THEN [d[k] EXCEPT !.cls = cls] ELSE d[k]
      OBVIOUS
    <3> HIDE DEF cls, f
    <3>5. CASE d[k].re = re
      <4>1. f[k] = [d[k] EXCEPT !.cls = cls]
        BY <3>4, <3>5
      <4>2. f[k] \in Entry(T, E) /\ f[k].re = d[k].re /\ f[k].cls = cls
        BY <3>1, <3>2, <4>1, EntryChanged
      <4> QED
        BY <3>2, <3>3, <3>5, <4>2
    <3>6. CASE d[k].re # re
      BY <3>1, <3>4, <3>6
    <3> QED
      BY <3>5, <3>6
  <2>3. f = [k \in DOMAIN d |-> f[k]]
    OBVIOUS
  <2> HIDE DEF f
  <2>4. f \in Dictionary(T, E) /\ OneEntry(f) /\ DOMAIN f = DOMAIN d
    <3>1. \A k \in DOMAIN d : f[k] \in Entry(T, E) /\ f[k].re = d[k].re
      BY <2>2
    <3> QED
      BY <2>3, <3>1, EntriesReplaced
  <2>5. NoneEmpty(f)
    BY <2>2, <2>4 DEF NoneEmpty
  <2>6. ASSUME NEW t, NEW c
        PROVE  Holds(f, t, c) <=> Holds(d, t, c) \/ (t = re /\ c = item)
    <3>1. Holds(f, t, c) <=> \E k \in DOMAIN d : d[k].re = t /\ c \in Elems(f[k].cls)
      BY <2>2, <2>4 DEF Holds
    <3>2. \A k \in DOMAIN d : d[k].re = t =>
            (c \in Elems(f[k].cls) <=> c \in Elems(d[k].cls) \/ (t = re /\ c = item))
      BY <2>2
    <3>3. \E k \in DOMAIN d : d[k].re = re
      BY <1>2 DEF InDict
    <3> HIDE DEF item
    <3> QED
      BY <3>1, <3>2, <3>3 DEF Holds
  <2> QED
    BY <2>1, <2>4, <2>5, <2>6
<1>3. CASE ~ InDict(d, re)
  <2> DEFINE x == [re |-> re, cls |-> new]
             n == Len(d)
  <2>1. r = Append(d, x)
    BY <1>3 DEF addRegexpToDictionary
  <2>2. x \in Entry(T, E) /\ x.re = re /\ x.cls = new
    BY <1>1 DEF Entry
  <2>3. d \in Seq(Entry(T, E)) /\ n \in Nat /\ DOMAIN d = 1 .. n
    BY LenProperties DEF Dictionary
  <2> HIDE DEF x, n
  <2>4. /\ r \in Seq(Entry(T, E)) /\ Len(r) = n + 1
        /\ \A i \in 1 .. n : r[i] = d[i]
        /\ r[n + 1] = x
    BY <2>1, <2>2, <2>3, AppendElems DEF n
  <2>5. DOMAIN r = 1 .. n + 1
    BY <2>4, LenProperties
  <2> HIDE DEF r
  <2>6. \A i \in DOMAIN r : i \in DOMAIN d \/ i = n + 1
    BY <2>3, <2>5
  <2>7. n + 1 \in DOMAIN r /\ \A i \in DOMAIN d : i \in DOMAIN r /\ r[i] = d[i]
    BY <2>3, <2>4, <2>5
  <2>8. \A i \in DOMAIN d : d[i].re # re
    BY <1>3 DEF InDict
  <2>9. OneEntry(r)
    <3> SUFFICES ASSUME NEW j \in DOMAIN r, NEW k \in DOMAIN r, r[j].re = r[k].re PROVE j = k
      BY DEF OneEntry
    <3>1. CASE j \in DOMAIN d /\ k \in DOMAIN d
      BY <3>1, <2>7 DEF OneEntry
    <3>2. CASE j \in DOMAIN d /\ k = n + 1
      BY <3>2, <2>2, <2>4, <2>7, <2>8
    <3>3. CASE j = n + 1 /\ k \in DOMAIN d
      BY <3>3, <2>2, <2>4, <2>7, <2>8
    <3> QED
      BY <3>1, <3>2, <3>3, <2>6
  <2>10. NoneEmpty(r)
    BY <2>2, <2>4, <2>6, <2>7, <1>1 DEF NoneEmpty
  <2>11. ASSUME NEW t, NEW c
         PROVE  Holds(r, t, c) <=> Holds(d, t, c) \/ (t = re /\ c = item)
    <3>1. ASSUME Holds(r, t, c) PROVE Holds(d, t, c) \/ (t = re /\ c = item)
      <4>1. PICK k \in DOMAIN r : r[k].re = t /\ c \in Elems(r[k].cls)
        BY <3>1 DEF Holds
      <4>2. CASE k \in DOMAIN d
        BY <4>1, <4>2, <2>7 DEF Holds
      <4>3. CASE k = n + 1
        BY <4>1, <4>3, <2>2, <2>4, <1>1
      <4> QED
        BY <4>2, <4>3, <2>6
    <3>2. ASSUME Holds(d, t, c) PROVE Holds(r, t, c)
      BY <3>2, <2>7 DEF Holds
    <3>3. ASSUME t = re, c = item PROVE Holds(r, t, c)
      <4>1. r[n + 1].re = t /\ c \in Elems(r[n + 1].cls)
        BY <3>3, <2>2, <2>4, <1>1
      <4> QED
        BY <4>1, <2>7 DEF Holds
    <3> QED
      BY <3>1, <3>2, <3>3
  <2> QED
    BY <2>4, <2>9, <2>10, <2>11 DEF Dictionary, r
<1> QED
  BY <1>2, <1>3
-----------------------------------------------------------------------------
(* The subscriptions of a client. *)

LEMMA SubsOK ==
  ASSUME NEW T, NEW E, NEW d \in Dictionary(T, E), NEW e, NEW b
  PROVE  b \in DictSubs(d, e) <=>
           /\ b \in [id : Nat, re : T]
           /\ Holds(d, b.re, [cl |-> e, id |-> b.id])
<1>1. \A k \in DOMAIN d : d[k].re \in T /\ d[k].cls \in ClientList(E)
  BY EntryFields
<1>2. ASSUME NEW k \in DOMAIN d, NEW n \in DOMAIN d[k].cls
      PROVE  d[k].cls[n] \in [cl : E, id : Nat] /\ d[k].cls[n] \in Elems(d[k].cls)
  <2> DEFINE s == d[k].cls
  <2>1. s \in Seq([cl : E, id : Nat])
    BY <1>1 DEF ClientList
  <2> HIDE DEF s
  <2>2. n \in 1 .. Len(s) => s[n] \in [cl : E, id : Nat]
    BY <2>1, ElementOfSeq
  <2>3. n \in 1 .. Len(s)
    BY <2>1, LenProperties DEF s
  <2> QED
    BY <2>2, <2>3 DEF s, Elems
<1>3. ASSUME b \in DictSubs(d, e)
      PROVE  b \in [id : Nat, re : T] /\ Holds(d, b.re, [cl |-> e, id |-> b.id])
  <2>1. PICK k \in DOMAIN d : \E n \in DOMAIN d[k].cls :
               d[k].cls[n].cl = e /\ b = [id |-> d[k].cls[n].id, re |-> d[k].re]
    BY <1>3 DEF DictSubs
  <2>2. PICK n \in DOMAIN d[k].cls :
               d[k].cls[n].cl = e /\ b = [id |-> d[k].cls[n].id, re |-> d[k].re]
    BY <2>1
  <2> DEFINE c == d[k].cls[n]
  <2>3. c \in [cl : E, id : Nat] /\ c \in Elems(d[k].cls)
    BY <1>2
  <2>4. c.cl = e /\ b = [id |-> c.id, re |-> d[k].re] /\ d[k].re \in T
    BY <2>2, <1>1
  <2> HIDE DEF c
  <2>5. c = [cl |-> e, id |-> b.id] /\ b.re = d[k].re /\ b \in [id : Nat, re : T]
    BY <2>3, <2>4
  <2> QED
    BY <2>3, <2>5 DEF Holds
<1>4. ASSUME b \in [id : Nat, re : T], Holds(d, b.re, [cl |-> e, id |-> b.id])
      PROVE  b \in DictSubs(d, e)
  <2>1. PICK k \in DOMAIN d : d[k].re = b.re /\ [cl |-> e, id |-> b.id] \in Elems(d[k].cls)
    BY <1>4 DEF Holds
  <2>2. PICK n \in DOMAIN d[k].cls : d[k].cls[n] = [cl |-> e, id |-> b.id]
    BY <2>1 DEF Elems
  <2>3. d[k].cls[n].cl = e /\ d[k].cls[n].id = b.id
    BY <2>2
  <2>4. b = [id |-> d[k].cls[n].id, re |-> d[k].re]
    BY <1>4, <2>1, <2>3
  <2> QED
    BY <2>3, <2>4 DEF DictSubs
<1> QED
  BY <1>3, <1>4

(* The clients are those with a subscription. *)
LEMMA ClientsHold ==
  ASSUME NEW d, NEW e
  PROVE  e \in Clients(d) <=> DictSubs(d, e) # {}
<1>1. ASSUME e \in Clients(d) PROVE DictSubs(d, e) # {}
  <2>1. PICK k \in DOMAIN d : \E n \in DOMAIN d[k].cls : d[k].cls[n].cl = e
    BY <1>1 DEF Clients
  <2>2. PICK n \in DOMAIN d[k].cls : d[k].cls[n].cl = e
    BY <2>1
  <2>3. [id |-> d[k].cls[n].id, re |-> d[k].re] \in DictSubs(d, e)
    BY <2>2 DEF DictSubs
  <2> QED
    BY <2>3
<1>2. ASSUME DictSubs(d, e) # {} PROVE e \in Clients(d)
  <2>1. PICK b \in DictSubs(d, e) : TRUE
    BY <1>2
  <2>2. PICK k \in DOMAIN d : \E n \in DOMAIN d[k].cls : d[k].cls[n].cl = e
    BY <2>1 DEF DictSubs
  <2> QED
    BY <2>2 DEF Clients
<1> QED
  BY <1>1, <1>2

(* A dictionary that holds what another one holds, and perhaps the         *)
(* subscription id of e under the text re.                                 *)
LEMMA SubsAdded ==
  ASSUME NEW T, NEW E, NEW d \in Dictionary(T, E), NEW r \in Dictionary(T, E),
         NEW re \in T, NEW e \in E, NEW id \in Nat,
         \A t, c : Holds(r, t, c) <=> Holds(d, t, c) \/ (t = re /\ c = [cl |-> e, id |-> id])
  PROVE  /\ DictSubs(r, e) = DictSubs(d, e) \cup {[id |-> id, re |-> re]}
         /\ \A x : x # e => DictSubs(r, x) = DictSubs(d, x)
<1> DEFINE B == [id : Nat, re : T]
           Item(x, b) == [cl |-> x, id |-> b.id]
<1>1. \A x, b : b \in DictSubs(d, x) <=> b \in B /\ Holds(d, b.re, Item(x, b))
  BY SubsOK
<1>2. \A x, b : b \in DictSubs(r, x) <=> b \in B /\ Holds(r, b.re, Item(x, b))
  BY SubsOK
<1>3. ASSUME NEW x, NEW b
      PROVE  Holds(r, b.re, Item(x, b)) <=>
               Holds(d, b.re, Item(x, b)) \/ (b.re = re /\ Item(x, b) = [cl |-> e, id |-> id])
  OBVIOUS
<1>4. ASSUME NEW x, NEW b
      PROVE  Item(x, b) = [cl |-> e, id |-> id] <=> x = e /\ b.id = id
  <2>1. Item(x, b).cl = x /\ Item(x, b).id = b.id
    OBVIOUS
  <2> QED
    BY <2>1
<1>5. \A b \in B : b.re = re /\ b.id = id <=> b = [id |-> id, re |-> re]
  OBVIOUS
<1>6. [id |-> id, re |-> re] \in B
  OBVIOUS
<1> HIDE DEF B, Item
<1>7. ASSUME NEW b PROVE b \in DictSubs(r, e) <=> b \in DictSubs(d, e) \cup {[id |-> id, re |-> re]}
  <2>1. Holds(r, b.re, Item(e, b)) <=> Holds(d, b.re, Item(e, b)) \/ (b.re = re /\ b.id = id)
    BY <1>3, <1>4
  <2>2. CASE b \in B
    BY <2>1, <2>2, <1>1, <1>2, <1>5
  <2>3. CASE b \notin B
    BY <2>3, <1>1, <1>2, <1>6
  <2> QED
    BY <2>2, <2>3
<1>8. ASSUME NEW x, x # e PROVE DictSubs(r, x) = DictSubs(d, x)
  <2>1. ASSUME NEW b PROVE b \in DictSubs(r, x) <=> b \in DictSubs(d, x)
    BY <1>1, <1>2, <1>3, <1>4, <1>8
  <2> QED
    BY <2>1
<1> QED
  BY <1>7, <1>8
(* The registry of an application, and the order it keeps. *)
Registry(T, E) == [dict : Dictionary(T, E), regs : [E -> Seq([id : Nat, re : T])]]
Orderly(r) == OneEntry(r.dict) /\ NoneEmpty(r.dict)

LEMMA DictAdded ==
  ASSUME NEW T, NEW E, NEW d \in Dictionary(T, E), OneEntry(d), NoneEmpty(d),
         NEW re \in T, NEW e \in E, NEW id \in Nat
  PROVE  LET r == addRegexpToDictionary(d, re, e, id)
         IN  /\ r \in Dictionary(T, E) /\ OneEntry(r) /\ NoneEmpty(r)
             /\ DictSubs(r, e) = DictSubs(d, e) \cup {[id |-> id, re |-> re]}
             /\ \A x : x # e => DictSubs(r, x) = DictSubs(d, x)
<1> DEFINE r == addRegexpToDictionary(d, re, e, id)
<1>1. /\ r \in Dictionary(T, E) /\ OneEntry(r) /\ NoneEmpty(r)
      /\ \A t, c : Holds(r, t, c) <=> Holds(d, t, c) \/ (t = re /\ c = [cl |-> e, id |-> id])
  BY AddRegexpOK
<1> HIDE DEF r
<1>2. /\ DictSubs(r, e) = DictSubs(d, e) \cup {[id |-> id, re |-> re]}
      /\ \A x : x # e => DictSubs(r, x) = DictSubs(d, x)
  BY <1>1, SubsAdded
<1> QED
  BY <1>1, <1>2 DEF r

LEMMA DictChanged ==
  ASSUME NEW T, NEW E, NEW d \in Dictionary(T, E), OneEntry(d), NoneEmpty(d),
         NEW re \in T, NEW e \in E, NEW id \in Nat
  PROVE  LET r == changeRegexpInDictionary(d, re, e, id)
         IN  /\ r \in Dictionary(T, E) /\ OneEntry(r) /\ NoneEmpty(r)
             /\ DictSubs(r, e) = DictSubs(d, e) \cup {[id |-> id, re |-> re]}
             /\ \A x : x # e => DictSubs(r, x) = DictSubs(d, x)
<1> DEFINE m == delRegexpForOneClientFromDictionary(d, {re}, e, id)
           r == addRegexpToDictionary(m, re, e, id)
           item == [cl |-> e, id |-> id]
<1>1. /\ m \in Dictionary(T, E) /\ OneEntry(m) /\ NoneEmpty(m)
      /\ \A t, c : Holds(m, t, c) <=> Holds(d, t, c) /\ ~ (t \in {re} /\ c = item)
  BY DelRegexpOK
<1> HIDE DEF m, item
<1>2. /\ r \in Dictionary(T, E) /\ OneEntry(r) /\ NoneEmpty(r)
      /\ \A t, c : Holds(r, t, c) <=> Holds(m, t, c) \/ (t = re /\ c = item)
  BY <1>1, AddRegexpOK DEF item
<1> HIDE DEF r
<1>3. \A t, c : Holds(r, t, c) <=> Holds(d, t, c) \/ (t = re /\ c = item)
  BY <1>1, <1>2
<1>4. /\ DictSubs(r, e) = DictSubs(d, e) \cup {[id |-> id, re |-> re]}
      /\ \A x : x # e => DictSubs(r, x) = DictSubs(d, x)
  BY <1>2, <1>3, SubsAdded DEF item
<1>5. r = changeRegexpInDictionary(d, re, e, id)
  BY DEF r, m, changeRegexpInDictionary
<1> QED
  BY <1>2, <1>4, <1>5

(* The step from r to s gives client e the subscription b, in the           *)
(* dictionary, and the other clients have what they had.                   *)
Gains(r, s, E, e, b) ==
  /\ DictSubs(s.dict, e) = DictSubs(r.dict, e) \cup {b}
  /\ \A x : x # e => DictSubs(s.dict, x) = DictSubs(r.dict, x)
  /\ \A x \in E : x # e => s.regs[x] = r.regs[x]

(* AddRegexp from client e. *)
LEMMA AddOrChangeOK ==
  ASSUME NEW T, NEW E, NEW r \in Registry(T, E), Orderly(r),
         NEW re \in T, NEW e \in E, NEW id \in Nat
  PROVE  LET s == addOrChangeRegexp(r, re, e, id)
         IN  /\ s \in Registry(T, E) /\ Orderly(s)
             /\ Gains(r, s, E, e, [id |-> id, re |-> re])
<1> DEFINE s == addOrChangeRegexp(r, re, e, id)
           B == [id : Nat, re : T]
           d == r.dict
           l == r.regs[e]
<1>1. d \in Dictionary(T, E) /\ OneEntry(d) /\ NoneEmpty(d) /\ r.regs \in [E -> Seq(B)]
  BY DEF Registry, Orderly
<1>2. l \in Seq(B) /\ [id |-> id, re |-> re] \in B
  BY <1>1
<1>3. CASE s = addRegexp(r, re, e, id)
  <2> DEFINE dn == addRegexpToDictionary(d, re, e, id)
             ln == <<[id |-> id, re |-> re]>> \o l
  <2>1. s = [dict |-> dn, regs |-> [r.regs EXCEPT ![e] = ln]]
    BY <1>3 DEF addRegexp
  <2>2. /\ dn \in Dictionary(T, E) /\ OneEntry(dn) /\ NoneEmpty(dn)
        /\ DictSubs(dn, e) = DictSubs(d, e) \cup {[id |-> id, re |-> re]}
        /\ \A x : x # e => DictSubs(dn, x) = DictSubs(d, x)
    BY <1>1, DictAdded
  <2> HIDE DEF d, l
  <2>3. ln \in Seq(B)
    BY <1>2, FrontElems
  <2> HIDE DEF dn, ln, s, B
  <2>4. s.dict = dn /\ s.regs = [r.regs EXCEPT ![e] = ln]
    BY <2>1
  <2>5. s.regs \in [E -> Seq(B)] /\ \A x \in E : x # e => s.regs[x] = r.regs[x]
    BY <1>1, <2>3, <2>4
  <2>6. s \in Registry(T, E)
    BY <2>1, <2>2, <2>4, <2>5 DEF Registry, B
  <2> QED
    BY <2>2, <2>4, <2>5, <2>6 DEF Orderly, Gains, s, d
<1>4. CASE s = changeRegexp(r, re, e, id)
  <2> DEFINE dn == changeRegexpInDictionary(d, re, e, id)
             ln == [k \in DOMAIN l |-> IF l[k].id = id THEN [l[k] EXCEPT !.re = re] ELSE l[k]]
  <2>1. s = [dict |-> dn, regs |-> [r.regs EXCEPT ![e] = ln]]
    BY <1>4 DEF changeRegexp
  <2>2. /\ dn \in Dictionary(T, E) /\ OneEntry(dn) /\ NoneEmpty(dn)
        /\ DictSubs(dn, e) = DictSubs(d, e) \cup {[id |-> id, re |-> re]}
        /\ \A x : x # e => DictSubs(dn, x) = DictSubs(d, x)
    BY <1>1, DictChanged
  <2> HIDE DEF d, l
  <2>3. ln \in Seq(B)
    <3>1. Len(l) \in Nat /\ DOMAIN l = 1 .. Len(l) /\ \A k \in 1 .. Len(l) : l[k] \in B
      BY <1>2, LenProperties, ElementOfSeq
    <3>2. ln \in [1 .. Len(l) -> B]
      BY <3>1
    <3> QED
      BY <3>1, <3>2, SeqDef
  <2> HIDE DEF dn, ln, s, B
  <2>4. s.dict = dn /\ s.regs = [r.regs EXCEPT ![e] = ln]
    BY <2>1
  <2>5. s.regs \in [E -> Seq(B)] /\ \A x \in E : x # e => s.regs[x] = r.regs[x]
    BY <1>1, <2>3, <2>4
  <2>6. s \in Registry(T, E)
    BY <2>1, <2>2, <2>4, <2>5 DEF Registry, B
  <2> QED
    BY <2>2, <2>4, <2>5, <2>6 DEF Orderly, Gains, s, d
<1> QED
  BY <1>3, <1>4 DEF addOrChangeRegexp

(* In the dictionary of s client e lost the texts it registered under id. *)
DictLess(r, s, e, id) ==
  \A x, b : b \in DictSubs(s.dict, x) <=>
    /\ b \in DictSubs(r.dict, x)
    /\ ~ (x = e /\ b.id = id /\ \E k \in DOMAIN r.regs[e] :
                                  r.regs[e][k].id = id /\ r.regs[e][k].re = b.re)

(* DelRegexp from client e: it loses the subscriptions with that id whose  *)
(* text its own list names, and the other clients have what they had.      *)
LEMMA DelRegexpForOneOK ==
  ASSUME NEW T, NEW E, NEW r \in Registry(T, E), Orderly(r), NEW e \in E, NEW id \in Nat
  PROVE  LET s == delRegexpForOneClient(r, e, id)
         IN  /\ s \in Registry(T, E) /\ Orderly(s)
             /\ DictLess(r, s, e, id)
             /\ ListSubs(s.regs[e]) = {b \in ListSubs(r.regs[e]) : b.id # id}
             /\ \A x \in E : x # e => s.regs[x] = r.regs[x]
<1> DEFINE s == delRegexpForOneClient(r, e, id)
           B == [id : Nat, re : T]
           d == r.dict
           l == r.regs[e]
           mine == {k \in DOMAIN l : l[k].id = id}
           texts == {l[k].re : k \in mine}
           dn == delRegexpForOneClientFromDictionary(d, texts, e, id)
           ln == Sublist(l, DOMAIN l \ mine)
           item == [cl |-> e, id |-> id]
<1>1. d \in Dictionary(T, E) /\ OneEntry(d) /\ NoneEmpty(d) /\ r.regs \in [E -> Seq(B)]
  BY DEF Registry, Orderly
<1>2. l \in Seq(B)
  BY <1>1
<1>3. s = [dict |-> dn, regs |-> [r.regs EXCEPT ![e] = ln]]
  BY DEF delRegexpForOneClient
<1> HIDE DEF d, l, B
<1>4. /\ dn \in Dictionary(T, E) /\ OneEntry(dn) /\ NoneEmpty(dn)
      /\ \A t, c : Holds(dn, t, c) <=> Holds(d, t, c) /\ ~ (t \in texts /\ c = item)
  BY <1>1, DelRegexpOK
<1>5. ln \in Seq(B) /\ Elems(ln) = {l[i] : i \in DOMAIN l \ mine}
  <2>1. DOMAIN l = 1 .. Len(l)
    BY <1>2, LenProperties
  <2>2. DOMAIN l \ mine \in SUBSET (1 .. Len(l))
    BY <2>1
  <2> QED
    BY <1>2, <2>2, SublistOK, SublistElements DEF Elems
<1>6. ListSubs(ln) = {b \in ListSubs(l) : b.id # id}
  BY <1>5 DEF Elems, ListSubs
<1>7. \A t : t \in texts <=> \E k \in DOMAIN l : l[k].id = id /\ l[k].re = t
  OBVIOUS
<1> HIDE DEF dn, ln, s, texts, mine, item
<1>8. s.dict = dn /\ s.regs = [r.regs EXCEPT ![e] = ln]
  BY <1>3
<1>9. /\ s.regs \in [E -> Seq(B)] /\ \A x \in E : x # e => s.regs[x] = r.regs[x]
      /\ s.regs[e] = ln
  BY <1>1, <1>5, <1>8
<1>10. s \in Registry(T, E)
  BY <1>3, <1>4, <1>8, <1>9 DEF Registry, B
<1>11. ASSUME NEW x, NEW b
       PROVE  b \in DictSubs(dn, x) <=>
                b \in DictSubs(d, x) /\ ~ (x = e /\ b.id = id /\ b.re \in texts)
  <2> DEFINE Item == [cl |-> x, id |-> b.id]
  <2>1. b \in DictSubs(d, x) <=> b \in [id : Nat, re : T] /\ Holds(d, b.re, Item)
    BY <1>1, SubsOK
  <2>2. b \in DictSubs(dn, x) <=> b \in [id : Nat, re : T] /\ Holds(dn, b.re, Item)
    BY <1>4, SubsOK
  <2>3. Item = item <=> x = e /\ b.id = id
    <3>1. Item.cl = x /\ Item.id = b.id /\ item.cl = e /\ item.id = id
      BY DEF item
    <3> QED
      BY <3>1 DEF item
  <2> HIDE DEF Item
  <2>4. Holds(dn, b.re, Item) <=> Holds(d, b.re, Item) /\ ~ (b.re \in texts /\ Item = item)
    BY <1>4
  <2> QED
    BY <2>1, <2>2, <2>3, <2>4
<1>12. DictLess(r, s, e, id)
  BY <1>7, <1>8, <1>11 DEF DictLess, d, l
<1> QED
  BY <1>4, <1>6, <1>8, <1>9, <1>10, <1>12 DEF Orderly, s, l

(* ClientDelete: client e has nothing left, the others have what they had. *)
LEMMA DelOneClientOK ==
  ASSUME NEW T, NEW E, NEW r \in Registry(T, E), Orderly(r), NEW e \in E
  PROVE  LET s == delOneClient(r, e)
         IN  /\ s \in Registry(T, E) /\ Orderly(s)
             /\ DictSubs(s.dict, e) = {} /\ s.regs[e] = <<>>
             /\ \A x : x # e => DictSubs(s.dict, x) = DictSubs(r.dict, x)
             /\ \A x \in E : x # e => s.regs[x] = r.regs[x]
<1> DEFINE s == delOneClient(r, e)
           B == [id : Nat, re : T]
           d == r.dict
           dn == delOneClientFromDictionary(d, e)
<1>1. d \in Dictionary(T, E) /\ OneEntry(d) /\ NoneEmpty(d) /\ r.regs \in [E -> Seq(B)]
  BY DEF Registry, Orderly
<1>2. s = [dict |-> dn, regs |-> [r.regs EXCEPT ![e] = <<>>]]
  BY DEF delOneClient
<1> HIDE DEF d, B
<1>3. /\ dn \in Dictionary(T, E) /\ OneEntry(dn) /\ NoneEmpty(dn)
      /\ \A t, c : Holds(dn, t, c) <=> Holds(d, t, c) /\ c.cl # e
  BY <1>1, DelClientOK
<1> HIDE DEF dn, s
<1>4. s.dict = dn /\ s.regs = [r.regs EXCEPT ![e] = <<>>]
  BY <1>2
<1>5. <<>> \in Seq(B)
  BY EmptySeq
<1>6. /\ s.regs \in [E -> Seq(B)] /\ s.regs[e] = <<>>
      /\ \A x \in E : x # e => s.regs[x] = r.regs[x]
  BY <1>1, <1>4, <1>5
<1>7. s \in Registry(T, E)
  BY <1>2, <1>3, <1>4, <1>6 DEF Registry, B
<1>8. ASSUME NEW x, NEW b PROVE b \in DictSubs(dn, x) <=> b \in DictSubs(d, x) /\ x # e
  <2> DEFINE Item == [cl |-> x, id |-> b.id]
  <2>1. b \in DictSubs(d, x) <=> b \in [id : Nat, re : T] /\ Holds(d, b.re, Item)
    BY <1>1, SubsOK
  <2>2. b \in DictSubs(dn, x) <=> b \in [id : Nat, re : T] /\ Holds(dn, b.re, Item)
    BY <1>3, SubsOK
  <2>3. Item.cl = x
    OBVIOUS
  <2> HIDE DEF Item
  <2>4. Holds(dn, b.re, Item) <=> Holds(d, b.re, Item) /\ x # e
    BY <1>3, <2>3
  <2> QED
    BY <2>1, <2>2, <2>4
<1>9. DictSubs(dn, e) = {} /\ \A x : x # e => DictSubs(dn, x) = DictSubs(d, x)
  BY <1>8
<1> QED
  BY <1>3, <1>4, <1>6, <1>7, <1>9 DEF Orderly, s, d
(* The first element of client e in a client list that has one. *)
LEMMA FirstOfOK ==
  ASSUME NEW E, NEW cls \in ClientList(E), NEW e, Lists(cls, e)
  PROVE  FirstOf(cls, e) \in Elems(cls) /\ FirstOf(cls, e).cl = e
<1> DEFINE K == {n \in DOMAIN cls : cls[n].cl = e}
           P(n) == cls[n].cl = e /\ \A j \in 1 .. n - 1 : cls[j].cl # e
<1>1. DOMAIN cls = 1 .. Len(cls) /\ Len(cls) \in Nat
  BY LenProperties DEF ClientList
<1>2. K \in SUBSET Nat /\ K # {}
  BY <1>1 DEF Lists
<1>3. PICK n \in K : \A j \in K : n =< j
  BY <1>2, LeastNat
<1>4. ASSUME NEW j \in 1 .. n - 1 PROVE cls[j].cl # e
  <2>1. n \in 1 .. Len(cls)
    BY <1>1
  <2>2. j \in DOMAIN cls /\ ~ (n =< j)
    BY <1>1, <2>1
  <2> QED
    BY <1>3, <2>2
<1>5. P(n) /\ n \in DOMAIN cls
  BY <1>4
<1> HIDE DEF P
<1>6. (CHOOSE i \in DOMAIN cls : P(i)) \in DOMAIN cls /\ P(CHOOSE i \in DOMAIN cls : P(i))
  BY <1>5
<1> QED
  BY <1>6 DEF P, FirstOf, Elems

(* The dictionary and the list of client e agree after an AddRegexp of e,  *)
(* when they did before it and an id of e stands for one text.             *)
LEMMA AddOrChangeAgrees ==
  ASSUME NEW T, NEW E, NEW r \in Registry(T, E), Orderly(r),
         NEW re \in T, NEW e \in E, NEW id \in Nat,
         DictSubs(r.dict, e) = ListSubs(r.regs[e]),
         \A b \in DictSubs(r.dict, e) : b.id = id => b.re = re
  PROVE  LET s == addOrChangeRegexp(r, re, e, id)
         IN  DictSubs(s.dict, e) = ListSubs(s.regs[e])
<1> DEFINE s == addOrChangeRegexp(r, re, e, id)
           B == [id : Nat, re : T]
           d == r.dict
           l == r.regs[e]
           new == [id |-> id, re |-> re]
<1>1. d \in Dictionary(T, E) /\ OneEntry(d) /\ NoneEmpty(d) /\ r.regs \in [E -> Seq(B)]
  BY DEF Registry, Orderly
<1>2. l \in Seq(B) /\ new \in B
  BY <1>1
<1>3. DictSubs(s.dict, e) = DictSubs(d, e) \cup {new}
  <2>1. Gains(r, s, E, e, new)
    BY AddOrChangeOK
  <2> QED
    BY <2>1 DEF Gains
<1>4. ListSubs(l) = Elems(l)
  BY DEF ListSubs, Elems
<1>5. CASE s = addRegexp(r, re, e, id)
  <2> DEFINE ln == <<new>> \o l
  <2>1. s.regs = [r.regs EXCEPT ![e] = ln]
    BY <1>5 DEF addRegexp
  <2>2. s.regs[e] = ln
    BY <1>1, <2>1
  <2> HIDE DEF l, new, s, B
  <2>3. Elems(ln) = {new} \cup Elems(l)
    BY <1>2, FrontElems
  <2>4. ListSubs(s.regs[e]) = {new} \cup ListSubs(l)
    BY <1>4, <2>2, <2>3 DEF ListSubs, Elems
  <2> QED
    BY <1>3, <2>4 DEF s, l, d
<1>6. CASE /\ InDict(d, re) /\ Lists(EntryOf(d, re).cls, e)
           /\ FirstOf(EntryOf(d, re).cls, e).id = id
           /\ s = changeRegexp(r, re, e, id)
  <2> DEFINE x == EntryOf(d, re)
             c == FirstOf(x.cls, e)
             ln == [k \in DOMAIN l |-> IF l[k].id = id THEN [l[k] EXCEPT !.re = re] ELSE l[k]]
  <2>1. PICK k \in DOMAIN d : x = d[k] /\ d[k].re = re
    <3> DEFINE j == CHOOSE k \in DOMAIN d : d[k].re = re
    <3>1. j \in DOMAIN d /\ d[j].re = re
      BY <1>6 DEF InDict
    <3>2. x = d[j]
      BY DEF EntryOf
    <3> HIDE DEF j, x
    <3> QED
      BY <3>1, <3>2
  <2>2. x.cls \in ClientList(E)
    BY <1>1, <2>1, EntryFields
  <2>3. c \in Elems(x.cls) /\ c.cl = e /\ c.id = id
    <3> HIDE DEF x
    <3> QED
      BY <1>6, <2>2, FirstOfOK DEF x
  <2>4. c \in [cl : E, id : Nat]
    <3> DEFINE y == x.cls
    <3>1. y \in Seq([cl : E, id : Nat]) /\ c \in Elems(y)
      BY <2>2, <2>3 DEF ClientList
    <3> HIDE DEF y, c
    <3>2. PICK i \in DOMAIN y : c = y[i]
      BY <3>1 DEF Elems
    <3>3. DOMAIN y = 1 .. Len(y)
      BY <3>1, LenProperties
    <3> QED
      BY <3>1, <3>2, <3>3, ElementOfSeq
  <2>5. c = [cl |-> e, id |-> id]
    <3> HIDE DEF c
    <3> QED
      BY <2>3, <2>4
  <2>6. Holds(d, re, [cl |-> e, id |-> id])
    BY <2>1, <2>3, <2>5 DEF Holds
  <2>7. new \in DictSubs(d, e)
    <3>1. new.id = id /\ new.re = re
      OBVIOUS
    <3> HIDE DEF new
    <3> QED
      BY <1>1, <1>2, <2>6, <3>1, SubsOK
  <2>8. s.regs[e] = ln
    <3>1. s.regs = [r.regs EXCEPT ![e] = ln]
      BY <1>6 DEF changeRegexp
    <3> QED
      BY <1>1, <3>1
  <2>9. ASSUME NEW i \in DOMAIN l PROVE ln[i] = l[i]
    <3>1. l[i] \in B /\ l[i] \in ListSubs(l)
      <4> HIDE DEF l, B
      <4>1. DOMAIN l = 1 .. Len(l)
        BY <1>2, LenProperties
      <4> QED
        BY <1>2, <4>1, ElementOfSeq DEF ListSubs
    <3>2. l[i].id = id => l[i].re = re
      BY <3>1
    <3>3. l[i].id = id => [l[i] EXCEPT !.re = re] = l[i]
      BY <3>1, <3>2
    <3> QED
      BY <3>3
  <2>10. ListSubs(ln) = ListSubs(l)
    BY <2>9 DEF ListSubs
  <2> HIDE DEF ln, new, s
  <2> QED
    BY <1>3, <2>7, <2>8, <2>10 DEF s
<1> QED
  BY <1>5, <1>6 DEF addOrChangeRegexp
(* The places of some entries of a dictionary are finitely many pairs. *)
LEMMA PlacesOK ==
  ASSUME NEW T, NEW E, NEW d \in Dictionary(T, E), NEW K \in SUBSET DOMAIN d
  PROVE  /\ IsFiniteSet(Places(d, K)) /\ Places(d, K) \subseteq Nat \X Nat
         /\ \A p \in Places(d, K) : p[1] \in K /\ p[2] \in DOMAIN d[p[1]].cls
<1> DEFINE Row(k) == {k} \X DOMAIN d[k].cls
           f == [k \in K |-> Row(k)]
           U == {f[k] : k \in K}
<1>1. DOMAIN d = 1 .. Len(d) /\ Len(d) \in Nat
  BY LenProperties DEF Dictionary
<1>2. IsFiniteSet(K)
  <2>1. IsFiniteSet(1 .. Len(d))
    BY <1>1, FS_Interval
  <2> QED
    BY <1>1, <2>1, FS_Subset
<1>3. ASSUME NEW k \in K
      PROVE  /\ IsFiniteSet(Row(k)) /\ Row(k) \subseteq Nat \X Nat
             /\ \A p \in Row(k) : p[1] = k /\ p[2] \in DOMAIN d[k].cls
  <2>1. k \in Nat /\ d[k].cls \in ClientList(E)
    BY <1>1, EntryFields
  <2> DEFINE s == d[k].cls
             D == DOMAIN s
  <2>2. D = 1 .. Len(s) /\ Len(s) \in Nat
    BY <2>1, LenProperties DEF ClientList
  <2>3. IsFiniteSet(D) /\ D \subseteq Nat
    BY <2>2, FS_Interval
  <2>4. IsFiniteSet({k})
    BY FS_Singleton
  <2> HIDE DEF D
  <2>5. IsFiniteSet({k} \X D)
    BY <2>3, <2>4, FS_Product
  <2> QED
    BY <2>1, <2>3, <2>5 DEF D
<1>4. f \in Surjection(K, U)
  BY DEF Surjection
<1>5. Places(d, K) = UNION U
  BY DEF Places
<1> HIDE DEF f, Row
<1>6. IsFiniteSet(U)
  BY <1>2, <1>4, FS_Surjection
<1>7. \A k \in K : f[k] = Row(k)
  BY DEF f
<1>8. \A R \in U : IsFiniteSet(R)
  BY <1>3, <1>7
<1>9. \A p \in UNION U : \E k \in K : p \in Row(k)
  BY <1>7
<1> HIDE DEF U
<1>10. IsFiniteSet(UNION U)
  BY <1>6, <1>8, FS_UNION
<1>11. UNION U \subseteq Nat \X Nat
  BY <1>3, <1>9
<1>12. ASSUME NEW p \in UNION U PROVE p[1] \in K /\ p[2] \in DOMAIN d[p[1]].cls
  <2>1. PICK k \in K : p \in Row(k)
    BY <1>9
  <2>2. p[1] = k /\ p[2] \in DOMAIN d[k].cls
    BY <1>3, <2>1
  <2> QED
    BY <2>2
<1> QED
  BY <1>5, <1>10, <1>11, <1>12

-----------------------------------------------------------------------------
(* The shape of the state. *)

Binding == [id : Nat, re : Re]
Lines ==
  [type : {"AddRegexp"}, id : Nat, arg : Re]
    \cup [type : {"Msg"}, id : Nat, arg : Message]
    \cup [type : {"StartRegexp", "EndRegexp", "DelRegexp", "Error", "Bye", "Die"},
          id : Nat, arg : App]
Link == [ini : App, acc : App, seen : SeenPorts]
Client == [port : Nat, ready : Nat, ignore : BOOLEAN, up : BOOLEAN]
Sockets == {"none", "pending", "open", "marked", "refused", "closed"}

LinkOK == link \in Seq(Link) /\ Len(link) =< MaxConn
SockOK == sock \in [End -> Sockets] /\ \A e \in End \ Made : sock[e] = "none"
ChanOK == chan \in [End -> Seq(Lines)] /\ \A e \in End \ Made : chan[e] = <<>>
OwnOK == /\ status \in [App -> {"off", "bound", "running", "stopped", "exited"}]
         /\ allClients \in [App -> Seq(End)]
BindOK == /\ binds \in [App -> Seq(Binding)] /\ nextId \in [App -> Nat]
          /\ budget \in [send : [App -> Nat], change : Nat]
CliOK == cli \in [End -> Client]
RegOK == /\ reg \in [App -> Registry(Re, End)]
         /\ \A a \in App : Orderly(reg[a])

Shape == LinkOK /\ SockOK /\ ChanOK /\ OwnOK /\ BindOK /\ CliOK /\ RegOK

-----------------------------------------------------------------------------
(* Ends and their owners. *)

LEMMA EndsOK ==
  ASSUME LinkOK, NEW e \in Made
  PROVE  /\ e \in End /\ Owner(e) \in App /\ e \in EndsOf(Owner(e))
         /\ Peer(e) \in Made /\ Peer(e) \in End /\ Peer(Peer(e)) = e /\ Peer(e) # e
         /\ Owner(Peer(e)) \in App
<1>1. PICK k \in 1 .. Len(link), w \in {"i", "a"} : e = <<k, w>>
  BY DEF Made
<1>2. k \in 1 .. MaxConn /\ link[k] \in Link /\ k \in DOMAIN link
  BY BusAssumption, LenProperties, ElementOfSeq DEF LinkOK
<1>3. e[1] = k /\ e[2] = w /\ e \in End
  BY <1>1, <1>2 DEF End
<1>4. Owner(e) \in App
  BY <1>2, <1>3 DEF Owner, Link
<1>5. Peer(e) = <<k, IF w = "i" THEN "a" ELSE "i">>
  BY <1>1 DEF Peer
<1>6. /\ Peer(e) \in Made /\ Peer(e) \in End /\ Peer(e)[1] = k
      /\ Peer(e)[2] = IF w = "i" THEN "a" ELSE "i"
  BY <1>1, <1>2, <1>5 DEF Made, End
<1>7. Peer(Peer(e)) = e /\ Peer(e) # e
  BY <1>1, <1>6 DEF Peer
<1>8. Owner(Peer(e)) \in App
  BY <1>2, <1>6 DEF Owner, Link
<1>9. e \in EndsOf(Owner(e))
  BY DEF EndsOf, Made
<1> QED
  BY <1>3, <1>4, <1>6, <1>7, <1>8, <1>9

LEMMA PeerOK ==
  ASSUME NEW e \in End
  PROVE  Peer(e) \in End /\ Peer(Peer(e)) = e /\ Peer(e) # e
<1>1. PICK k \in 1 .. MaxConn, w \in {"i", "a"} : e = <<k, w>>
  BY DEF End
<1>2. Peer(e) = <<k, IF w = "i" THEN "a" ELSE "i">>
  BY <1>1 DEF Peer
<1>3. Peer(e) \in End /\ Peer(e)[1] = k /\ Peer(e)[2] = IF w = "i" THEN "a" ELSE "i"
  BY <1>1, <1>2 DEF End
<1> QED
  BY <1>1, <1>2, <1>3 DEF Peer

LEMMA EndsOfMade == \A a : \A e : e \in EndsOf(a) <=> e \in Made /\ Owner(e) = a
  BY DEF EndsOf, Made
-----------------------------------------------------------------------------
(* What is sent. *)

LEMMA LinesOK ==
  /\ \A id \in Nat, re \in Re : Line("AddRegexp", id, re) \in Lines
  /\ \A id \in Nat, m \in Message : Line("Msg", id, m) \in Lines
  /\ \A id \in Nat, a \in App,
        t \in {"StartRegexp", "EndRegexp", "DelRegexp", "Error", "Bye", "Die"} :
        Line(t, id, a) \in Lines
  /\ \A t, id, x : Line(t, id, x).type = t /\ Line(t, id, x).id = id /\ Line(t, id, x).arg = x
  BY DEF Line, Lines

LEMMA LineFields ==
  ASSUME NEW l \in Lines
  PROVE  /\ l.id \in Nat
         /\ l.type = "AddRegexp" => l.arg \in Re
         /\ l.type = "Msg" => l.arg \in Message
  BY DEF Lines

LEMMA SendOnOK ==
  ASSUME SockOK, NEW ch \in [End -> Seq(Lines)], NEW S, NEW lines,
         \A e \in S \cap End : lines[e] \in Seq(Lines)
  PROVE  /\ SendOn(ch, S, lines) \in [End -> Seq(Lines)]
         /\ \A x \in End : SendOn(ch, S, lines)[x] =
              IF Peer(x) \in S /\ Open(x) THEN ch[x] \o lines[Peer(x)] ELSE ch[x]
         /\ \A x \in End \ Made : SendOn(ch, S, lines)[x] = ch[x]
<1> DEFINE f == SendOn(ch, S, lines)
<1>1. /\ \A x \in End : f[x] =
           IF Peer(x) \in S /\ Open(x) THEN ch[x] \o lines[Peer(x)] ELSE ch[x]
      /\ f = [x \in End |-> f[x]]
  BY DEF SendOn
<1>2. \A x \in End : f[x] \in Seq(Lines)
  <2> SUFFICES ASSUME NEW x \in End PROVE f[x] \in Seq(Lines)
    OBVIOUS
  <2>1. CASE Peer(x) \in S /\ Open(x)
    <3>1. lines[Peer(x)] \in Seq(Lines) /\ ch[x] \in Seq(Lines)
      BY <2>1, PeerOK
    <3>2. ch[x] \o lines[Peer(x)] \in Seq(Lines)
      BY <3>1, ConcatElems
    <3> QED
      BY <1>1, <2>1, <3>2
  <2>2. CASE ~ (Peer(x) \in S /\ Open(x))
    BY <1>1, <2>2
  <2> QED
    BY <2>1, <2>2
<1>3. \A x \in End \ Made : ~ Open(x)
  BY DEF SockOK, Open
<1> HIDE DEF f
<1>4. f \in [End -> Seq(Lines)]
  BY <1>1, <1>2
<1> QED
  BY <1>1, <1>3, <1>4 DEF f

LEMMA AnnouncementsOK ==
  ASSUME BindOK, NEW a \in App
  PROVE  /\ Announcements(a) \in Seq(Lines)
         /\ Len(Announcements(a)) = Len(binds[a])
         /\ \A n \in DOMAIN Announcements(a) :
              /\ n \in DOMAIN binds[a]
              /\ Announcements(a)[n] = Line("AddRegexp", binds[a][n].id, binds[a][n].re)
<1> DEFINE s == binds[a]
           f == Announcements(a)
<1>1. s \in Seq(Binding)
  BY DEF BindOK
<1>2. f = [n \in DOMAIN s |-> Line("AddRegexp", s[n].id, s[n].re)]
  BY DEF Announcements
<1> HIDE DEF s, f
<1>3. DOMAIN s = 1 .. Len(s) /\ Len(s) \in Nat /\ \A n \in DOMAIN s : s[n] \in Binding
  BY <1>1, LenProperties, ElementOfSeq
<1>4. \A n \in DOMAIN s : Line("AddRegexp", s[n].id, s[n].re) \in Lines
  BY <1>3, LinesOK DEF Binding
<1>5. f \in [1 .. Len(s) -> Lines]
  BY <1>2, <1>3, <1>4
<1>6. f \in Seq(Lines)
  BY <1>3, <1>5, SeqDef
<1>7. Len(f) = Len(s) /\ DOMAIN f = DOMAIN s
  BY <1>3, <1>5, <1>6, LenProperties
<1> QED
  BY <1>2, <1>6, <1>7 DEF s, f

LEMMA ServiceOK ==
  ASSUME BindOK, NEW a \in App
  PROVE  /\ Service(a) \in Seq(Lines)
         /\ Elems(Service(a)) = Elems(Announcements(a))
              \cup {Line("StartRegexp", Port[a], a), Line("EndRegexp", 0, a)}
<1> DEFINE f == Announcements(a)
           l == Line("StartRegexp", Port[a], a)
           k == Line("EndRegexp", 0, a)
           s == <<l>>
           t == <<k>>
<1>1. f \in Seq(Lines)
  BY AnnouncementsOK
<1>2. l \in Lines /\ k \in Lines
  BY BusAssumption, LinesOK
<1>3. Service(a) = (s \o f) \o t
  BY DEF Service
<1> HIDE DEF f, l, k
<1>4. s \in Seq(Lines) /\ Elems(s) = {l} /\ t \in Seq(Lines) /\ Elems(t) = {k}
  BY <1>2, SingleElems
<1> HIDE DEF s, t
<1> DEFINE u == s \o f
<1>5. u \in Seq(Lines) /\ Elems(u) = Elems(s) \cup Elems(f)
  BY <1>1, <1>4, ConcatElems
<1> HIDE DEF u
<1>6. u \o t \in Seq(Lines) /\ Elems(u \o t) = Elems(u) \cup Elems(t)
  BY <1>4, <1>5, ConcatElems
<1> QED
  BY <1>3, <1>4, <1>5, <1>6 DEF u, f, l, k

(* The lines a message makes for end e: one for a subscription of e that   *)
(* matches it, none for an end without subscriptions.                      *)
LEMMA HitsOK ==
  ASSUME NEW d \in Dictionary(Re, End), NEW m \in Message, NEW e
  PROVE  /\ Hits(d, m, e) \in Seq(Lines)
         /\ \A l \in Elems(Hits(d, m, e)) :
              /\ l.type = "Msg" /\ l.arg = m
              /\ \E b \in DictSubs(d, e) : b.id = l.id /\ m \in Match[b.re]
         /\ e \notin Clients(d) => Hits(d, m, e) = <<>>
<1> DEFINE matching == {k \in DOMAIN d : d[k].re \notin Bad /\ m \in Match[d[k].re]}
           P == {p \in Places(d, matching) : d[p[1]].cls[p[2]].cl = e}
           s == InOrder(P)
           Sent(p) == Line("Msg", d[p[1]].cls[p[2]].id, m)
           h == Hits(d, m, e)
<1>1. h = [n \in DOMAIN s |-> Sent(s[n])]
  BY DEF Hits
<1>2. matching \in SUBSET DOMAIN d
  OBVIOUS
<1>3. /\ IsFiniteSet(Places(d, matching)) /\ Places(d, matching) \subseteq Nat \X Nat
      /\ \A p \in Places(d, matching) : p[1] \in matching /\ p[2] \in DOMAIN d[p[1]].cls
  <2> HIDE DEF matching
  <2> QED
    BY <1>2, PlacesOK
<1>4. IsFiniteSet(P) /\ P \subseteq Nat \X Nat
  <2>1. P \in SUBSET Places(d, matching)
    OBVIOUS
  <2> QED
    BY <1>3, <2>1, FS_Subset
<1>5. ASSUME NEW p \in P
      PROVE  /\ Sent(p) \in Lines /\ Sent(p).type = "Msg" /\ Sent(p).arg = m
             /\ \E b \in DictSubs(d, e) : b.id = Sent(p).id /\ m \in Match[b.re]
  <2> DEFINE k == p[1]
             n == p[2]
  <2>1. k \in DOMAIN d /\ n \in DOMAIN d[k].cls /\ d[k].cls[n].cl = e /\ m \in Match[d[k].re]
    BY <1>3
  <2> HIDE DEF k, n
  <2> DEFINE b == [id |-> d[k].cls[n].id, re |-> d[k].re]
  <2>2. b \in DictSubs(d, e)
    BY <2>1 DEF DictSubs
  <2>3. b \in [id : Nat, re : Re]
    <3> HIDE DEF b
    <3> QED
      BY <2>2, SubsOK
  <2>4. b.id = d[k].cls[n].id /\ b.re = d[k].re
    OBVIOUS
  <2>5. b.id \in Nat
    BY <2>3
  <2>6. Sent(p) = Line("Msg", b.id, m)
    BY <2>4 DEF k, n
  <2> HIDE DEF b, Sent
  <2> QED
    BY <2>1, <2>2, <2>4, <2>5, <2>6, LinesOK
<1> HIDE DEF P
<1>6. s \in Seq(P)
  BY <1>4, InOrderOK
<1> HIDE DEF s, h
<1>7. DOMAIN s = 1 .. Len(s) /\ Len(s) \in Nat /\ \A n \in DOMAIN s : s[n] \in P
  BY <1>6, LenProperties, ElementOfSeq
<1> HIDE DEF Sent
<1>8. h \in [1 .. Len(s) -> Lines]
  BY <1>1, <1>5, <1>7
<1>9. h \in Seq(Lines)
  BY <1>7, <1>8, SeqDef
<1>10. ASSUME NEW l \in Elems(h)
       PROVE  /\ l.type = "Msg" /\ l.arg = m
              /\ \E b \in DictSubs(d, e) : b.id = l.id /\ m \in Match[b.re]
  <2>1. PICK n \in DOMAIN s : l = Sent(s[n]) /\ s[n] \in P
    BY <1>1, <1>7 DEF Elems
  <2> QED
    BY <1>5, <2>1
<1>11. ASSUME e \notin Clients(d) PROVE h = <<>>
  <2>1. DictSubs(d, e) = {}
    BY <1>11, ClientsHold
  <2>2. P = {}
    BY <1>5, <2>1
  <2>3. Len(s) = 0
    BY <1>7, <2>2
  <2>4. DOMAIN h = {}
    BY <1>8, <2>3
  <2> QED
    BY <1>9, <2>4
<1> QED
  BY <1>9, <1>10, <1>11 DEF h
-----------------------------------------------------------------------------
(* The links, which only BroadcastReceive adds to. *)

(* The ends that connecting makes. *)
LEMMA NewEnds ==
  ASSUME LinkOK, NEW k, k = Len(link) + 1, k =< MaxConn
  PROVE  LET i == <<k, "i">>
             c == <<k, "a">>
         IN  /\ i \in End \ Made /\ c \in End \ Made /\ i # c
             /\ Peer(i) = c /\ Peer(c) = i
<1>1. Len(link) \in Nat /\ MaxConn \in Nat
  BY BusAssumption, LenProperties DEF LinkOK
<1>2. k \in 1 .. MaxConn /\ k \notin 1 .. Len(link)
  BY <1>1
<1> QED
  BY <1>2 DEF End, Made, Peer

LEMMA LinkAdded ==
  ASSUME LinkOK, NEW k, k = Len(link) + 1, k =< MaxConn,
         NEW b \in App, NEW a \in App, NEW port \in SeenPorts,
         link' = Append(link, [ini |-> b, acc |-> a, seen |-> port])
  PROVE  /\ LinkOK'
         /\ Made' = Made \cup {<<k, "i">>, <<k, "a">>}
         /\ \A e \in Made : Owner(e)' = Owner(e)
         /\ Owner(<<k, "i">>)' = b /\ Owner(<<k, "a">>)' = a
<1> DEFINE x == [ini |-> b, acc |-> a, seen |-> port]
           n == Len(link)
<1>1. x \in Link /\ x.ini = b /\ x.acc = a /\ link \in Seq(Link) /\ n \in Nat
  BY LenProperties DEF Link, LinkOK
<1>2. link' = Append(link, x)
  OBVIOUS
<1> HIDE DEF x
<1>3. /\ link' \in Seq(Link) /\ Len(link') = n + 1
      /\ \A i \in 1 .. n : link'[i] = link[i]
      /\ link'[k] = x
  BY <1>1, <1>2, AppendElems
<1>4. 1 .. n + 1 = (1 .. n) \cup {k}
  BY <1>1
<1>5. Made' = Made \cup {<<k, "i">>, <<k, "a">>}
  BY <1>3, <1>4 DEF Made
<1>6. \A e \in Made : Owner(e)' = Owner(e)
  BY <1>3 DEF Made, Owner
<1>7. Owner(<<k, "i">>)' = b /\ Owner(<<k, "a">>)' = a
  BY <1>1, <1>3 DEF Owner
<1>8. LinkOK'
  BY <1>3 DEF LinkOK
<1> QED
  BY <1>5, <1>6, <1>7, <1>8

(* The two ways BroadcastReceive goes. *)
LEMMA BroadcastCases ==
  ASSUME NEW b \in App, NEW a \in App, BroadcastReceive(b, a)
  PROVE  /\ UNCHANGED <<status, reg, binds, nextId, budget>>
         /\ \/ UNCHANGED <<link, sock, chan, cli, allClients, announced>>
            \/ \E port \in SeenPorts, k \in {Len(link) + 1} :
                 /\ Connects(b, a) /\ status[b] = "running" /\ k =< MaxConn
                 /\ link' = Append(link, [ini |-> b, acc |-> a, seen |-> port])
                 /\ sock' = [sock EXCEPT ![<<k, "i">>] = "open", ![<<k, "a">>] = "pending"]
                 /\ SendService(b, <<k, "i">>)
  BY DEF BroadcastReceive, FreshPorts

LEMMA LinkStep ==
  ASSUME LinkOK, [Next]_vars
  PROVE  LinkOK' /\ Made \subseteq Made' /\ \A e \in Made : Owner(e)' = Owner(e)
<1> DEFINE Goal == LinkOK' /\ Made \subseteq Made' /\ \A e \in Made : Owner(e)' = Owner(e)
<1>0. ASSUME UNCHANGED link PROVE Goal
  BY <1>0 DEF LinkOK, Made, Owner
<1>1. ASSUME NEW b \in App, NEW a \in App, BroadcastReceive(b, a) PROVE Goal
  <2>1. CASE UNCHANGED link
    BY <1>0, <2>1
  <2>2. CASE \E port \in SeenPorts, k \in {Len(link) + 1} :
               /\ k =< MaxConn
               /\ link' = Append(link, [ini |-> b, acc |-> a, seen |-> port])
    BY <2>2, LinkAdded
  <2> QED
    BY <1>1, <2>1, <2>2, BroadcastCases
<1>2. ASSUME NEW a \in App,
             IvyStart(a) \/ SocketSendBroadcast(a) \/ IvyStop(a) \/ Exit(a)
      PROVE  UNCHANGED link
  BY <1>2 DEF IvyStart, SocketSendBroadcast, IvyStop, Exit
<1>3. ASSUME NEW a \in App, Call(a) PROVE UNCHANGED link
  BY <1>3 DEF Call, IvyBindMsg, IvyUnbindMsg, IvyChangeMsg, IvySendMsg, IvySendDieMsg
<1>4. ASSUME NEW e \in Made, Receive(e) PROVE UNCHANGED link
  BY <1>4 DEF Receive, ReceiveBye, ReceiveError, ReceiveAddRegexp, ReceiveDelRegexp,
              ReceiveStartRegexp, ReceiveEndRegexp, ReceiveMsg, ReceiveDie, ReceiveIgnored
<1>5. ASSUME NEW e \in Made, HandleServer(e) \/ ReadEnd(e) \/ DeleteSocket(e)
      PROVE  UNCHANGED link
  BY <1>5 DEF HandleServer, ReadEnd, DeleteSocket
<1>6. ASSUME UNCHANGED vars PROVE UNCHANGED link
  BY <1>6 DEF vars
<1> HIDE DEF Goal
<1>7. Goal
  BY <1>0, <1>1, <1>2, <1>3, <1>4, <1>5, <1>6 DEF Next
<1> QED
  BY <1>7 DEF Goal
-----------------------------------------------------------------------------
(* Channels. *)

LEMMA RestOK ==
  ASSUME LinkOK, ChanOK, NEW e \in Made, chan[e] # <<>>
  PROVE  /\ Head(chan[e]) \in Lines /\ Tail(chan[e]) \in Seq(Lines)
         /\ Rest(e) \in [End -> Seq(Lines)]
         /\ Rest(e)[e] = Tail(chan[e])
         /\ \A x \in End : x # e => Rest(e)[x] = chan[x]
         /\ \A x \in End \ Made : Rest(e)[x] = <<>>
<1>1. e \in End
  BY EndsOK
<1> DEFINE s == chan[e]
<1>2. s \in Seq(Lines) /\ s # <<>>
  BY <1>1 DEF ChanOK
<1> HIDE DEF s
<1>3. Head(s) \in Lines /\ Tail(s) \in Seq(Lines)
  BY <1>2, HeadTailProperties
<1>4. Rest(e) = [chan EXCEPT ![e] = Tail(s)]
  BY DEF Rest, s
<1> QED
  BY <1>1, <1>3, <1>4 DEF ChanOK, s

(* Closing the ends S: their channels are emptied, and a channel that loses *)
(* a tail of its lines is the one from a closed end.                        *)
LEMMA CloseOK ==
  ASSUME LinkOK, SockOK, ChanOK, NEW S \in SUBSET Made, CloseSockets(S)
  PROVE  /\ sock' = [e \in End |-> IF e \in S THEN "closed" ELSE sock[e]]
         /\ chan' \in [End -> Seq(Lines)]
         /\ \A x \in S : chan'[x] = <<>>
         /\ \A x \in End \ S : Peer(x) \notin S => chan'[x] = chan[x]
         /\ \A x \in End \ S : \E n \in 0 .. Len(chan[x]) : chan'[x] = SubSeq(chan[x], 1, n)
<1> DEFINE reset == {Peer(e) : e \in {x \in S : chan[x] # <<>>}} \ S
           lengths == UNION {0 .. Len(chan[e]) : e \in reset}
<1>1. PICK kept \in {f \in [reset -> lengths] : \A e \in reset : f[e] =< Len(chan[e])} :
             chan' = [e \in End |-> IF e \in S THEN <<>>
                                    ELSE IF e \in reset THEN SubSeq(chan[e], 1, kept[e])
                                    ELSE chan[e]]
  BY DEF CloseSockets
<1>2. \A x \in S : x \in End
  BY EndsOK
<1>3. \A x \in End : chan[x] \in Seq(Lines) /\ Len(chan[x]) \in Nat
  BY LenProperties DEF ChanOK
<1>4. \A x \in reset : x \in End /\ Peer(x) \in S
  BY <1>2, PeerOK
<1>5. ASSUME NEW x \in reset PROVE kept[x] \in 0 .. Len(chan[x])
  <2>1. kept[x] \in lengths /\ kept[x] =< Len(chan[x])
    OBVIOUS
  <2>2. PICK y \in reset : kept[x] \in 0 .. Len(chan[y])
    BY <2>1
  <2>3. Len(chan[x]) \in Nat /\ Len(chan[y]) \in Nat
    BY <1>3, <1>4
  <2> QED
    BY <2>1, <2>2, <2>3
<1>6. \A s \in Seq(Lines) : SubSeq(s, 1, Len(s)) = s /\ Len(s) \in 0 .. Len(s)
  <2> SUFFICES ASSUME NEW s \in Seq(Lines)
               PROVE  SubSeq(s, 1, Len(s)) = s /\ Len(s) \in 0 .. Len(s)
    OBVIOUS
  <2>1. Len(s) \in Nat /\ Len(s) \in 0 .. Len(s)
    BY LenProperties
  <2>2. /\ SubSeq(s, 1, Len(s)) \in Seq(Lines) /\ Len(SubSeq(s, 1, Len(s))) = Len(s)
        /\ \A i \in 1 .. Len(s) : SubSeq(s, 1, Len(s))[i] = s[i]
    BY <2>1, Halves
  <2> QED
    BY <2>1, <2>2, SeqEqual
<1> HIDE DEF reset, lengths
<1>7. ASSUME NEW x \in End
      PROVE  /\ chan'[x] \in Seq(Lines)
             /\ x \in S => chan'[x] = <<>>
             /\ x \notin S => /\ Peer(x) \notin S => chan'[x] = chan[x]
                              /\ \E n \in 0 .. Len(chan[x]) : chan'[x] = SubSeq(chan[x], 1, n)
  <2>1. CASE x \in S
    <3>1. chan'[x] = <<>>
      BY <1>1, <2>1
    <3> QED
      BY <2>1, <3>1, EmptySeq
  <2>2. CASE x \notin S /\ x \in reset
    <3>1. chan'[x] = SubSeq(chan[x], 1, kept[x])
      BY <1>1, <2>2
    <3>2. SubSeq(chan[x], 1, kept[x]) \in Seq(Lines)
      BY <1>3, <1>5, <2>2, Halves
    <3> QED
      BY <1>4, <1>5, <2>2, <3>1, <3>2
  <2>3. CASE x \notin S /\ x \notin reset
    <3>1. chan'[x] = chan[x]
      BY <1>1, <2>3
    <3>2. chan[x] \in Seq(Lines)
      BY <1>3
    <3> QED
      BY <1>6, <2>3, <3>1, <3>2
  <2> QED
    BY <2>1, <2>2, <2>3
<1>8. chan' = [x \in End |-> chan'[x]]
  BY <1>1
<1>9. chan' \in [End -> Seq(Lines)]
  BY <1>7, <1>8
<1>10. sock' = [e \in End |-> IF e \in S THEN "closed" ELSE sock[e]]
  BY DEF CloseSockets
<1> QED
  BY <1>2, <1>7, <1>9, <1>10

(* One line sent to each of the peers of S. *)
(* SendService on end e: the peer gets the service, if its socket is there. *)
LEMMA SendServiceOK ==
  ASSUME BindOK, ChanOK, CliOK, OwnOK, NEW a \in App, NEW e \in End, SendService(a, e)
  PROVE  /\ chan' \in [End -> Seq(Lines)]
         /\ \A x \in End : x # Peer(e) => chan'[x] = chan[x]
         /\ chan'[Peer(e)] = IF sock'[Peer(e)] = "closed" THEN chan[Peer(e)]
                                                        ELSE chan[Peer(e)] \o Service(a)
         /\ CliOK' /\ \A x \in End : x # e => cli'[x] = cli[x]
         /\ cli'[e] = [NewClient EXCEPT !.ready = 1]
         /\ allClients' \in [App -> Seq(End)]
         /\ ClientsOf(a)' = {e} \cup ClientsOf(a)
         /\ \A b \in App : b # a => ClientsOf(b)' = ClientsOf(b)
<1>1. Peer(e) \in End
  BY PeerOK
<1> DEFINE t == Service(a)
           new == IF sock'[Peer(e)] = "closed" THEN chan[Peer(e)] ELSE chan[Peer(e)] \o t
<1>2. t \in Seq(Lines) /\ chan[Peer(e)] \in Seq(Lines)
  BY <1>1, ServiceOK DEF ChanOK
<1> HIDE DEF t
<1>3. new \in Seq(Lines)
  BY <1>2, ConcatElems
<1>4. chan' = [chan EXCEPT ![Peer(e)] = new]
  BY DEF SendService, t
<1> HIDE DEF new
<1>5. /\ chan' \in [End -> Seq(Lines)]
      /\ \A x \in End : x # Peer(e) => chan'[x] = chan[x]
      /\ chan'[Peer(e)] = new
  BY <1>1, <1>3, <1>4 DEF ChanOK
<1> DEFINE c == [NewClient EXCEPT !.ready = 1]
<1>6. c \in Client
  BY DEF NewClient, Client
<1>7. cli' = [cli EXCEPT ![e] = c]
  BY DEF SendService
<1> HIDE DEF c
<1>8. CliOK' /\ (\A x \in End : x # e => cli'[x] = cli[x]) /\ cli'[e] = c
  BY <1>6, <1>7 DEF CliOK
<1> DEFINE l == allClients[a]
           ln == <<e>> \o l
<1>9. allClients' = [allClients EXCEPT ![a] = ln]
  BY DEF SendService
<1>10. l \in Seq(End)
  BY DEF OwnOK
<1> HIDE DEF l
<1>11. ln \in Seq(End) /\ Elems(ln) = {e} \cup Elems(l)
  BY <1>10, FrontElems
<1> HIDE DEF ln
<1>12. /\ allClients' \in [App -> Seq(End)] /\ allClients'[a] = ln
       /\ \A b \in App : b # a => allClients'[b] = allClients[b]
  BY <1>9, <1>11 DEF OwnOK
<1>13. ClientsOf(a) = Elems(l) /\ ClientsOf(a)' = Elems(ln)
  BY <1>12 DEF ClientsOf, Elems, l
<1>14. \A b \in App : b # a => ClientsOf(b)' = ClientsOf(b)
  BY <1>12 DEF ClientsOf
<1> QED
  BY <1>5, <1>8, <1>11, <1>12, <1>13, <1>14 DEF new, t, c
-----------------------------------------------------------------------------
(* Every step keeps the shape of the state. *)

LEMMA SameMade ==
  ASSUME UNCHANGED link
  PROVE  Made' = Made /\ \A e : Owner(e)' = Owner(e)
  BY DEF Made, Owner

LEMMA SockStep ==
  ASSUME Shape, [Next]_vars
  PROVE  SockOK'
<1> USE DEF Shape
<1>0. ASSUME UNCHANGED <<link, sock>> PROVE SockOK'
  BY <1>0, SameMade DEF SockOK
<1>1. ASSUME NEW b \in App, NEW a \in App, BroadcastReceive(b, a) PROVE SockOK'
  <2>1. CASE UNCHANGED <<link, sock>>
    BY <1>0, <2>1
  <2>2. ASSUME NEW port \in SeenPorts, NEW k \in {Len(link) + 1}, k =< MaxConn,
               link' = Append(link, [ini |-> b, acc |-> a, seen |-> port]),
               sock' = [sock EXCEPT ![<<k, "i">>] = "open", ![<<k, "a">>] = "pending"]
        PROVE  SockOK'
    <3>1. Made' = Made \cup {<<k, "i">>, <<k, "a">>}
      BY <2>2, LinkAdded
    <3>2. sock' \in [End -> Sockets]
      BY <2>2 DEF SockOK, Sockets
    <3>3. \A x \in End : x # <<k, "i">> /\ x # <<k, "a">> => sock'[x] = sock[x]
      BY <2>2 DEF SockOK
    <3> QED
      BY <3>1, <3>2, <3>3 DEF SockOK
  <2> QED
    BY <1>1, <2>1, <2>2, BroadcastCases
<1>2. ASSUME NEW a \in App, IvyStart(a) \/ SocketSendBroadcast(a) \/ IvyStop(a)
      PROVE  UNCHANGED <<link, sock>>
  BY <1>2 DEF IvyStart, SocketSendBroadcast, IvyStop
<1>3. ASSUME NEW a \in App, Exit(a) PROVE SockOK'
  <2> DEFINE S == {e \in EndsOf(a) : Open(e)}
  <2>1. S \in SUBSET Made /\ CloseSockets(S) /\ UNCHANGED link
    BY <1>3, EndsOfMade DEF Exit
  <2> HIDE DEF S
  <2>2. sock' = [e \in End |-> IF e \in S THEN "closed" ELSE sock[e]]
    BY <2>1, CloseOK
  <2> QED
    BY <2>1, <2>2, SameMade DEF SockOK, Sockets
<1>4. ASSUME NEW a \in App, Call(a) PROVE UNCHANGED <<link, sock>>
  BY <1>4 DEF Call, IvyBindMsg, IvyUnbindMsg, IvyChangeMsg, IvySendMsg, IvySendDieMsg
<1>5. ASSUME NEW e \in Made, UNCHANGED link, NEW t, sock' = Marked(t) PROVE SockOK'
  BY <1>5, SameMade DEF SockOK, Sockets, Marked
<1>6. ASSUME NEW e \in Made, Receive(e) PROVE SockOK'
  <2>1. CASE ReceiveBye(e)
    BY <1>5, <2>1 DEF ReceiveBye
  <2>2. CASE ReceiveStartRegexp(e)
    <3>1. UNCHANGED link /\ (UNCHANGED sock \/ \E t : sock' = Marked(t))
      BY <2>2 DEF ReceiveStartRegexp
    <3> QED
      BY <1>0, <1>5, <3>1
  <2>3. CASE ReceiveDie(e)
    <3> DEFINE all == ClientsOf(Owner(e))
    <3>1. /\ UNCHANGED link
          /\ sock' = [x \in End |-> IF x \in all /\ sock[x] = "open" THEN "marked" ELSE sock[x]]
      BY <2>3 DEF ReceiveDie
    <3> HIDE DEF all
    <3> QED
      BY <3>1, SameMade DEF SockOK, Sockets
  <2>4. CASE \/ ReceiveError(e) \/ ReceiveAddRegexp(e) \/ ReceiveDelRegexp(e)
             \/ ReceiveEndRegexp(e) \/ ReceiveMsg(e) \/ ReceiveIgnored(e)
    <3>1. UNCHANGED <<link, sock>>
      BY <2>4 DEF ReceiveError, ReceiveAddRegexp, ReceiveDelRegexp, ReceiveEndRegexp,
                  ReceiveMsg, ReceiveIgnored
    <3> QED
      BY <1>0, <3>1
  <2> QED
    BY <1>6, <2>1, <2>2, <2>3, <2>4 DEF Receive
<1>7. ASSUME NEW e \in Made, HandleServer(e) PROVE SockOK'
  <2>1. /\ UNCHANGED link
        /\ sock' = [sock EXCEPT ![e] = "refused"] \/ sock' = [sock EXCEPT ![e] = "open"]
    BY <1>7 DEF HandleServer
  <2> QED
    BY <2>1, SameMade DEF SockOK, Sockets
<1>8. ASSUME NEW e \in Made, ReadEnd(e) PROVE SockOK'
  BY <1>5, <1>8 DEF ReadEnd
<1>9. ASSUME NEW e \in Made, DeleteSocket(e) PROVE SockOK'
  <2>1. {e} \in SUBSET Made /\ CloseSockets({e}) /\ UNCHANGED link
    BY <1>9 DEF DeleteSocket
  <2>2. sock' = [x \in End |-> IF x \in {e} THEN "closed" ELSE sock[x]]
    BY <2>1, CloseOK
  <2> QED
    BY <2>1, <2>2, SameMade DEF SockOK, Sockets
<1>10. ASSUME UNCHANGED vars PROVE UNCHANGED <<link, sock>>
  BY <1>10 DEF vars
<1> QED
  BY <1>0, <1>1, <1>2, <1>3, <1>4, <1>6, <1>7, <1>8, <1>9, <1>10 DEF Next

(* The sequence of client ends without end e. *)
LEMMA ClientTaken ==
  ASSUME OwnOK, NEW a \in App, NEW e,
         allClients' = [allClients EXCEPT ![a] = Sublist(@, {n \in DOMAIN @ : @[n] # e})]
  PROVE  /\ allClients' \in [App -> Seq(End)]
         /\ ClientsOf(a)' = ClientsOf(a) \ {e}
         /\ \A b \in App : b # a => ClientsOf(b)' = ClientsOf(b)
<1> DEFINE l == allClients[a]
           K == {n \in DOMAIN l : l[n] # e}
           ln == Sublist(l, K)
<1>1. l \in Seq(End)
  BY DEF OwnOK
<1>2. allClients' = [allClients EXCEPT ![a] = ln]
  OBVIOUS
<1> HIDE DEF l
<1>3. DOMAIN l = 1 .. Len(l) /\ K \in SUBSET (1 .. Len(l))
  BY <1>1, LenProperties
<1>4. ln \in Seq(End) /\ {ln[n] : n \in DOMAIN ln} = {l[i] : i \in K}
  BY <1>1, <1>3, SublistOK, SublistElements
<1>5. {l[i] : i \in K} = {l[i] : i \in DOMAIN l} \ {e}
  OBVIOUS
<1> HIDE DEF ln, K
<1>6. /\ allClients' \in [App -> Seq(End)] /\ allClients'[a] = ln
      /\ \A b \in App : b # a => allClients'[b] = allClients[b]
  BY <1>2, <1>4 DEF OwnOK
<1>7. ClientsOf(a)' = {ln[n] : n \in DOMAIN ln} /\ ClientsOf(a) = {l[i] : i \in DOMAIN l}
  BY <1>6 DEF ClientsOf, l
<1>8. ClientsOf(a)' = ClientsOf(a) \ {e}
  BY <1>4, <1>5, <1>7
<1>9. \A b \in App : b # a => ClientsOf(b)' = ClientsOf(b)
  BY <1>6 DEF ClientsOf
<1> QED
  BY <1>6, <1>8, <1>9

LEMMA OwnStep ==
  ASSUME Shape, [Next]_vars
  PROVE  OwnOK'
<1> USE DEF Shape
<1>0. ASSUME UNCHANGED <<status, allClients>> PROVE OwnOK'
  BY <1>0 DEF OwnOK
<1>1. ASSUME NEW b \in App, NEW a \in App, BroadcastReceive(b, a) PROVE OwnOK'
  <2>1. CASE UNCHANGED allClients
    BY <1>0, <1>1, <2>1, BroadcastCases
  <2>2. ASSUME NEW k \in {Len(link) + 1}, k =< MaxConn, SendService(b, <<k, "i">>)
        PROVE  OwnOK'
    <3>1. <<k, "i">> \in End
      BY <2>2, NewEnds
    <3>2. allClients' \in [App -> Seq(End)]
      BY <2>2, <3>1, SendServiceOK
    <3> QED
      BY <1>1, <3>2, BroadcastCases DEF OwnOK
  <2> QED
    BY <1>1, <2>1, <2>2, BroadcastCases
<1>2. ASSUME NEW a \in App, IvyStart(a) \/ SocketSendBroadcast(a) \/ IvyStop(a) \/ Exit(a)
      PROVE  OwnOK'
  BY <1>2 DEF IvyStart, SocketSendBroadcast, IvyStop, Exit, OwnOK
<1>3. ASSUME NEW a \in App, Call(a) PROVE UNCHANGED <<status, allClients>>
  BY <1>3 DEF Call, IvyBindMsg, IvyUnbindMsg, IvyChangeMsg, IvySendMsg, IvySendDieMsg
<1>4. ASSUME NEW e \in Made, Receive(e) PROVE OwnOK'
  <2>1. CASE ReceiveDie(e)
    <3>1. /\ allClients' = [allClients EXCEPT ![Owner(e)] = <<>>]
          /\ status' = [status EXCEPT ![Owner(e)] = "stopped"]
      BY <2>1 DEF ReceiveDie
    <3>2. <<>> \in Seq(End)
      BY EmptySeq
    <3> QED
      BY <3>1, <3>2 DEF OwnOK
  <2>2. CASE \/ ReceiveBye(e) \/ ReceiveError(e) \/ ReceiveAddRegexp(e) \/ ReceiveDelRegexp(e)
             \/ ReceiveStartRegexp(e) \/ ReceiveEndRegexp(e) \/ ReceiveMsg(e) \/ ReceiveIgnored(e)
    <3>1. UNCHANGED <<status, allClients>>
      BY <2>2 DEF ReceiveBye, ReceiveError, ReceiveAddRegexp, ReceiveDelRegexp,
                  ReceiveStartRegexp, ReceiveEndRegexp, ReceiveMsg, ReceiveIgnored
    <3> QED
      BY <1>0, <3>1
  <2> QED
    BY <1>4, <2>1, <2>2 DEF Receive
<1>5. ASSUME NEW e \in Made, HandleServer(e) PROVE OwnOK'
  <2>1. Owner(e) \in App /\ e \in End
    BY EndsOK
  <2>2. UNCHANGED status /\ (UNCHANGED allClients \/ SendService(Owner(e), e))
    BY <1>5 DEF HandleServer
  <2>3. CASE UNCHANGED allClients
    BY <1>0, <2>2, <2>3
  <2>4. CASE SendService(Owner(e), e)
    <3>1. allClients' \in [App -> Seq(End)]
      BY <2>1, <2>4, SendServiceOK
    <3> QED
      BY <2>2, <3>1 DEF OwnOK
  <2> QED
    BY <2>2, <2>3, <2>4
<1>6. ASSUME NEW e \in Made, ReadEnd(e) PROVE UNCHANGED <<status, allClients>>
  BY <1>6 DEF ReadEnd
<1>7. ASSUME NEW e \in Made, DeleteSocket(e) PROVE OwnOK'
  <2>1. Owner(e) \in App
    BY EndsOK
  <2>2. /\ UNCHANGED status
        /\ allClients' = [allClients EXCEPT ![Owner(e)] =
                            Sublist(@, {n \in DOMAIN @ : @[n] # e})]
    BY <1>7 DEF DeleteSocket
  <2>3. allClients' \in [App -> Seq(End)]
    BY <2>1, <2>2, ClientTaken
  <2> QED
    BY <2>2, <2>3 DEF OwnOK
<1>8. ASSUME UNCHANGED vars PROVE UNCHANGED <<status, allClients>>
  BY <1>8 DEF vars
<1> QED
  BY <1>0, <1>1, <1>2, <1>3, <1>4, <1>5, <1>6, <1>7, <1>8 DEF Next

LEMMA ChanStep ==
  ASSUME Shape, [Next]_vars
  PROVE  ChanOK'
<1> USE DEF Shape
<1> DEFINE Typed(ch) == ch \in [End -> Seq(Lines)] /\ \A x \in End \ Made : ch[x] = <<>>
<1>0. Typed(chan)
  BY DEF ChanOK
<1>a. ASSUME UNCHANGED link, Typed(chan') PROVE ChanOK'
  BY <1>a, SameMade DEF ChanOK
<1>b. ASSUME NEW ch, Typed(ch), NEW S, NEW l \in Lines
      PROVE  Typed(SendOn(ch, S, [x \in S |-> <<l>>]))
  <2>0. ch \in [End -> Seq(Lines)] /\ SockOK
    BY <1>b DEF Shape
  <2> DEFINE lines == [x \in S |-> <<l>>]
  <2>1. \A e \in S \cap End : lines[e] \in Seq(Lines)
    BY SingleElems
  <2> HIDE DEF lines, Shape
  <2>2. /\ SendOn(ch, S, lines) \in [End -> Seq(Lines)]
        /\ \A x \in End \ Made : SendOn(ch, S, lines)[x] = ch[x]
    BY <2>0, <2>1, SendOnOK
  <2>3. Typed(SendOn(ch, S, lines))
    BY <1>b, <2>2
  <2> QED
    BY <2>3 DEF lines
<1>c. ASSUME NEW e \in Made, chan[e] # <<>> PROVE Typed(Rest(e))
  BY <1>c, RestOK
<1>d. \A e \in Made : e \in End /\ Owner(e) \in App
  BY EndsOK
<1>e. \A a \in App : reg[a].dict \in Dictionary(Re, End)
  BY DEF RegOK, Registry
<1>f. ASSUME NEW ch, Typed(ch), NEW a \in App, NEW m \in Message, NEW S
      PROVE  Typed(SendOn(ch, S, [x \in S |-> Hits(reg[a].dict, m, x)]))
  <2> DEFINE lines == [x \in S |-> Hits(reg[a].dict, m, x)]
  <2>1. \A e \in S \cap End : lines[e] \in Seq(Lines)
    BY <1>e, HitsOK
  <2> HIDE DEF lines
  <2>2. /\ SendOn(ch, S, lines) \in [End -> Seq(Lines)]
        /\ \A x \in End \ Made : SendOn(ch, S, lines)[x] = ch[x]
    BY <1>f, <2>1, SendOnOK
  <2> QED
    BY <1>f, <2>2 DEF lines
<1>1. ASSUME NEW b \in App, NEW a \in App, BroadcastReceive(b, a) PROVE ChanOK'
  <2>1. CASE UNCHANGED <<link, chan>>
    BY <1>0, <1>a, <2>1
  <2>2. ASSUME NEW port \in SeenPorts, NEW k \in {Len(link) + 1}, k =< MaxConn,
               link' = Append(link, [ini |-> b, acc |-> a, seen |-> port]),
               SendService(b, <<k, "i">>)
        PROVE  ChanOK'
    <3> DEFINE i == <<k, "i">>
               c == <<k, "a">>
    <3>1. Made' = Made \cup {i, c}
      BY <2>2, LinkAdded
    <3>2. i \in End /\ Peer(i) = c
      BY <2>2, NewEnds
    <3> HIDE DEF i, c
    <3>3. chan' \in [End -> Seq(Lines)] /\ \A x \in End : x # Peer(i) => chan'[x] = chan[x]
      BY <2>2, <3>2, SendServiceOK DEF i
    <3> QED
      BY <3>1, <3>2, <3>3 DEF ChanOK
  <2> QED
    BY <1>1, <2>1, <2>2, BroadcastCases
<1>2. ASSUME NEW a \in App, IvyStart(a) \/ SocketSendBroadcast(a) \/ IvyStop(a)
      PROVE  UNCHANGED <<link, chan>>
  BY <1>2 DEF IvyStart, SocketSendBroadcast, IvyStop
<1>g. ASSUME NEW S \in SUBSET Made, CloseSockets(S), UNCHANGED link PROVE ChanOK'
  <2>1. /\ chan' \in [End -> Seq(Lines)]
        /\ \A x \in End \ S : Peer(x) \notin S => chan'[x] = chan[x]
    BY <1>g, CloseOK
  <2>2. \A x \in End \ Made : x \notin S /\ Peer(x) \notin S
    <3> SUFFICES ASSUME NEW x \in End, x \notin Made, Peer(x) \in S PROVE FALSE
      OBVIOUS
    <3>1. Peer(Peer(x)) \in Made /\ Peer(Peer(x)) = x
      BY EndsOK, PeerOK
    <3> QED
      BY <3>1
  <2> QED
    BY <1>0, <1>a, <1>g, <2>1, <2>2
<1>3. ASSUME NEW a \in App, Exit(a) PROVE ChanOK'
  <2> DEFINE S == {e \in EndsOf(a) : Open(e)}
  <2>1. S \in SUBSET Made /\ CloseSockets(S) /\ UNCHANGED link
    BY <1>3, EndsOfMade DEF Exit
  <2> QED
    BY <2>1, <1>g
<1> HIDE DEF Typed
<1>4. ASSUME NEW a \in App, Call(a) PROVE ChanOK'
  <2>n. \A n \in DOMAIN binds[a] : binds[a][n] \in Binding
    BY ElementOfSeq, LenProperties DEF BindOK
  <2>m. \A n \in DOMAIN binds[a] : binds[a][n].id \in Nat
    BY <2>n DEF Binding
  <2>i. nextId[a] \in Nat
    BY DEF BindOK
  <2>t. ASSUME NEW l \in Lines PROVE Typed(ToAll(a, l))
    BY <1>0, <1>b DEF ToAll
  <2>1. ASSUME NEW re \in Re, IvyBindMsg(a, re) PROVE ChanOK'
    <3>1. Line("AddRegexp", nextId[a], re) \in Lines
      BY <2>i, LinesOK
    <3>2. UNCHANGED link /\ chan' = ToAll(a, Line("AddRegexp", nextId[a], re))
      BY <2>1 DEF IvyBindMsg, RecvId
    <3> QED
      BY <1>a, <2>t, <3>1, <3>2
  <2>2. ASSUME NEW n \in DOMAIN binds[a], IvyUnbindMsg(a, n) PROVE ChanOK'
    <3>1. Line("DelRegexp", binds[a][n].id, a) \in Lines
      BY <2>m, LinesOK
    <3>2. UNCHANGED link /\ chan' = ToAll(a, Line("DelRegexp", binds[a][n].id, a))
      BY <2>2 DEF IvyUnbindMsg
    <3> QED
      BY <1>a, <2>t, <3>1, <3>2
  <2>3. ASSUME NEW n \in DOMAIN binds[a], NEW re \in Re, IvyChangeMsg(a, n, re) PROVE ChanOK'
    <3>1. Line("AddRegexp", binds[a][n].id, re) \in Lines
      BY <2>m, LinesOK
    <3>2. UNCHANGED link /\ chan' = ToAll(a, Line("AddRegexp", binds[a][n].id, re))
      BY <2>3 DEF IvyChangeMsg
    <3> QED
      BY <1>a, <2>t, <3>1, <3>2
  <2>4. ASSUME NEW m \in Message, IvySendMsg(a, m) PROVE ChanOK'
    <3>1. /\ UNCHANGED link
          /\ chan' = SendOn(chan, EndsOf(a), [e \in EndsOf(a) |-> Hits(reg[a].dict, m, e)])
      BY <2>4 DEF IvySendMsg
    <3> QED
      BY <1>0, <1>a, <1>f, <3>1
  <2>5. ASSUME NEW e \in EndsOf(a), IvySendDieMsg(a, e) PROVE ChanOK'
    <3>1. Line("Die", 0, a) \in Lines
      BY LinesOK
    <3>2. UNCHANGED link /\ chan' = SendOn(chan, {e}, [x \in {e} |-> <<Line("Die", 0, a)>>])
      BY <2>5 DEF IvySendDieMsg
    <3> QED
      BY <1>0, <1>a, <1>b, <3>1, <3>2
  <2> QED
    BY <1>4, <2>1, <2>2, <2>3, <2>4, <2>5 DEF Call
<1>5. ASSUME NEW e \in Made, Receive(e) PROVE ChanOK'
  <2>1. chan[e] # <<>> /\ UNCHANGED link
    BY <1>5 DEF Receive, ReceiveBye, ReceiveError, ReceiveAddRegexp, ReceiveDelRegexp,
                ReceiveStartRegexp, ReceiveEndRegexp, ReceiveMsg, ReceiveDie, ReceiveIgnored, Handles
  <2>2. Typed(Rest(e))
    BY <1>c, <2>1
  <2>3. Line("Error", 0, Owner(e)) \in Lines /\ Line("Bye", 0, Owner(e)) \in Lines
    BY <1>d, LinesOK
  <2>e. ASSUME NEW t
        PROVE  Typed(SendOn(Rest(e), {t}, [x \in {t} |-> <<Line("Error", 0, Owner(e))>>]))
    BY <1>b, <2>2, <2>3
  <2>4. CASE \/ ReceiveBye(e) \/ ReceiveError(e) \/ ReceiveDelRegexp(e)
             \/ ReceiveMsg(e) \/ ReceiveIgnored(e)
    <3>1. chan' = Rest(e)
      BY <2>4 DEF ReceiveBye, ReceiveError, ReceiveDelRegexp, ReceiveMsg, ReceiveIgnored
    <3> QED
      BY <1>a, <2>1, <2>2, <3>1
  <2>5. CASE ReceiveAddRegexp(e)
    <3>1. \/ chan' = Rest(e)
          \/ chan' = SendOn(Rest(e), {e}, [x \in {e} |-> <<Line("Error", 0, Owner(e))>>])
      BY <2>5 DEF ReceiveAddRegexp
    <3> QED
      BY <1>a, <2>e, <2>1, <2>2, <3>1
  <2>6. CASE ReceiveStartRegexp(e)
    <3>1. \/ chan' = Rest(e)
          \/ \E t : chan' = SendOn(Rest(e), {t}, [x \in {t} |-> <<Line("Error", 0, Owner(e))>>])
      BY <2>6 DEF ReceiveStartRegexp
    <3> QED
      BY <1>a, <2>e, <2>1, <2>2, <3>1
  <2>7. CASE ReceiveEndRegexp(e)
    <3> DEFINE a == Owner(e)
    <3>1. \/ chan' = Rest(e)
          \/ /\ Ready[a] # NoMessage
             /\ chan' = SendOn(Rest(e), {e}, [x \in {e} |-> Hits(reg[a].dict, Ready[a], e)])
      BY <2>7 DEF ReceiveEndRegexp
    <3>2. CASE chan' = Rest(e)
      BY <1>a, <2>1, <2>2, <3>2
    <3>3. CASE Ready[a] # NoMessage
      <4>1. Ready[a] \in Message
        BY <1>d, <3>3, BusAssumption
      <4>2. [x \in {e} |-> Hits(reg[a].dict, Ready[a], e)]
              = [x \in {e} |-> Hits(reg[a].dict, Ready[a], x)]
        OBVIOUS
      <4>3. Typed(SendOn(Rest(e), {e}, [x \in {e} |-> Hits(reg[a].dict, Ready[a], x)]))
        BY <1>d, <1>f, <2>2, <4>1
      <4> QED
        BY <1>a, <2>1, <2>2, <3>1, <4>2, <4>3
    <3> QED
      BY <3>1, <3>2, <3>3
  <2>8. CASE ReceiveDie(e)
    <3>1. chan' = SendOn(Rest(e), ClientsOf(Owner(e)),
                         [x \in ClientsOf(Owner(e)) |-> <<Line("Bye", 0, Owner(e))>>])
      BY <2>8 DEF ReceiveDie
    <3> QED
      BY <1>a, <1>b, <2>1, <2>2, <2>3, <3>1
  <2> QED
    BY <1>5, <2>4, <2>5, <2>6, <2>7, <2>8 DEF Receive
<1>6. ASSUME NEW e \in Made, HandleServer(e) PROVE ChanOK'
  <2>1. UNCHANGED link /\ (UNCHANGED chan \/ (SendService(Owner(e), e)))
    BY <1>6 DEF HandleServer
  <2>2. CASE UNCHANGED chan
    BY <1>0, <1>a, <2>1, <2>2
  <2>3. CASE SendService(Owner(e), e)
    <3>1. chan' \in [End -> Seq(Lines)] /\ \A x \in End : x # Peer(e) => chan'[x] = chan[x]
      BY <1>d, <2>3, SendServiceOK
    <3>2. Peer(e) \in Made
      BY EndsOK
    <3> QED
      BY <1>0, <1>a, <2>1, <3>1, <3>2 DEF Typed
  <2> QED
    BY <2>1, <2>2, <2>3
<1>7. ASSUME NEW e \in Made, ReadEnd(e) PROVE UNCHANGED <<link, chan>>
  BY <1>7 DEF ReadEnd
<1>8. ASSUME NEW e \in Made, DeleteSocket(e) PROVE ChanOK'
  <2>1. {e} \in SUBSET Made /\ CloseSockets({e}) /\ UNCHANGED link
    BY <1>8 DEF DeleteSocket
  <2> QED
    BY <2>1, <1>g
<1>9. ASSUME UNCHANGED vars PROVE UNCHANGED <<link, chan>>
  BY <1>9 DEF vars
<1>10. ASSUME UNCHANGED <<link, chan>> PROVE ChanOK'
  BY <1>0, <1>a, <1>10
<1> QED
  BY <1>10, <1>1, <1>2, <1>3, <1>4, <1>5, <1>6, <1>7, <1>8, <1>9 DEF Next

LEMMA BindStep ==
  ASSUME Shape, [Next]_vars
  PROVE  BindOK'
<1> USE DEF Shape
<1>0. ASSUME UNCHANGED <<binds, nextId, budget>> PROVE BindOK'
  BY <1>0 DEF BindOK
<1>1. ASSUME NEW b \in App, NEW a \in App, BroadcastReceive(b, a)
      PROVE  UNCHANGED <<binds, nextId, budget>>
  BY <1>1 DEF BroadcastReceive
<1>2. ASSUME NEW a \in App, IvyStart(a) \/ SocketSendBroadcast(a) \/ IvyStop(a) \/ Exit(a)
      PROVE  UNCHANGED <<binds, nextId, budget>>
  BY <1>2 DEF IvyStart, SocketSendBroadcast, IvyStop, Exit
<1>3. ASSUME NEW e \in Made, HandleServer(e) \/ Receive(e) \/ ReadEnd(e) \/ DeleteSocket(e)
      PROVE  UNCHANGED <<binds, nextId, budget>>
  BY <1>3 DEF HandleServer, ReadEnd, DeleteSocket,
              Receive, ReceiveBye, ReceiveError, ReceiveAddRegexp, ReceiveDelRegexp,
              ReceiveStartRegexp, ReceiveEndRegexp, ReceiveMsg, ReceiveDie, ReceiveIgnored
<1>4. ASSUME NEW a \in App, Call(a) PROVE BindOK'
  <2> DEFINE s == binds[a]
  <2>a. s \in Seq(Binding) /\ nextId[a] \in Nat
    BY DEF BindOK
  <2>b. ASSUME NEW t \in Seq(Binding), binds' = [binds EXCEPT ![a] = t]
        PROVE  binds' \in [App -> Seq(Binding)]
    BY <2>b DEF BindOK
  <2>1. ASSUME NEW re \in Re, IvyBindMsg(a, re) PROVE BindOK'
    <3> DEFINE x == [id |-> nextId[a], re |-> re]
    <3>1. /\ binds' = [binds EXCEPT ![a] = <<x>> \o s]
          /\ nextId' = [nextId EXCEPT ![a] = @ + 1] /\ UNCHANGED budget
      BY <2>1 DEF IvyBindMsg, RecvId
    <3>2. x \in Binding
      BY <2>a DEF Binding
    <3> HIDE DEF x, s
    <3>3. <<x>> \o s \in Seq(Binding)
      BY <2>a, <3>2, FrontElems
    <3>4. nextId' \in [App -> Nat]
      BY <2>a, <3>1 DEF BindOK
    <3> QED
      BY <2>b, <3>1, <3>3, <3>4 DEF BindOK
  <2>2. ASSUME NEW n \in DOMAIN binds[a], IvyUnbindMsg(a, n) PROVE BindOK'
    <3> DEFINE K == {j \in DOMAIN s : s[j] # s[n]}
    <3>1. binds' = [binds EXCEPT ![a] = Sublist(s, K)] /\ UNCHANGED <<nextId, budget>>
      BY <2>2 DEF IvyUnbindMsg
    <3>2. K \in SUBSET (1 .. Len(s))
      BY <2>a, LenProperties
    <3> HIDE DEF s, K
    <3>3. Sublist(s, K) \in Seq(Binding)
      BY <2>a, <3>2, SublistOK
    <3> QED
      BY <2>b, <3>1, <3>3 DEF BindOK
  <2>3. ASSUME NEW n \in DOMAIN binds[a], NEW re \in Re, IvyChangeMsg(a, n, re) PROVE BindOK'
    <3> DEFINE t == [s EXCEPT ![n].re = re]
    <3>1. /\ binds' = [binds EXCEPT ![a] = t]
          /\ budget.change > 0 /\ budget' = [budget EXCEPT !.change = @ - 1]
          /\ UNCHANGED nextId
      BY <2>3 DEF IvyChangeMsg
    <3>2. Len(s) \in Nat /\ DOMAIN s = 1 .. Len(s) /\ \A i \in 1 .. Len(s) : s[i] \in Binding
      BY <2>a, LenProperties, ElementOfSeq
    <3>3. t \in [1 .. Len(s) -> Binding]
      <4>1. t = [i \in 1 .. Len(s) |-> IF i = n THEN [s[i] EXCEPT !.re = re] ELSE s[i]]
        <5>1. s = [i \in 1 .. Len(s) |-> s[i]]
          BY <2>a, <3>2
        <5> QED
          BY <5>1, <3>2
      <4>2. \A i \in 1 .. Len(s) : [s[i] EXCEPT !.re = re] \in Binding
        BY <3>2 DEF Binding
      <4> QED
        BY <3>2, <4>1, <4>2
    <3>4. t \in Seq(Binding)
      BY <3>2, <3>3, SeqDef
    <3>5. budget' \in [send : [App -> Nat], change : Nat]
      <4>1. budget \in [send : [App -> Nat], change : Nat] /\ budget.change - 1 \in Nat
        BY <3>1 DEF BindOK
      <4> QED
        BY <3>1, <4>1
    <3> HIDE DEF t, s
    <3> QED
      BY <2>b, <3>1, <3>4, <3>5 DEF BindOK
  <2>4. ASSUME budget.send[a] > 0, budget' = [budget EXCEPT !.send[a] = @ - 1],
               UNCHANGED <<binds, nextId>>
        PROVE  BindOK'
    <3>1. budget \in [send : [App -> Nat], change : Nat]
      BY DEF BindOK
    <3>2. budget.send \in [App -> Nat] /\ budget.send[a] - 1 \in Nat
      BY <2>4, <3>1
    <3>3. [budget.send EXCEPT ![a] = @ - 1] \in [App -> Nat]
      BY <3>2
    <3>4. budget' = [budget EXCEPT !.send = [budget.send EXCEPT ![a] = @ - 1]]
      BY <2>4
    <3>5. budget' \in [send : [App -> Nat], change : Nat]
      BY <3>1, <3>3, <3>4
    <3> QED
      BY <2>4, <3>5 DEF BindOK
  <2>5. ASSUME NEW m \in Message, IvySendMsg(a, m) PROVE BindOK'
    BY <2>4, <2>5 DEF IvySendMsg
  <2>6. ASSUME NEW e \in EndsOf(a), IvySendDieMsg(a, e) PROVE BindOK'
    BY <2>4, <2>6 DEF IvySendDieMsg
  <2> QED
    BY <1>4, <2>1, <2>2, <2>3, <2>5, <2>6 DEF Call
<1>5. ASSUME UNCHANGED vars PROVE UNCHANGED <<binds, nextId, budget>>
  BY <1>5 DEF vars
<1> QED
  BY <1>0, <1>1, <1>2, <1>3, <1>4, <1>5 DEF Next

LEMMA CliStep ==
  ASSUME Shape, [Next]_vars
  PROVE  CliOK'
<1> USE DEF Shape
<1>0. ASSUME UNCHANGED cli PROVE CliOK'
  BY <1>0 DEF CliOK
<1>1. ASSUME NEW b \in App, NEW a \in App, BroadcastReceive(b, a) PROVE CliOK'
  <2>1. CASE UNCHANGED cli
    BY <1>0, <2>1
  <2>2. ASSUME NEW k \in {Len(link) + 1}, k =< MaxConn, SendService(b, <<k, "i">>)
        PROVE  CliOK'
    <3>1. <<k, "i">> \in End
      BY <2>2, NewEnds
    <3> QED
      BY <2>2, <3>1, SendServiceOK
  <2> QED
    BY <1>1, <2>1, <2>2, BroadcastCases
<1>2. ASSUME NEW a \in App,
             IvyStart(a) \/ SocketSendBroadcast(a) \/ IvyStop(a) \/ Exit(a) \/ Call(a)
      PROVE  UNCHANGED cli
  BY <1>2 DEF IvyStart, SocketSendBroadcast, IvyStop, Exit, Call, IvyBindMsg, IvyUnbindMsg,
              IvyChangeMsg, IvySendMsg, IvySendDieMsg
<1>3. ASSUME NEW e \in Made, HandleServer(e) PROVE CliOK'
  <2>1. Owner(e) \in App /\ e \in End
    BY EndsOK
  <2>2. UNCHANGED cli \/ SendService(Owner(e), e)
    BY <1>3 DEF HandleServer
  <2> QED
    BY <1>0, <2>1, <2>2, SendServiceOK
<1>4. ASSUME NEW e \in Made, Receive(e) PROVE CliOK'
  <2>1. CASE ReceiveStartRegexp(e)
    <3> DEFINE named == [cli EXCEPT ![e].port = Head(chan[e]).id]
    <3>1. chan[e] # <<>> /\ (cli' = named \/ \E t : cli' = [named EXCEPT ![t].ignore = TRUE])
      BY <2>1 DEF ReceiveStartRegexp, Handles
    <3>2. Head(chan[e]).id \in Nat
      <4>1. Head(chan[e]) \in Lines
        BY <3>1, RestOK
      <4> QED
        BY <4>1, LineFields
    <3>3. named \in [End -> Client]
      BY <3>2 DEF CliOK, Client
    <3> HIDE DEF named
    <3>4. ASSUME NEW t, cli' = [named EXCEPT ![t].ignore = TRUE] PROVE CliOK'
      BY <3>3, <3>4 DEF CliOK, Client
    <3> QED
      BY <3>1, <3>3, <3>4 DEF CliOK
  <2>2. CASE ReceiveEndRegexp(e)
    <3>1. cli' = [cli EXCEPT ![e].up = TRUE, ![e].ready = cli[e].ready + 1]
      BY <2>2 DEF ReceiveEndRegexp
    <3>2. e \in End
      BY EndsOK
    <3> QED
      BY <3>1, <3>2 DEF CliOK, Client
  <2>3. CASE \/ ReceiveBye(e) \/ ReceiveError(e) \/ ReceiveAddRegexp(e) \/ ReceiveDelRegexp(e)
             \/ ReceiveMsg(e) \/ ReceiveDie(e) \/ ReceiveIgnored(e)
    <3>1. UNCHANGED cli
      BY <2>3 DEF ReceiveBye, ReceiveError, ReceiveAddRegexp, ReceiveDelRegexp, ReceiveMsg,
                  ReceiveDie, ReceiveIgnored
    <3> QED
      BY <1>0, <3>1
  <2> QED
    BY <1>4, <2>1, <2>2, <2>3 DEF Receive
<1>5. ASSUME NEW e \in Made, ReadEnd(e) \/ DeleteSocket(e) PROVE UNCHANGED cli
  BY <1>5 DEF ReadEnd, DeleteSocket
<1>6. ASSUME UNCHANGED vars PROVE UNCHANGED cli
  BY <1>6 DEF vars
<1> QED
  BY <1>0, <1>1, <1>2, <1>3, <1>4, <1>5, <1>6 DEF Next

(* The registry changes by one of four functions, at one application. *)
LEMMA EmptyOK ==
  /\ EmptyRegistry(End) \in Registry(Re, End) /\ Orderly(EmptyRegistry(End))
  /\ \A x : DictSubs(EmptyRegistry(End).dict, x) = {}
  /\ \A x \in End : EmptyRegistry(End).regs[x] = <<>>
<1>1. <<>> \in Seq(Entry(Re, End)) /\ <<>> \in Seq([id : Nat, re : Re]) /\ DOMAIN <<>> = {}
  BY EmptySeq
<1>2. EmptyRegistry(End) \in Registry(Re, End)
  BY <1>1 DEF EmptyRegistry, Registry, Dictionary
<1>3. Orderly(EmptyRegistry(End)) /\ \A x : DictSubs(EmptyRegistry(End).dict, x) = {}
  BY <1>1 DEF EmptyRegistry, Orderly, OneEntry, NoneEmpty, DictSubs
<1> QED
  BY <1>2, <1>3 DEF EmptyRegistry

LEMMA RegStep ==
  ASSUME Shape, [Next]_vars
  PROVE  RegOK'
<1> USE DEF Shape
<1>0. ASSUME UNCHANGED reg PROVE RegOK'
  BY <1>0 DEF RegOK
<1>a. ASSUME NEW a \in App, NEW r, r \in Registry(Re, End), Orderly(r),
             reg' = [reg EXCEPT ![a] = r]
      PROVE  RegOK'
  BY <1>a DEF RegOK
<1>b. \A e \in Made : e \in End /\ Owner(e) \in App
  BY EndsOK
<1>c. \A a \in App : reg[a] \in Registry(Re, End) /\ Orderly(reg[a])
  BY DEF RegOK
<1>1. ASSUME NEW b \in App, NEW a \in App, BroadcastReceive(b, a) PROVE UNCHANGED reg
  BY <1>1 DEF BroadcastReceive
<1>2. ASSUME NEW a \in App,
             IvyStart(a) \/ SocketSendBroadcast(a) \/ IvyStop(a) \/ Exit(a) \/ Call(a)
      PROVE  UNCHANGED reg
  BY <1>2 DEF IvyStart, SocketSendBroadcast, IvyStop, Exit, Call, IvyBindMsg, IvyUnbindMsg,
              IvyChangeMsg, IvySendMsg, IvySendDieMsg
<1>3. ASSUME NEW e \in Made, HandleServer(e) \/ ReadEnd(e) PROVE UNCHANGED reg
  BY <1>3 DEF HandleServer, ReadEnd
<1>4. ASSUME NEW e \in Made, Receive(e) PROVE RegOK'
  <2>1. CASE ReceiveAddRegexp(e)
    <3> DEFINE l == Head(chan[e])
    <3>1. l \in Lines /\ l.type = "AddRegexp"
      BY <2>1, RestOK DEF ReceiveAddRegexp, Handles
    <3>2. l.id \in Nat /\ l.arg \in Re
      BY <3>1, LineFields
    <3>3. \/ UNCHANGED reg
          \/ reg' = [reg EXCEPT ![Owner(e)] = addOrChangeRegexp(reg[Owner(e)], l.arg, e, l.id)]
      BY <2>1 DEF ReceiveAddRegexp
    <3> HIDE DEF l
    <3> DEFINE r == addOrChangeRegexp(reg[Owner(e)], l.arg, e, l.id)
    <3>4. r \in Registry(Re, End) /\ Orderly(r)
      BY <1>b, <1>c, <3>2, AddOrChangeOK
    <3> QED
      BY <1>0, <1>a, <1>b, <3>3, <3>4
  <2>2. CASE ReceiveDelRegexp(e)
    <3> DEFINE l == Head(chan[e])
    <3>1. l \in Lines
      BY <2>2, RestOK DEF ReceiveDelRegexp, Handles
    <3>2. l.id \in Nat
      BY <3>1, LineFields
    <3>3. reg' = [reg EXCEPT ![Owner(e)] = delRegexpForOneClient(reg[Owner(e)], e, l.id)]
      BY <2>2 DEF ReceiveDelRegexp
    <3> HIDE DEF l
    <3> DEFINE r == delRegexpForOneClient(reg[Owner(e)], e, l.id)
    <3>4. r \in Registry(Re, End) /\ Orderly(r)
      BY <1>b, <1>c, <3>2, DelRegexpForOneOK
    <3> QED
      BY <1>a, <1>b, <3>3, <3>4
  <2>3. CASE ReceiveDie(e)
    BY <1>a, <1>b, <2>3, EmptyOK DEF ReceiveDie
  <2>4. CASE \/ ReceiveBye(e) \/ ReceiveError(e) \/ ReceiveStartRegexp(e) \/ ReceiveEndRegexp(e)
             \/ ReceiveMsg(e) \/ ReceiveIgnored(e)
    <3>1. UNCHANGED reg
      BY <2>4 DEF ReceiveBye, ReceiveError, ReceiveStartRegexp, ReceiveEndRegexp, ReceiveMsg,
                  ReceiveIgnored
    <3> QED
      BY <1>0, <3>1
  <2> QED
    BY <1>4, <2>1, <2>2, <2>3, <2>4 DEF Receive
<1>5. ASSUME NEW e \in Made, DeleteSocket(e) PROVE RegOK'
  <2>1. reg' = [reg EXCEPT ![Owner(e)] = delOneClient(reg[Owner(e)], e)]
    BY <1>5 DEF DeleteSocket
  <2>2. /\ delOneClient(reg[Owner(e)], e) \in Registry(Re, End)
        /\ Orderly(delOneClient(reg[Owner(e)], e))
    BY <1>b, <1>c, DelOneClientOK
  <2> QED
    BY <1>a, <1>b, <2>1, <2>2
<1>6. ASSUME UNCHANGED vars PROVE UNCHANGED reg
  BY <1>6 DEF vars
<1> QED
  BY <1>0, <1>1, <1>2, <1>3, <1>4, <1>5, <1>6 DEF Next

LEMMA ShapeInit == Init => Shape
<1> SUFFICES ASSUME Init PROVE Shape
  OBVIOUS
<1>1. LinkOK /\ SockOK /\ ChanOK
  BY EmptySeq, BusAssumption DEF Init, LinkOK, SockOK, ChanOK, Sockets
<1>2. OwnOK
  BY EmptySeq DEF Init, OwnOK
<1>3. BindOK
  BY EmptySeq, BusAssumption DEF Init, BindOK
<1>4. CliOK
  BY DEF Init, CliOK, Client, NewClient
<1>5. RegOK
  BY EmptyOK DEF Init, RegOK
<1> QED
  BY <1>1, <1>2, <1>3, <1>4, <1>5 DEF Shape

LEMMA ShapeStep == Shape /\ [Next]_vars => Shape'
  BY LinkStep, SockStep, ChanStep, OwnStep, BindStep, CliStep, RegStep DEF Shape
-----------------------------------------------------------------------------
(* A client record exists for every connection that is open, and only for   *)
(* those, as long as the application has not left its loop: DeleteSocket    *)
(* closes the socket and frees the record in one step.                      *)

Live == {"off", "bound", "running"}
HeldOwn == \A a \in App : ClientsOf(a) \subseteq EndsOf(a)
HeldAll == \A e \in Made : status[Owner(e)] \in Live /\ sock[e] \in {"open", "marked"}
                             => e \in ClientsOf(Owner(e))
HeldOpen == \A a \in App : status[a] # "exited"
                             => \A e \in ClientsOf(a) : sock[e] \in {"open", "marked"}
Held == HeldOwn /\ HeldAll /\ HeldOpen

LEMMA HeldInit == Init => Held
  BY DEF Init, Held, HeldOwn, HeldAll, HeldOpen, ClientsOf, Made

(* A step that makes no connection and no client record, and at most marks *)
(* channels.                                                               *)
LEMMA HeldQuiet ==
  ASSUME Shape, Held, UNCHANGED <<link, allClients>>,
         \A x \in End : sock'[x] = sock[x] \/ (sock[x] = "open" /\ sock'[x] = "marked"),
         \A a \in App : /\ status'[a] \in Live => status[a] \in Live
                        /\ status'[a] # "exited" => status[a] # "exited"
  PROVE  Held'
<1>1. Made' = Made /\ \A e : Owner(e)' = Owner(e)
  BY SameMade
<1>2. \A a : ClientsOf(a)' = ClientsOf(a) /\ EndsOf(a)' = EndsOf(a)
  BY DEF ClientsOf, EndsOf, Owner
<1>3. \A a \in App : \A e \in ClientsOf(a) : e \in Made /\ Owner(e) = a
  BY EndsOfMade DEF Held, HeldOwn
<1>4. \A e \in Made : e \in End /\ Owner(e) \in App
  BY EndsOK DEF Shape
<1>5. HeldOwn'
  BY <1>2 DEF Held, HeldOwn
<1>6. HeldAll'
  <2> SUFFICES ASSUME NEW e \in Made, status'[Owner(e)] \in Live, sock'[e] \in {"open", "marked"}
               PROVE  e \in ClientsOf(Owner(e))
    BY <1>1, <1>2 DEF HeldAll
  <2>1. e \in End /\ Owner(e) \in App
    BY <1>4
  <2>2. status[Owner(e)] \in Live /\ sock[e] \in {"open", "marked"}
    BY <2>1
  <2> QED
    BY <2>2 DEF Held, HeldAll
<1>7. HeldOpen'
  <2> SUFFICES ASSUME NEW a \in App, status'[a] # "exited", NEW e \in ClientsOf(a)
               PROVE  sock'[e] \in {"open", "marked"}
    BY <1>2 DEF HeldOpen
  <2>1. e \in End /\ status[a] # "exited"
    BY <1>3, <1>4
  <2>2. sock[e] \in {"open", "marked"}
    BY <2>1 DEF Held, HeldOpen
  <2> QED
    BY <2>1, <2>2
<1> QED
  BY <1>5, <1>6, <1>7 DEF Held

(* A step that changes the sockets and the records of the ends S, all of   *)
(* one application, and makes no connection.                               *)
LEMMA HeldLocal ==
  ASSUME Shape, Held, UNCHANGED link, NEW a \in App,
         \A x \in End : x \notin EndsOf(a) => sock'[x] = sock[x],
         \A b \in App : b # a => status'[b] = status[b] /\ ClientsOf(b)' = ClientsOf(b),
         ClientsOf(a)' \subseteq EndsOf(a),
         \A e \in EndsOf(a) : status'[a] \in Live /\ sock'[e] \in {"open", "marked"}
                                => e \in ClientsOf(a)',
         status'[a] # "exited" => \A e \in ClientsOf(a)' : sock'[e] \in {"open", "marked"}
  PROVE  Held'
<1>1. Made' = Made /\ \A e : Owner(e)' = Owner(e)
  BY SameMade
<1>2. \A b : EndsOf(b)' = EndsOf(b)
  BY DEF EndsOf, Owner
<1>3. \A e \in Made : e \in End /\ Owner(e) \in App /\ e \in EndsOf(Owner(e))
  BY EndsOK DEF Shape
<1>4. \A b \in App : \A e : e \in EndsOf(b) => e \in Made /\ Owner(e) = b
  BY EndsOfMade
<1>5. HeldOwn'
  BY <1>2 DEF Held, HeldOwn
<1>6. HeldAll'
  <2> SUFFICES ASSUME NEW e \in Made, status'[Owner(e)] \in Live, sock'[e] \in {"open", "marked"}
               PROVE  e \in ClientsOf(Owner(e))'
    BY <1>1 DEF HeldAll
  <2>1. CASE Owner(e) = a
    BY <1>1, <1>3, <2>1
  <2>2. CASE Owner(e) # a
    <3>1. e \in End /\ Owner(e) \in App /\ e \notin EndsOf(a)
      BY <1>3, <1>4, <2>2
    <3>2. sock[e] \in {"open", "marked"} /\ status[Owner(e)] \in Live
      BY <2>2, <3>1
    <3>3. e \in ClientsOf(Owner(e))
      BY <3>2 DEF Held, HeldAll
    <3> QED
      BY <2>2, <3>1, <3>3, <1>1
  <2> QED
    BY <2>1, <2>2
<1>7. HeldOpen'
  <2> SUFFICES ASSUME NEW b \in App, status'[b] # "exited", NEW e \in ClientsOf(b)'
               PROVE  sock'[e] \in {"open", "marked"}
    BY DEF HeldOpen
  <2>1. CASE b = a
    BY <2>1
  <2>2. CASE b # a
    <3>1. e \in ClientsOf(b) /\ status[b] # "exited"
      BY <2>2
    <3>2. e \in End /\ e \notin EndsOf(a)
      BY <1>3, <1>4, <2>2, <3>1 DEF Held, HeldOwn
    <3> QED
      BY <3>1, <3>2 DEF Held, HeldOpen
  <2> QED
    BY <2>1, <2>2
<1> QED
  BY <1>5, <1>6, <1>7 DEF Held

LEMMA HeldStep ==
  ASSUME Shape, Held, [Next]_vars
  PROVE  Held'
<1> USE DEF Shape
<1>a. \A e \in Made : e \in End /\ Owner(e) \in App /\ e \in EndsOf(Owner(e))
  BY EndsOK
<1>b. \A a, e : e \in EndsOf(a) <=> e \in Made /\ Owner(e) = a
  BY EndsOfMade
<1>c. \A a \in App : \A e : e \in ClientsOf(a) => e \in EndsOf(a)
  BY DEF Held, HeldOwn
<1>d. ASSUME UNCHANGED <<link, allClients, status>>, UNCHANGED sock \/ \E t : sock' = Marked(t)
      PROVE  Held'
  <2>1. \A x \in End : sock'[x] = sock[x] \/ (sock[x] = "open" /\ sock'[x] = "marked")
    BY <1>d DEF Marked, SockOK
  <2> QED
    BY <1>d, <2>1, HeldQuiet
<1>1. ASSUME NEW a \in App, IvyStart(a) \/ SocketSendBroadcast(a) \/ IvyStop(a)
      PROVE  Held'
  <2>1. UNCHANGED <<link, allClients, sock>>
    BY <1>1 DEF IvyStart, SocketSendBroadcast, IvyStop
  <2>2. /\ status[a] \in Live
        /\ \E v \in Live \cup {"stopped"} : status' = [status EXCEPT ![a] = v]
    BY <1>1 DEF IvyStart, SocketSendBroadcast, IvyStop, Live
  <2>3. \A b \in App : /\ status'[b] \in Live => status[b] \in Live
                       /\ status'[b] # "exited" => status[b] # "exited"
    BY <2>2 DEF OwnOK, Live
  <2> QED
    BY <2>1, <2>3, HeldQuiet
<1>2. ASSUME NEW a \in App, Call(a) PROVE Held'
  <2>1. UNCHANGED <<link, allClients, status, sock>>
    BY <1>2 DEF Call, IvyBindMsg, IvyUnbindMsg, IvyChangeMsg, IvySendMsg, IvySendDieMsg
  <2> QED
    BY <1>d, <2>1
<1>3. ASSUME NEW a \in App, Exit(a) PROVE Held'
  <2> DEFINE S == {e \in EndsOf(a) : Open(e)}
  <2>1. /\ S \in SUBSET Made /\ S \subseteq EndsOf(a) /\ CloseSockets(S)
        /\ UNCHANGED <<link, allClients>>
        /\ status' = [status EXCEPT ![a] = "exited"]
    BY <1>3, EndsOfMade DEF Exit
  <2> HIDE DEF S
  <2>2. sock' = [e \in End |-> IF e \in S THEN "closed" ELSE sock[e]]
    BY <2>1, CloseOK
  <2>3. \A x \in End : x \notin EndsOf(a) => sock'[x] = sock[x]
    BY <2>1, <2>2
  <2>4. \A b : ClientsOf(b)' = ClientsOf(b)
    BY <2>1 DEF ClientsOf
  <2>5. status'[a] = "exited" /\ \A b \in App : b # a => status'[b] = status[b]
    BY <2>1 DEF OwnOK
  <2>6. "exited" \notin Live
    BY DEF Live
  <2> QED
    BY <1>c, <2>1, <2>3, <2>4, <2>5, <2>6, HeldLocal
<1>4. ASSUME NEW e \in Made, ReadEnd(e) PROVE Held'
  BY <1>4, <1>d DEF ReadEnd
<1>5. ASSUME NEW e \in Made, Receive(e) PROVE Held'
  <2>1. CASE ReceiveDie(e)
    <3>0. PICK a \in App : a = Owner(e)
      BY <1>a
    <3> DEFINE all == ClientsOf(a)
    <3>1. /\ UNCHANGED link
          /\ sock' = [x \in End |-> IF x \in all /\ sock[x] = "open" THEN "marked" ELSE sock[x]]
          /\ allClients' = [allClients EXCEPT ![a] = <<>>]
          /\ status' = [status EXCEPT ![a] = "stopped"]
      BY <2>1, <3>0 DEF ReceiveDie
    <3>2. a \in App /\ all \subseteq EndsOf(a)
      BY <1>a, <1>c
    <3> HIDE DEF all
    <3>3. \A x \in End : x \notin EndsOf(a) => sock'[x] = sock[x]
      BY <3>1, <3>2
    <3>4. ClientsOf(a)' = {} /\ \A b \in App : b # a => ClientsOf(b)' = ClientsOf(b)
      BY <3>1, <3>2 DEF ClientsOf, OwnOK
    <3>5. status'[a] = "stopped" /\ \A b \in App : b # a => status'[b] = status[b]
      BY <3>1, <3>2 DEF OwnOK
    <3>6. "stopped" \notin Live
      BY DEF Live
    <3> QED
      BY <3>1, <3>2, <3>3, <3>4, <3>5, <3>6, HeldLocal
  <2>2. CASE ~ ReceiveDie(e)
    <3>1. UNCHANGED <<link, allClients, status>> /\ (UNCHANGED sock \/ \E t : sock' = Marked(t))
      BY <1>5, <2>2 DEF Receive, ReceiveBye, ReceiveError, ReceiveAddRegexp, ReceiveDelRegexp,
                ReceiveStartRegexp, ReceiveEndRegexp, ReceiveMsg, ReceiveIgnored
    <3> QED
      BY <1>d, <3>1
  <2> QED
    BY <2>1, <2>2
<1>6. ASSUME NEW e \in Made, DeleteSocket(e) PROVE Held'
  <2>1. PICK a \in App : a = Owner(e) /\ e \in End /\ e \in EndsOf(a)
    BY <1>a
  <2>2. /\ UNCHANGED <<link, status>> /\ CloseSockets({e})
        /\ allClients' = [allClients EXCEPT ![a] = Sublist(@, {n \in DOMAIN @ : @[n] # e})]
    BY <1>6, <2>1 DEF DeleteSocket
  <2>3. sock' = [x \in End |-> IF x \in {e} THEN "closed" ELSE sock[x]]
    BY <2>2, CloseOK
  <2>4. /\ ClientsOf(a)' = ClientsOf(a) \ {e}
        /\ \A b \in App : b # a => ClientsOf(b)' = ClientsOf(b)
    BY <2>1, <2>2, ClientTaken
  <2>5. \A x \in End : x # e => sock'[x] = sock[x]
    BY <2>3
  <2>6. \A x \in EndsOf(a) : x \in End /\ x \in Made /\ Owner(x) = a
    BY <1>a, <1>b
  <2>7. ASSUME NEW x \in EndsOf(a), status'[a] \in Live, sock'[x] \in {"open", "marked"}
        PROVE  x \in ClientsOf(a)'
    <3>1. x # e
      BY <2>1, <2>3, <2>7
    <3>2. sock[x] \in {"open", "marked"} /\ status[a] \in Live
      BY <2>2, <2>5, <2>6, <2>7, <3>1
    <3>3. x \in ClientsOf(a)
      BY <2>6, <3>2 DEF Held, HeldAll
    <3> QED
      BY <2>4, <3>1, <3>3
  <2>8. ASSUME status'[a] # "exited", NEW x \in ClientsOf(a)'
        PROVE  sock'[x] \in {"open", "marked"}
    <3>1. x \in ClientsOf(a) /\ x # e /\ x \in End
      BY <1>c, <2>1, <2>4, <2>6, <2>8
    <3>2. sock[x] \in {"open", "marked"}
      BY <2>1, <2>2, <2>8, <3>1 DEF Held, HeldOpen
    <3> QED
      BY <2>5, <3>1, <3>2
  <2>9. ClientsOf(a)' \subseteq EndsOf(a)
    BY <1>c, <2>1, <2>4
  <2> QED
    BY <2>1, <2>2, <2>4, <2>5, <2>7, <2>8, <2>9, HeldLocal
<1>7. ASSUME NEW e \in Made, HandleServer(e) PROVE Held'
  <2>1. PICK a \in App : a = Owner(e) /\ e \in End /\ e \in EndsOf(a)
    BY <1>a
  <2>2. /\ UNCHANGED <<link, status>> /\ sock[e] = "pending" /\ status[a] = "running"
        /\ \/ sock' = [sock EXCEPT ![e] = "refused"] /\ UNCHANGED allClients
           \/ sock' = [sock EXCEPT ![e] = "open"] /\ SendService(a, e)
    BY <1>7, <2>1 DEF HandleServer
  <2>3. e \notin ClientsOf(a)
    BY <2>1, <2>2 DEF Held, HeldOpen
  <2>4. \A x \in End : x # e => sock'[x] = sock[x]
    BY <2>2 DEF SockOK
  <2>5. \/ sock'[e] = "refused" /\ \A b \in App : ClientsOf(b)' = ClientsOf(b)
        \/ /\ sock'[e] = "open" /\ ClientsOf(a)' = {e} \cup ClientsOf(a)
           /\ \A b \in App : b # a => ClientsOf(b)' = ClientsOf(b)
    <3>1. CASE sock' = [sock EXCEPT ![e] = "refused"] /\ UNCHANGED allClients
      BY <2>1, <3>1 DEF SockOK, ClientsOf
    <3>2. CASE sock' = [sock EXCEPT ![e] = "open"] /\ SendService(a, e)
      <4>1. sock'[e] = "open"
        BY <2>1, <3>2 DEF SockOK
      <4>2. /\ ClientsOf(a)' = {e} \cup ClientsOf(a)
            /\ \A b \in App : b # a => ClientsOf(b)' = ClientsOf(b)
        BY <2>1, <3>2, SendServiceOK
      <4> QED
        BY <4>1, <4>2
    <3> QED
      BY <2>2, <3>1, <3>2
  <2>6. \A x \in EndsOf(a) : x \in End /\ x \in Made /\ Owner(x) = a
    BY <1>a, <1>b
  <2>7. ASSUME NEW x \in EndsOf(a), sock'[x] \in {"open", "marked"}
        PROVE  x \in ClientsOf(a)'
    <3>1. CASE x = e
      BY <2>1, <2>5, <2>7, <3>1
    <3>2. CASE x # e
      <4>1. sock[x] \in {"open", "marked"} /\ status[a] \in Live
        BY <2>2, <2>4, <2>6, <2>7, <3>2 DEF Live
      <4>2. x \in ClientsOf(a)
        BY <2>6, <4>1 DEF Held, HeldAll
      <4> QED
        BY <2>1, <2>5, <4>2
    <3> QED
      BY <3>1, <3>2
  <2>8. ASSUME NEW x \in ClientsOf(a)' PROVE sock'[x] \in {"open", "marked"}
    <3>1. CASE x = e
      BY <2>1, <2>3, <2>5, <2>8, <3>1
    <3>2. CASE x # e
      <4>1. x \in ClientsOf(a) /\ x \in End
        BY <1>c, <2>1, <2>5, <2>6, <2>8, <3>2
      <4>2. sock[x] \in {"open", "marked"}
        BY <2>1, <2>2, <4>1 DEF Held, HeldOpen
      <4> QED
        BY <2>4, <3>2, <4>1, <4>2
    <3> QED
      BY <3>1, <3>2
  <2>9. ClientsOf(a)' \subseteq EndsOf(a)
    BY <1>c, <2>1, <2>5
  <2>10. \A b \in App : b # a => status'[b] = status[b] /\ ClientsOf(b)' = ClientsOf(b)
    BY <2>2, <2>5
  <2> QED
    BY <2>1, <2>2, <2>4, <2>7, <2>8, <2>9, <2>10, HeldLocal
<1>8. ASSUME NEW b \in App, NEW a \in App, BroadcastReceive(b, a) PROVE Held'
  <2>1. CASE UNCHANGED <<link, sock, chan, cli, allClients, announced>>
    BY <1>8, <1>d, <2>1, BroadcastCases
  <2>2. ASSUME NEW port \in SeenPorts, NEW k \in {Len(link) + 1}, k =< MaxConn,
               link' = Append(link, [ini |-> b, acc |-> a, seen |-> port]),
               sock' = [sock EXCEPT ![<<k, "i">>] = "open", ![<<k, "a">>] = "pending"],
               SendService(b, <<k, "i">>), UNCHANGED status
        PROVE  Held'
    <3> DEFINE i == <<k, "i">>
               c == <<k, "a">>
    <3>1. /\ Made' = Made \cup {i, c}
          /\ \A e \in Made : Owner(e)' = Owner(e)
          /\ Owner(i)' = b /\ Owner(c)' = a
      BY <2>2, LinkAdded
    <3>2. i \in End \ Made /\ c \in End \ Made /\ i # c
      BY <2>2, NewEnds
    <3>3. sock'[i] = "open" /\ sock'[c] = "pending" /\ \A x \in Made : sock'[x] = sock[x]
      <4>1. \A x \in End : x # i /\ x # c => sock'[x] = sock[x]
        BY <2>2 DEF SockOK
      <4>2. sock'[i] = "open" /\ sock'[c] = "pending"
        BY <2>2, <3>2 DEF SockOK
      <4> QED
        BY <1>a, <3>2, <4>1, <4>2
    <3>4. /\ ClientsOf(b)' = {i} \cup ClientsOf(b)
          /\ \A d \in App : d # b => ClientsOf(d)' = ClientsOf(d)
      BY <2>2, <3>2, SendServiceOK
    <3> HIDE DEF i, c
    <3>5. \A d \in App : \A e \in ClientsOf(d) : e \in Made /\ Owner(e) = d
      BY <1>b, <1>c
    <3>6. \A d, e : e \in EndsOf(d)' <=> e \in Made' /\ Owner(e)' = d
      BY DEF EndsOf, Made, Owner
    <3>7. HeldOwn'
      BY <3>1, <3>4, <3>5, <3>6 DEF HeldOwn
    <3>8. HeldAll'
      <4> SUFFICES ASSUME NEW e \in Made', status[Owner(e)'] \in Live,
                          sock'[e] \in {"open", "marked"}
                   PROVE  e \in ClientsOf(Owner(e))'
        BY <2>2 DEF HeldAll
      <4>1. CASE e = i
        BY <3>1, <3>4, <4>1
      <4>2. CASE e = c
        BY <3>3, <4>2
      <4>3. CASE e \in Made
        <5>1. e \in ClientsOf(Owner(e)) /\ Owner(e) \in App
          BY <1>a, <3>1, <3>3, <4>3 DEF Held, HeldAll
        <5> QED
          BY <3>1, <3>4, <4>3, <5>1
      <4> QED
        BY <3>1, <4>1, <4>2, <4>3
    <3>9. HeldOpen'
      <4> SUFFICES ASSUME NEW d \in App, status[d] # "exited", NEW e \in ClientsOf(d)'
                   PROVE  sock'[e] \in {"open", "marked"}
        BY <2>2 DEF HeldOpen
      <4>1. CASE e = i
        BY <3>3, <4>1
      <4>2. CASE e # i
        <5>1. e \in ClientsOf(d)
          BY <3>4, <4>2
        <5> QED
          BY <3>3, <3>5, <5>1 DEF Held, HeldOpen
      <4> QED
        BY <4>1, <4>2
    <3> QED
      BY <3>7, <3>8, <3>9 DEF Held
  <2> QED
    BY <1>8, <2>1, <2>2, BroadcastCases
<1>9. ASSUME UNCHANGED vars PROVE Held'
  BY <1>9, <1>d DEF vars
<1> QED
  BY <1>1, <1>2, <1>3, <1>4, <1>5, <1>6, <1>7, <1>8, <1>9 DEF Next

(* The registry of one application, when a peer's line or the end of its   *)
(* connection changes it.                                                  *)
LEMMA SubAdded ==
  ASSUME RegOK, NEW a \in App, NEW e \in End, NEW re \in Re, NEW id \in Nat,
         NEW s, s = addOrChangeRegexp(reg[a], re, e, id)
  PROVE  /\ DictSubs(s.dict, e) = DictSubs(reg[a].dict, e) \cup {[id |-> id, re |-> re]}
         /\ \A x : x # e => DictSubs(s.dict, x) = DictSubs(reg[a].dict, x)
         /\ \A x \in End : x # e => s.regs[x] = reg[a].regs[x]
<1> DEFINE q == reg[a]
<1>1. q \in Registry(Re, End) /\ Orderly(q)
  BY DEF RegOK
<1>2. s = addOrChangeRegexp(q, re, e, id)
  OBVIOUS
<1> HIDE DEF q
<1>3. s \in Registry(Re, End) /\ Orderly(s) /\ Gains(q, s, End, e, [id |-> id, re |-> re])
  BY <1>1, <1>2, AddOrChangeOK
<1> QED
  BY <1>3 DEF Gains, q

LEMMA SubsGone ==
  ASSUME RegOK, NEW a \in App, NEW e \in End
  PROVE  LET r == delOneClient(reg[a], e)
         IN  /\ DictSubs(r.dict, e) = {} /\ r.regs[e] = <<>>
             /\ \A x : x # e => DictSubs(r.dict, x) = DictSubs(reg[a].dict, x)
             /\ \A x \in End : x # e => r.regs[x] = reg[a].regs[x]
<1> DEFINE q == reg[a]
<1>1. q \in Registry(Re, End) /\ Orderly(q)
  BY DEF RegOK
<1> HIDE DEF q
<1> DEFINE r == delOneClient(q, e)
<1>2. /\ r \in Registry(Re, End) /\ Orderly(r)
      /\ DictSubs(r.dict, e) = {} /\ r.regs[e] = <<>>
      /\ \A x : x # e => DictSubs(r.dict, x) = DictSubs(q.dict, x)
      /\ \A x \in End : x # e => r.regs[x] = q.regs[x]
  BY <1>1, DelOneClientOK
<1> QED
  BY <1>2 DEF q

(* The dictionary names clients only: the lines of a peer are handled      *)
(* while its client record exists, and deleting the record clears it.      *)
Tidy == \A a \in App : \A e : DictSubs(reg[a].dict, e) # {} => e \in ClientsOf(a)

LEMMA TidyStep ==
  ASSUME Shape, Held, Tidy, [Next]_vars
  PROVE  Tidy'
<1> USE DEF Shape
<1>a. \A e \in Made : e \in End /\ Owner(e) \in App
  BY EndsOK
<1>b. \A a \in App : reg[a] \in Registry(Re, End) /\ Orderly(reg[a])
  BY DEF RegOK
<1>c. ASSUME UNCHANGED reg, \A a \in App : ClientsOf(a) \subseteq ClientsOf(a)'
      PROVE  Tidy'
  BY <1>c DEF Tidy
<1>d. ASSUME NEW a \in App, NEW r, reg' = [reg EXCEPT ![a] = r],
             \A x : DictSubs(r.dict, x) # {} => x \in ClientsOf(a)',
             \A b \in App : b # a => ClientsOf(b)' = ClientsOf(b)
      PROVE  Tidy'
  <2>1. reg'[a] = r /\ \A b \in App : b # a => reg'[b] = reg[b]
    BY <1>d DEF RegOK
  <2> SUFFICES ASSUME NEW b \in App, NEW e, DictSubs(reg'[b].dict, e) # {}
               PROVE  e \in ClientsOf(b)'
    BY DEF Tidy
  <2>2. CASE b = a
    BY <1>d, <2>1, <2>2
  <2>3. CASE b # a
    BY <1>d, <2>1, <2>3 DEF Tidy
  <2> QED
    BY <2>2, <2>3
<1>e. ASSUME UNCHANGED allClients PROVE \A a : ClientsOf(a)' = ClientsOf(a)
  BY <1>e DEF ClientsOf
<1>f. ASSUME UNCHANGED <<reg, allClients>> PROVE Tidy'
  BY <1>c, <1>e, <1>f
<1>1. ASSUME NEW a \in App, IvyStart(a) \/ SocketSendBroadcast(a) \/ IvyStop(a) \/ Exit(a)
      PROVE  UNCHANGED <<reg, allClients>>
  BY <1>1 DEF IvyStart, SocketSendBroadcast, IvyStop, Exit
<1>2. ASSUME NEW a \in App, Call(a) PROVE UNCHANGED <<reg, allClients>>
  BY <1>2 DEF Call, IvyBindMsg, IvyUnbindMsg, IvyChangeMsg, IvySendMsg, IvySendDieMsg
<1>3. ASSUME NEW e \in Made, ReadEnd(e) PROVE UNCHANGED <<reg, allClients>>
  BY <1>3 DEF ReadEnd
<1>4. ASSUME NEW e \in Made, HandleServer(e) PROVE Tidy'
  <2>1. UNCHANGED reg /\ (UNCHANGED allClients \/ SendService(Owner(e), e))
    BY <1>4 DEF HandleServer
  <2>2. PICK a \in App : a = Owner(e) /\ e \in End
    BY <1>a
  <2>3. CASE SendService(a, e)
    <3>1. /\ ClientsOf(a)' = {e} \cup ClientsOf(a)
          /\ \A b \in App : b # a => ClientsOf(b)' = ClientsOf(b)
      BY <2>2, <2>3, SendServiceOK
    <3> QED
      BY <1>c, <2>1, <3>1
  <2> QED
    BY <1>f, <2>1, <2>2, <2>3
<1>5. ASSUME NEW b \in App, NEW a \in App, BroadcastReceive(b, a) PROVE Tidy'
  <2>1. UNCHANGED reg
    BY <1>5, BroadcastCases
  <2>2. CASE UNCHANGED allClients
    BY <1>f, <2>1, <2>2
  <2>3. ASSUME NEW k \in {Len(link) + 1}, k =< MaxConn, SendService(b, <<k, "i">>) PROVE Tidy'
    <3>1. <<k, "i">> \in End
      BY <2>3, NewEnds
    <3>2. /\ ClientsOf(b)' = {<<k, "i">>} \cup ClientsOf(b)
          /\ \A d \in App : d # b => ClientsOf(d)' = ClientsOf(d)
      BY <2>3, <3>1, SendServiceOK
    <3> QED
      BY <1>c, <2>1, <3>2
  <2> QED
    BY <1>5, <2>2, <2>3, BroadcastCases
<1>6. ASSUME NEW e \in Made, DeleteSocket(e) PROVE Tidy'
  <2>1. PICK a \in App : a = Owner(e) /\ e \in End
    BY <1>a
  <2>2. /\ allClients' = [allClients EXCEPT ![a] = Sublist(@, {n \in DOMAIN @ : @[n] # e})]
        /\ reg' = [reg EXCEPT ![a] = delOneClient(reg[a], e)]
    BY <1>6, <2>1 DEF DeleteSocket
  <2>3. /\ ClientsOf(a)' = ClientsOf(a) \ {e}
        /\ \A b \in App : b # a => ClientsOf(b)' = ClientsOf(b)
    BY <2>1, <2>2, ClientTaken
  <2> DEFINE r == delOneClient(reg[a], e)
  <2>4. /\ DictSubs(r.dict, e) = {}
        /\ \A x : x # e => DictSubs(r.dict, x) = DictSubs(reg[a].dict, x)
    BY <2>1, SubsGone
  <2> HIDE DEF r
  <2>5. \A x : DictSubs(r.dict, x) # {} => x \in ClientsOf(a)'
    BY <2>3, <2>4 DEF Tidy
  <2>6. reg' = [reg EXCEPT ![a] = r]
    BY <2>2 DEF r
  <2> QED
    BY <1>d, <2>3, <2>5, <2>6
<1>7. ASSUME NEW e \in Made, Receive(e) PROVE Tidy'
  <2>1. PICK a \in App : a = Owner(e) /\ e \in End
    BY <1>a
  <2>2. CASE ReceiveAddRegexp(e)
    <3> DEFINE l == Head(chan[e])
    <3>1. l \in Lines /\ l.type = "AddRegexp"
      BY <2>2, RestOK DEF ReceiveAddRegexp, Handles
    <3>2. PICK id \in Nat, re \in Re : id = l.id /\ re = l.arg
      BY <3>1, LineFields
    <3> DEFINE r == addOrChangeRegexp(reg[a], re, e, id)
    <3>3. /\ UNCHANGED allClients
          /\ UNCHANGED reg \/ reg' = [reg EXCEPT ![a] = r]
      BY <2>1, <2>2, <3>2 DEF ReceiveAddRegexp
    <3>4. e \in ClientsOf(a)
      BY <2>1, <2>2 DEF ReceiveAddRegexp, Handles, Held, HeldAll, Live
    <3>5. \A x : x # e => DictSubs(r.dict, x) = DictSubs(reg[a].dict, x)
      BY <2>1, SubAdded
    <3> HIDE DEF r
    <3>6. \A b : ClientsOf(b)' = ClientsOf(b)
      BY <1>e, <3>3
    <3>7. \A x : DictSubs(r.dict, x) # {} => x \in ClientsOf(a)'
      BY <3>4, <3>5, <3>6 DEF Tidy
    <3> QED
      BY <1>d, <1>f, <3>3, <3>6, <3>7
  <2>3. CASE ReceiveDelRegexp(e)
    <3> DEFINE l == Head(chan[e])
               r == delRegexpForOneClient(reg[a], e, l.id)
    <3>1. UNCHANGED allClients /\ reg' = [reg EXCEPT ![a] = r]
      BY <2>1, <2>3 DEF ReceiveDelRegexp
    <3>2. l \in Lines
      BY <2>3, RestOK DEF ReceiveDelRegexp, Handles
    <3>3. l.id \in Nat
      BY <3>2, LineFields
    <3> HIDE DEF l
    <3>4. \A x, b : b \in DictSubs(r.dict, x) => b \in DictSubs(reg[a].dict, x)
      <4>1. DictLess(reg[a], r, e, l.id)
        BY <1>b, <2>1, <3>3, DelRegexpForOneOK
      <4> QED
        BY <4>1 DEF DictLess
    <3> HIDE DEF r
    <3>5. \A b : ClientsOf(b)' = ClientsOf(b)
      BY <1>e, <3>1
    <3>6. \A x : DictSubs(r.dict, x) # {} => x \in ClientsOf(a)'
      BY <3>4, <3>5 DEF Tidy
    <3> QED
      BY <1>d, <3>1, <3>5, <3>6
  <2>4. CASE ReceiveDie(e)
    <3>1. /\ reg' = [reg EXCEPT ![a] = EmptyRegistry(End)]
          /\ allClients' = [allClients EXCEPT ![a] = <<>>]
      BY <2>1, <2>4 DEF ReceiveDie
    <3>2. \A b \in App : b # a => ClientsOf(b)' = ClientsOf(b)
      BY <3>1 DEF ClientsOf, OwnOK
    <3> QED
      BY <1>d, <3>1, <3>2, EmptyOK
  <2>5. CASE \/ ReceiveBye(e) \/ ReceiveError(e) \/ ReceiveStartRegexp(e) \/ ReceiveEndRegexp(e)
             \/ ReceiveMsg(e) \/ ReceiveIgnored(e)
    <3>1. UNCHANGED <<reg, allClients>>
      BY <2>5 DEF ReceiveBye, ReceiveError, ReceiveStartRegexp, ReceiveEndRegexp, ReceiveMsg,
                  ReceiveIgnored
    <3> QED
      BY <1>f, <3>1
  <2> QED
    BY <1>7, <2>2, <2>3, <2>4, <2>5 DEF Receive
<1>8. ASSUME UNCHANGED vars PROVE UNCHANGED <<reg, allClients>>
  BY <1>8 DEF vars
<1> QED
  BY <1>f, <1>1, <1>2, <1>3, <1>4, <1>5, <1>6, <1>7, <1>8 DEF Next

Safe == Shape /\ Held /\ Tidy

LEMMA SafeInit == Init => Safe
<1>1. Init => Tidy
  BY EmptyOK DEF Init, Tidy
<1> QED
  BY <1>1, ShapeInit, HeldInit DEF Safe

LEMMA SafeStep == Safe /\ [Next]_vars => Safe'
  BY ShapeStep, HeldStep, TidyStep DEF Safe

(* RegexpCall never finds a freed client in the dictionary, an entry always *)
(* has clients and a text has one entry, in whatever order lines, closes    *)
(* and deferred deletions come and however many applications there are      *)
(* (ClientDelete, delOneClient, delOneIvyClientFromDictionaryEntry).        *)
THEOREM NeverStale == Spec => []NoStaleClient
<1>1. Safe => NoStaleClient
  <2> SUFFICES ASSUME Safe, NEW a \in App, status[a] # "exited", NEW d, d = reg[a].dict
               PROVE  /\ Clients(d) \subseteq {e \in ClientsOf(a) : sock[e] # "closed"}
                      /\ \A k \in DOMAIN d : d[k].cls # <<>>
                      /\ \A j, k \in DOMAIN d : d[j].re = d[k].re => j = k
    BY DEF NoStaleClient
  <2>1. \A e : e \in Clients(d) => e \in ClientsOf(a)
    BY ClientsHold DEF Safe, Tidy
  <2>2. \A e \in ClientsOf(a) : sock[e] # "closed"
    BY DEF Safe, Held, HeldOpen
  <2>3. NoneEmpty(d) /\ OneEntry(d)
    BY DEF Safe, Shape, RegOK, Orderly
  <2> QED
    BY <2>1, <2>2, <2>3 DEF NoneEmpty, OneEntry
<1> QED
  BY <1>1, SafeInit, SafeStep, PTL DEF Spec
-----------------------------------------------------------------------------
(* The lines of a channel. *)

HasEnd(s) == \E l \in Elems(s) : l.type = "EndRegexp"

(* Every message has an EndRegexp before it. *)
Guarded(s) ==
  \A i \in DOMAIN s : s[i].type = "Msg" => \E j \in 1 .. i - 1 : s[j].type = "EndRegexp"

LEMMA NothingAdded ==
  ASSUME NEW L, NEW s \in Seq(L)
  PROVE  s \o <<>> = s /\ <<>> \in Seq(L) /\ Elems(<<>>) = {}
<1>1. <<>> \in Seq(L) /\ Elems(<<>>) = {} /\ Len(<<>>) = 0
  BY EmptySeq DEF Elems
<1>2. s \o <<>> = s
  BY ConcatEmptySeq
<1> QED
  BY <1>1, <1>2

LEMMA TailElems ==
  ASSUME NEW L, NEW s \in Seq(L), s # <<>>
  PROVE  /\ Tail(s) \in Seq(L) /\ Len(Tail(s)) = Len(s) - 1 /\ Len(s) \in Nat \ {0}
         /\ \A i \in 1 .. Len(s) - 1 : Tail(s)[i] = s[i + 1]
         /\ Head(s) = s[1] /\ Head(s) \in L
         /\ Elems(s) = {Head(s)} \cup Elems(Tail(s))
<1>1. Len(s) \in Nat /\ Len(s) # 0 /\ DOMAIN s = 1 .. Len(s)
  BY LenProperties, EmptySeq
<1>2. /\ Tail(s) \in Seq(L) /\ Len(Tail(s)) = Len(s) - 1
      /\ \A i \in 1 .. Len(s) - 1 : Tail(s)[i] = s[i + 1]
      /\ Head(s) = s[1] /\ Head(s) \in L
  BY <1>1, HeadTailProperties, ElementOfSeq
<1>3. DOMAIN Tail(s) = 1 .. Len(s) - 1
  BY <1>2, LenProperties
<1>4. \A i \in 1 .. Len(s) : i = 1 \/ (i - 1 \in 1 .. Len(s) - 1 /\ i = (i - 1) + 1)
  BY <1>1
<1>5. Elems(s) \subseteq {Head(s)} \cup Elems(Tail(s))
  <2> SUFFICES ASSUME NEW i \in 1 .. Len(s) PROVE s[i] \in {Head(s)} \cup Elems(Tail(s))
    BY <1>1 DEF Elems
  <2>1. CASE i = 1
    BY <1>2, <2>1
  <2>2. CASE i - 1 \in 1 .. Len(s) - 1
    <3>1. Tail(s)[i - 1] = s[i]
      BY <1>2, <1>4, <2>2
    <3> QED
      BY <1>3, <2>2, <3>1 DEF Elems
  <2> QED
    BY <1>4, <2>1, <2>2
<1>6. {Head(s)} \cup Elems(Tail(s)) \subseteq Elems(s)
  <2>1. \A i \in 1 .. Len(s) - 1 : i + 1 \in DOMAIN s
    BY <1>1
  <2>2. 1 \in DOMAIN s
    BY <1>1
  <2> QED
    BY <1>2, <1>3, <2>1, <2>2 DEF Elems
<1> QED
  BY <1>1, <1>2, <1>5, <1>6

LEMMA PrefixElems ==
  ASSUME NEW L, NEW s \in Seq(L), NEW n \in 0 .. Len(s)
  PROVE  SubSeq(s, 1, n) \in Seq(L) /\ Elems(SubSeq(s, 1, n)) \subseteq Elems(s)
<1> DEFINE u == SubSeq(s, 1, n)
<1>1. u \in Seq(L) /\ Len(u) = n /\ \A i \in 1 .. n : u[i] = s[i]
  BY Halves
<1> HIDE DEF u
<1>2. DOMAIN u = 1 .. n /\ DOMAIN s = 1 .. Len(s) /\ Len(s) \in Nat
  BY <1>1, LenProperties
<1>3. Elems(u) \subseteq Elems(s)
  BY <1>1, <1>2 DEF Elems
<1> QED
  BY <1>1, <1>3 DEF u

LEMMA GuardedAppend ==
  ASSUME NEW s \in Seq(Lines), NEW t \in Seq(Lines), Guarded(s),
         HasEnd(s) \/ \A l \in Elems(t) : l.type # "Msg"
  PROVE  Guarded(s \o t)
<1> DEFINE u == s \o t
<1>1. /\ u \in Seq(Lines) /\ Len(u) = Len(s) + Len(t)
      /\ \A i \in 1 .. Len(s) : u[i] = s[i]
      /\ \A i \in 1 .. Len(t) : u[Len(s) + i] = t[i]
  BY ConcatElems
<1> HIDE DEF u
<1>2. /\ Len(s) \in Nat /\ Len(t) \in Nat /\ DOMAIN u = 1 .. Len(s) + Len(t)
      /\ DOMAIN s = 1 .. Len(s) /\ DOMAIN t = 1 .. Len(t)
  BY <1>1, LenProperties
<1> SUFFICES ASSUME NEW i \in 1 .. Len(s) + Len(t), u[i].type = "Msg"
             PROVE  \E j \in 1 .. i - 1 : u[j].type = "EndRegexp"
  BY <1>2 DEF Guarded, u
<1>3. CASE i \in 1 .. Len(s)
  <2>1. PICK j \in 1 .. i - 1 : s[j].type = "EndRegexp"
    BY <1>1, <1>2, <1>3 DEF Guarded
  <2>2. j \in 1 .. Len(s)
    BY <1>2, <1>3
  <2> QED
    BY <1>1, <2>1, <2>2
<1>4. CASE i \notin 1 .. Len(s)
  <2>1. i - Len(s) \in 1 .. Len(t) /\ i = Len(s) + (i - Len(s))
    BY <1>2, <1>4
  <2>2. u[i] \in Elems(t)
    BY <1>1, <1>2, <2>1, ZenonT(40) DEF Elems
  <2>3. HasEnd(s)
    BY <2>2
  <2>4. PICK j \in 1 .. Len(s) : s[j].type = "EndRegexp"
    BY <1>2, <2>3 DEF HasEnd, Elems
  <2>5. j \in 1 .. i - 1
    BY <1>2, <1>4
  <2> QED
    BY <1>1, <2>4, <2>5
<1> QED
  BY <1>3, <1>4

LEMMA GuardedTail ==
  ASSUME NEW s \in Seq(Lines), s # <<>>, Guarded(s), Head(s).type # "EndRegexp"
  PROVE  Guarded(Tail(s))
<1> DEFINE u == Tail(s)
<1>1. /\ u \in Seq(Lines) /\ Len(u) = Len(s) - 1 /\ Len(s) \in Nat \ {0}
      /\ \A i \in 1 .. Len(s) - 1 : u[i] = s[i + 1]
      /\ Head(s) = s[1]
  BY TailElems
<1> HIDE DEF u
<1>2. DOMAIN u = 1 .. Len(s) - 1 /\ DOMAIN s = 1 .. Len(s)
  BY <1>1, LenProperties
<1> SUFFICES ASSUME NEW i \in 1 .. Len(s) - 1, u[i].type = "Msg"
             PROVE  \E j \in 1 .. i - 1 : u[j].type = "EndRegexp"
  BY <1>2 DEF Guarded, u
<1>3. i + 1 \in DOMAIN s /\ s[i + 1].type = "Msg"
  BY <1>1, <1>2
<1>4. PICK j \in 1 .. (i + 1) - 1 : s[j].type = "EndRegexp"
  BY <1>3 DEF Guarded
<1>5. j # 1
  BY <1>1, <1>4
<1>6. j - 1 \in 1 .. i - 1 /\ j - 1 \in 1 .. Len(s) - 1 /\ j = (j - 1) + 1
  BY <1>1, <1>4, <1>5
<1>7. u[j - 1].type = "EndRegexp"
  BY <1>1, <1>4, <1>6
<1> QED
  BY <1>6, <1>7

LEMMA GuardedPrefix ==
  ASSUME NEW s \in Seq(Lines), Guarded(s), NEW n \in 0 .. Len(s)
  PROVE  Guarded(SubSeq(s, 1, n))
<1> DEFINE u == SubSeq(s, 1, n)
<1>1. u \in Seq(Lines) /\ Len(u) = n /\ \A i \in 1 .. n : u[i] = s[i]
  BY Halves
<1> HIDE DEF u
<1>2. DOMAIN u = 1 .. n /\ DOMAIN s = 1 .. Len(s) /\ Len(s) \in Nat
  BY <1>1, LenProperties
<1>3. \A i \in 1 .. n : i \in DOMAIN s /\ \A j \in 1 .. i - 1 : j \in 1 .. n
  BY <1>2
<1> QED
  BY <1>1, <1>2, <1>3 DEF Guarded, u
-----------------------------------------------------------------------------
(* How a step changes the channel to an end: lines are sent to it, its      *)
(* first line is handled, or it loses a tail when a socket is closed.       *)

(* The end has not heard the EndRegexp of its peer. *)
Waiting(x) == sock[x] = "pending" \/ (~ cli[x].up /\ ~ cli[x].ignore)

(* The peer of end x sends what it binds to x. *)
Fed(x) == Peer(x) \in ClientsOf(Owner(Peer(x))) /\ status[Owner(Peer(x))] # "exited"

(* Where a line sent to end x comes from: an AddRegexp is a binding of the  *)
(* peer, a Msg answers a subscription that x made.                          *)
Origin(x, l) ==
  \/ l.type \notin {"AddRegexp", "Msg"}
  \/ /\ l.type = "AddRegexp"
     /\ \E b \in ListSubs(binds'[Owner(Peer(x))]) : b.id = l.id /\ b.re = l.arg
  \/ /\ l.type = "Msg" /\ Open(x) /\ status[Owner(Peer(x))] = "running"
     /\ \E b \in DictSubs(reg[Owner(Peer(x))].dict, Peer(x)) :
          b.id = l.id /\ l.arg \in Match[b.re]

Grows(x) == \E t \in Seq(Lines) : chan'[x] = chan[x] \o t /\ \A l \in Elems(t) : Origin(x, l)
Reads(x) ==
  /\ chan[x] # <<>>
  /\ Head(chan[x]).type = "EndRegexp" => ~ Waiting(x)'
  /\ \E t \in Seq(Lines) : /\ chan'[x] = Tail(chan[x]) \o t
                           /\ \A l \in Elems(t) : Origin(x, l) /\ l.type # "Msg"
Cut(x) ==
  /\ \E n \in 0 .. Len(chan[x]) : chan'[x] = SubSeq(chan[x], 1, n)
  /\ Open(x)' => ~ Fed(x)'

(* One line sent on every end of S. *)
SendLine(ch, S, l) == SendOn(ch, S, [y \in S |-> <<l>>])
GetsLine(ch, S, l, x) ==
  \E t \in Seq(Lines) : /\ SendLine(ch, S, l)[x] = ch[x] \o t
                        /\ \A m \in Elems(t) : m = l /\ Peer(x) \in S

(* The lines of a message, sent on the ends S of application a. *)
SendHits(ch, S, a, m) == SendOn(ch, S, [y \in S |-> Hits(reg[a].dict, m, y)])
GetsHits(ch, S, a, m, x) ==
  \E t \in Seq(Lines) : /\ SendHits(ch, S, a, m)[x] = ch[x] \o t
                        /\ t = <<>> \/ Peer(x) \in S
                        /\ \A l \in Elems(t) : Origin(x, l) /\ l.type = "Msg"

LEMMA SentLine ==
  ASSUME NEW ch \in [End -> Seq(Lines)], NEW S, NEW l \in Lines, NEW x \in End
  PROVE  GetsLine(ch, S, l, x)
<1> DEFINE lines == [y \in S |-> <<l>>]
           one == <<l>>
<1>1. one \in Seq(Lines) /\ Elems(one) = {l}
  BY SingleElems
<1>2. \A y \in S : lines[y] = one
  OBVIOUS
<1> HIDE DEF lines, one
<1>3. SendOn(ch, S, lines)[x] = IF Peer(x) \in S /\ Open(x) THEN ch[x] \o lines[Peer(x)] ELSE ch[x]
  BY DEF SendOn
<1>4. ch[x] \o <<>> = ch[x] /\ <<>> \in Seq(Lines) /\ Elems(<<>>) = {}
  <2>1. ch[x] \in Seq(Lines)
    OBVIOUS
  <2> QED
    BY <2>1, NothingAdded
<1>5. \E t \in Seq(Lines) : /\ SendOn(ch, S, lines)[x] = ch[x] \o t
                            /\ \A m \in Elems(t) : m = l /\ Peer(x) \in S
  <2>1. CASE Peer(x) \in S /\ Open(x)
    <3>1. SendOn(ch, S, lines)[x] = ch[x] \o one /\ \A m \in Elems(one) : m = l /\ Peer(x) \in S
      BY <1>1, <1>2, <1>3, <2>1
    <3> QED
      BY <1>1, <3>1
  <2>2. CASE ~ (Peer(x) \in S /\ Open(x))
    <3>1. SendOn(ch, S, lines)[x] = ch[x] \o <<>>
      BY <1>3, <1>4, <2>2
    <3> QED
      BY <1>4, <3>1
  <2> QED
    BY <2>1, <2>2
<1> QED
  BY <1>5 DEF lines, one, SendLine, GetsLine

LEMMA SentHits ==
  ASSUME Shape, NEW ch \in [End -> Seq(Lines)], NEW a \in App, NEW m \in Message,
         NEW S, S \subseteq EndsOf(a), status[a] = "running", NEW x \in Made
  PROVE  GetsHits(ch, S, a, m, x)
<1> DEFINE lines == [y \in S |-> Hits(reg[a].dict, m, y)]
           h == Hits(reg[a].dict, m, Peer(x))
           d == reg[a].dict
<1>1. Peer(x) \in S => lines[Peer(x)] = h
  OBVIOUS
<1>2. d \in Dictionary(Re, End)
  BY DEF Shape, RegOK, Registry
<1>3. /\ h \in Seq(Lines)
      /\ \A l \in Elems(h) : /\ l.type = "Msg" /\ l.arg = m
                             /\ \E b \in DictSubs(d, Peer(x)) : b.id = l.id /\ m \in Match[b.re]
  <2> HIDE DEF d
  <2>1. /\ Hits(d, m, Peer(x)) \in Seq(Lines)
        /\ \A l \in Elems(Hits(d, m, Peer(x))) :
             /\ l.type = "Msg" /\ l.arg = m
             /\ \E b \in DictSubs(d, Peer(x)) : b.id = l.id /\ m \in Match[b.re]
    BY <1>2, HitsOK
  <2> QED
    BY <2>1 DEF d
<1>4. x \in End
  BY EndsOK DEF Shape
<1> HIDE DEF lines, h
<1>5. SendOn(ch, S, lines)[x] = IF Peer(x) \in S /\ Open(x) THEN ch[x] \o lines[Peer(x)] ELSE ch[x]
  BY <1>4 DEF SendOn
<1>6. ch[x] \o <<>> = ch[x] /\ <<>> \in Seq(Lines) /\ Elems(<<>>) = {}
  <2>1. ch[x] \in Seq(Lines)
    BY <1>4
  <2> QED
    BY <2>1, NothingAdded
<1>7. \E t \in Seq(Lines) : /\ SendOn(ch, S, lines)[x] = ch[x] \o t
                            /\ t = <<>> \/ Peer(x) \in S
                            /\ \A l \in Elems(t) : Origin(x, l) /\ l.type = "Msg"
  <2>1. CASE Peer(x) \in S /\ Open(x)
    <3>1. SendOn(ch, S, lines)[x] = ch[x] \o h
      BY <1>1, <1>5, <2>1
    <3>2. Owner(Peer(x)) = a
      BY <2>1, EndsOfMade
    <3>3. \A l \in Elems(h) : Origin(x, l) /\ l.type = "Msg"
      BY <1>3, <2>1, <3>2 DEF Origin
    <3> QED
      BY <1>3, <2>1, <3>1, <3>3
  <2>2. CASE ~ (Peer(x) \in S /\ Open(x))
    <3>1. SendOn(ch, S, lines)[x] = ch[x] \o <<>>
      BY <1>5, <1>6, <2>2
    <3> QED
      BY <1>6, <3>1
  <2> QED
    BY <2>1, <2>2
<1> QED
  BY <1>7 DEF lines, SendHits, GetsHits

LEMMA ChanMoves ==
  ASSUME Shape, Held, [Next]_vars, NEW x \in Made
  PROVE  Grows(x) \/ Reads(x) \/ Cut(x)
<1> USE DEF Shape
<1> DEFINE Goal == Grows(x) \/ Reads(x) \/ Cut(x)
<1>a. /\ x \in End /\ Peer(x) \in Made /\ Peer(Peer(x)) = x /\ Peer(x) # x /\ Peer(x) \in End
      /\ Owner(x) \in App /\ Owner(Peer(x)) \in App
  BY EndsOK
<1>b. chan[x] \in Seq(Lines) /\ chan \in [End -> Seq(Lines)]
  BY <1>a DEF ChanOK
<1>c. ASSUME chan'[x] = chan[x] PROVE Goal
  <2>1. chan[x] \o <<>> = chan[x] /\ <<>> \in Seq(Lines) /\ Elems(<<>>) = {}
    BY <1>b, NothingAdded
  <2>2. Grows(x)
    BY <1>c, <2>1 DEF Grows
  <2> QED
    BY <2>2
<1>d. ASSUME NEW S, NEW l \in Lines, Peer(x) \in S => Origin(x, l),
             chan' = SendLine(chan, S, l)
      PROVE  Goal
  <2>1. PICK t \in Seq(Lines) : /\ SendLine(chan, S, l)[x] = chan[x] \o t
                                /\ \A m \in Elems(t) : m = l /\ Peer(x) \in S
    <3>1. GetsLine(chan, S, l, x)
      BY <1>a, <1>b, SentLine
    <3> QED
      BY <3>1 DEF GetsLine
  <2>2. Grows(x)
    BY <1>d, <2>1 DEF Grows
  <2> QED
    BY <2>2
<1>e. ASSUME NEW e \in Made, chan[e] # <<>>, Head(chan[e]).type = "EndRegexp" => ~ Waiting(e)',
             NEW t \in Seq(Lines), chan'[x] = Rest(e)[x] \o t,
             \A l \in Elems(t) : Origin(x, l) /\ l.type # "Msg"
      PROVE  Goal
  <2>1. Rest(e)[e] = Tail(chan[e]) /\ \A y \in End : y # e => Rest(e)[y] = chan[y]
    BY <1>e, RestOK
  <2>2. CASE x = e
    <3>1. chan'[x] = Tail(chan[x]) \o t
      BY <1>e, <2>1, <2>2
    <3>2. Reads(x)
      BY <1>e, <2>2, <3>1 DEF Reads
    <3> QED
      BY <3>2
  <2>3. CASE x # e
    <3>1. chan'[x] = chan[x] \o t
      BY <1>a, <1>e, <2>1, <2>3
    <3>2. Grows(x)
      BY <1>e, <3>1 DEF Grows
    <3> QED
      BY <3>2
  <2> QED
    BY <2>2, <2>3
<1>f. ASSUME NEW e \in Made, chan[e] # <<>>, Head(chan[e]).type = "EndRegexp" => ~ Waiting(e)',
             chan' = Rest(e)
      PROVE  Goal
  <2>1. Rest(e)[x] \in Seq(Lines)
    BY <1>a, <1>f, RestOK
  <2>2. Rest(e)[x] \o <<>> = Rest(e)[x] /\ <<>> \in Seq(Lines) /\ Elems(<<>>) = {}
    BY <2>1, NothingAdded
  <2> HIDE DEF Goal
  <2> QED
    BY <1>e, <1>f, <2>2
<1>g. ASSUME NEW e \in Made, chan[e] # <<>>, Head(chan[e]).type = "EndRegexp" => ~ Waiting(e)',
             NEW S, NEW l \in Lines, l.type \notin {"AddRegexp", "Msg"},
             chan' = SendLine(Rest(e), S, l)
      PROVE  Goal
  <2>1. Rest(e) \in [End -> Seq(Lines)]
    BY <1>g, RestOK
  <2>2. PICK t \in Seq(Lines) : /\ SendLine(Rest(e), S, l)[x] = Rest(e)[x] \o t
                                /\ \A m \in Elems(t) : m = l /\ Peer(x) \in S
    <3>1. GetsLine(Rest(e), S, l, x)
      BY <1>a, <2>1, SentLine
    <3> QED
      BY <3>1 DEF GetsLine
  <2>3. \A m \in Elems(t) : Origin(x, m) /\ m.type # "Msg"
    BY <1>g, <2>2 DEF Origin
  <2>4. chan'[x] = Rest(e)[x] \o t
    BY <1>g, <2>2
  <2> HIDE DEF Goal
  <2> QED
    BY <1>e, <1>g, <2>3, <2>4
<1>h. ASSUME NEW S \in SUBSET Made, CloseSockets(S),
             x \notin S /\ Peer(x) \in S /\ Open(x)' => ~ Fed(x)'
      PROVE  Goal
  <2>1. /\ sock' = [e \in End |-> IF e \in S THEN "closed" ELSE sock[e]]
        /\ \A y \in S : chan'[y] = <<>>
        /\ \A y \in End \ S : Peer(y) \notin S => chan'[y] = chan[y]
        /\ \A y \in End \ S : \E n \in 0 .. Len(chan[y]) : chan'[y] = SubSeq(chan[y], 1, n)
    BY <1>h, CloseOK
  <2>2. CASE x \in S
    <3>1. Len(chan[x]) \in Nat /\ 0 \in 0 .. Len(chan[x])
      BY <1>b, LenProperties
    <3>2. SubSeq(chan[x], 1, 0) = <<>>
      <4>1. SubSeq(chan[x], 1, 0) \in Seq(Lines) /\ Len(SubSeq(chan[x], 1, 0)) = 0
        BY <1>b, <3>1, Halves
      <4> QED
        BY <4>1, EmptySeq
    <3>3. sock'[x] = "closed"
      BY <1>a, <2>1, <2>2
    <3>4. Cut(x)
      BY <2>1, <2>2, <3>1, <3>2, <3>3 DEF Cut, Open
    <3> QED
      BY <3>4
  <2>3. CASE x \notin S /\ Peer(x) \notin S
    <3>1. chan'[x] = chan[x]
      BY <1>a, <2>1, <2>3
    <3> QED
      BY <1>c, <3>1
  <2>4. CASE x \notin S /\ Peer(x) \in S
    <3>1. Cut(x)
      BY <1>a, <1>h, <2>1, <2>4 DEF Cut
    <3> QED
      BY <3>1
  <2> QED
    BY <2>2, <2>3, <2>4
<1> HIDE DEF Goal
<1>1. ASSUME NEW a \in App, IvyStart(a) \/ SocketSendBroadcast(a) \/ IvyStop(a)
      PROVE  UNCHANGED chan
  BY <1>1 DEF IvyStart, SocketSendBroadcast, IvyStop
<1>2. ASSUME NEW a \in App, Exit(a) PROVE Goal
  <2> DEFINE S == {e \in EndsOf(a) : Open(e)}
  <2>1. /\ S \in SUBSET Made /\ CloseSockets(S) /\ UNCHANGED link
        /\ status' = [status EXCEPT ![a] = "exited"]
    BY <1>2, EndsOfMade DEF Exit
  <2>2. Peer(x) \in S => Owner(Peer(x)) = a
    BY EndsOfMade
  <2>3. status'[a] = "exited"
    BY <2>1 DEF OwnOK
  <2>4. Peer(x) \in S => ~ Fed(x)'
    BY <2>1, <2>2, <2>3, SameMade DEF Fed
  <2> HIDE DEF S
  <2> QED
    BY <1>h, <2>1, <2>4
<1>3. ASSUME NEW e \in Made, DeleteSocket(e) PROVE Goal
  <2>1. PICK a \in App : a = Owner(e)
    BY EndsOK
  <2>2. /\ {e} \in SUBSET Made /\ CloseSockets({e}) /\ UNCHANGED link
        /\ allClients' = [allClients EXCEPT ![a] = Sublist(@, {n \in DOMAIN @ : @[n] # e})]
    BY <1>3, <2>1 DEF DeleteSocket
  <2>3. ClientsOf(a)' = ClientsOf(a) \ {e}
    BY <2>2, ClientTaken
  <2>4. Owner(e)' = a
    BY <2>1, <2>2, SameMade
  <2>5. Peer(x) \in {e} => ~ Fed(x)'
    BY <2>3, <2>4 DEF Fed
  <2> QED
    BY <1>h, <2>2, <2>5
<1>4. ASSUME NEW b \in App, NEW a \in App, BroadcastReceive(b, a) PROVE Goal
  <2>1. CASE UNCHANGED chan
    BY <1>c, <2>1
  <2>2. ASSUME NEW k \in {Len(link) + 1}, k =< MaxConn, SendService(b, <<k, "i">>)
        PROVE  Goal
    <3> DEFINE i == <<k, "i">>
    <3>1. i \in End /\ Peer(i) \notin Made
      BY <2>2, NewEnds
    <3>2. \A y \in End : y # Peer(i) => chan'[y] = chan[y]
      BY <2>2, <3>1, SendServiceOK
    <3> QED
      BY <1>a, <1>c, <3>1, <3>2
  <2> QED
    BY <1>4, <2>1, <2>2, BroadcastCases
<1>5. ASSUME NEW e \in Made, HandleServer(e) PROVE Goal
  <2>1. PICK a \in App : a = Owner(e) /\ e \in End
    BY EndsOK
  <2>2. UNCHANGED binds /\ (UNCHANGED chan \/ SendService(a, e))
    BY <1>5, <2>1 DEF HandleServer
  <2>3. CASE UNCHANGED chan
    BY <1>c, <2>3
  <2>4. CASE SendService(a, e)
    <3>1. /\ \A y \in End : y # Peer(e) => chan'[y] = chan[y]
          /\ chan'[Peer(e)] = IF sock'[Peer(e)] = "closed" THEN chan[Peer(e)]
                                                         ELSE chan[Peer(e)] \o Service(a)
      BY <2>1, <2>4, SendServiceOK
    <3>2. CASE chan'[x] = chan[x]
      BY <1>c, <3>2
    <3>3. CASE x = Peer(e) /\ chan'[x] = chan[x] \o Service(a)
      <4>1. Peer(x) = e
        BY <2>1, <3>3, PeerOK
      <4>2. /\ Service(a) \in Seq(Lines)
            /\ Elems(Service(a)) = Elems(Announcements(a))
                 \cup {Line("StartRegexp", Port[a], a), Line("EndRegexp", 0, a)}
        BY ServiceOK
      <4>3. ASSUME NEW l \in Elems(Announcements(a)) PROVE Origin(x, l)
        <5>1. PICK n \in DOMAIN Announcements(a) : l = Announcements(a)[n]
          BY DEF Elems
        <5>2. n \in DOMAIN binds[a] /\ l = Line("AddRegexp", binds[a][n].id, binds[a][n].re)
          BY <5>1, AnnouncementsOK
        <5>3. l.type = "AddRegexp" /\ l.id = binds[a][n].id /\ l.arg = binds[a][n].re
          BY <5>2, LinesOK
        <5>4. binds[a][n] \in ListSubs(binds'[Owner(Peer(x))])
          BY <2>1, <2>2, <4>1, <5>2 DEF ListSubs
        <5> QED
          BY <5>3, <5>4 DEF Origin
      <4>4. \A l \in Elems(Service(a)) : Origin(x, l)
        BY <4>2, <4>3, LinesOK DEF Origin
      <4>5. Grows(x)
        BY <3>3, <4>2, <4>4 DEF Grows
      <4> QED
        BY <4>5 DEF Goal
    <3> QED
      BY <1>a, <3>1, <3>2, <3>3
  <2> QED
    BY <2>2, <2>3, <2>4
<1>6. ASSUME NEW a \in App, Call(a) PROVE Goal
  <2>a. ASSUME NEW l \in Lines, chan' = ToAll(a, l),
               Peer(x) \in ClientsOf(a) => Origin(x, l)
        PROVE  Goal
    <3>1. chan' = SendLine(chan, ClientsOf(a), l)
      BY <2>a DEF ToAll, SendLine
    <3> QED
      BY <1>d, <2>a, <3>1
  <2>b. Peer(x) \in ClientsOf(a) => Owner(Peer(x)) = a
    BY EndsOfMade DEF Held, HeldOwn
  <2>c. \A n \in DOMAIN binds[a] : binds[a][n] \in Binding /\ binds[a][n].id \in Nat
    <3>1. \A n \in DOMAIN binds[a] : binds[a][n] \in Binding
      BY ElementOfSeq, LenProperties DEF BindOK
    <3> QED
      BY <3>1 DEF Binding
  <2>d. nextId[a] \in Nat /\ binds[a] \in Seq(Binding)
    BY DEF BindOK
  <2>1. ASSUME NEW re \in Re, IvyBindMsg(a, re) PROVE Goal
    <3> DEFINE l == Line("AddRegexp", nextId[a], re)
               b == [id |-> nextId[a], re |-> re]
    <3>1. l \in Lines /\ l.type = "AddRegexp" /\ l.id = b.id /\ l.arg = b.re
      BY <2>d, LinesOK
    <3>2. chan' = ToAll(a, l) /\ binds' = [binds EXCEPT ![a] = <<b>> \o @]
      BY <2>1 DEF IvyBindMsg, RecvId
    <3>3. b \in Binding
      BY <2>d DEF Binding
    <3> HIDE DEF l, b
    <3>4. Elems(<<b>> \o binds[a]) = {b} \cup Elems(binds[a])
      BY <2>d, <3>3, FrontElems
    <3>5. binds'[a] = <<b>> \o binds[a]
      BY <3>2 DEF BindOK
    <3>6. b \in ListSubs(binds'[a])
      BY <3>4, <3>5 DEF ListSubs, Elems
    <3>7. Peer(x) \in ClientsOf(a) => Origin(x, l)
      BY <2>b, <3>1, <3>6 DEF Origin
    <3> QED
      BY <2>a, <3>1, <3>2, <3>7
  <2>2. ASSUME NEW n \in DOMAIN binds[a], IvyUnbindMsg(a, n) PROVE Goal
    <3> DEFINE l == Line("DelRegexp", binds[a][n].id, a)
    <3>1. l \in Lines /\ l.type = "DelRegexp"
      BY <2>c, LinesOK
    <3>2. chan' = ToAll(a, l)
      BY <2>2 DEF IvyUnbindMsg
    <3> HIDE DEF l
    <3> QED
      BY <2>a, <3>1, <3>2 DEF Origin
  <2>3. ASSUME NEW n \in DOMAIN binds[a], NEW re \in Re, IvyChangeMsg(a, n, re) PROVE Goal
    <3> DEFINE l == Line("AddRegexp", binds[a][n].id, re)
    <3>1. l \in Lines /\ l.type = "AddRegexp" /\ l.id = binds[a][n].id /\ l.arg = re
      BY <2>c, LinesOK
    <3>2. chan' = ToAll(a, l) /\ binds' = [binds EXCEPT ![a][n].re = re]
      BY <2>3 DEF IvyChangeMsg
    <3>3. binds'[a] = [binds[a] EXCEPT ![n].re = re]
      BY <3>2 DEF BindOK
    <3>4. n \in DOMAIN binds'[a] /\ binds'[a][n] = [binds[a][n] EXCEPT !.re = re]
      BY <3>3
    <3>5. binds'[a][n].id = binds[a][n].id /\ binds'[a][n].re = re
      BY <2>c, <3>4 DEF Binding
    <3>6. binds'[a][n] \in ListSubs(binds'[a])
      BY <3>4 DEF ListSubs
    <3> HIDE DEF l
    <3>7. Peer(x) \in ClientsOf(a) => Origin(x, l)
      BY <2>b, <3>1, <3>5, <3>6 DEF Origin
    <3> QED
      BY <2>a, <3>1, <3>2, <3>7
  <2>4. ASSUME NEW m \in Message, IvySendMsg(a, m) PROVE Goal
    <3>1. chan' = SendHits(chan, EndsOf(a), a, m) /\ status[a] = "running"
      BY <2>4 DEF IvySendMsg, SendHits
    <3>2. GetsHits(chan, EndsOf(a), a, m, x)
      BY <1>b, <3>1, SentHits
    <3>3. Grows(x)
      BY <3>1, <3>2 DEF Grows, GetsHits
    <3> QED
      BY <3>3 DEF Goal
  <2>5. ASSUME NEW e \in EndsOf(a), IvySendDieMsg(a, e) PROVE Goal
    <3> DEFINE l == Line("Die", 0, a)
    <3>1. l \in Lines /\ l.type = "Die"
      BY LinesOK
    <3>2. chan' = SendLine(chan, {e}, l)
      BY <2>5 DEF IvySendDieMsg, SendLine
    <3> HIDE DEF l
    <3> QED
      BY <1>d, <3>1, <3>2 DEF Origin
  <2> QED
    BY <1>6, <2>1, <2>2, <2>3, <2>4, <2>5 DEF Call
<1>7. ASSUME NEW e \in Made, Receive(e) PROVE Goal
  <2>1. PICK a \in App : a = Owner(e) /\ e \in End /\ e \in EndsOf(a) /\ Peer(e) # e
    BY EndsOK
  <2>2. chan[e] # <<>>
    BY <1>7 DEF Receive, ReceiveBye, ReceiveError, ReceiveAddRegexp, ReceiveDelRegexp,
                ReceiveStartRegexp, ReceiveEndRegexp, ReceiveMsg, ReceiveDie, ReceiveIgnored, Handles
  <2>3. Line("Error", 0, a) \in Lines /\ Line("Error", 0, a).type = "Error"
    BY LinesOK
  <2>4. CASE \/ ReceiveBye(e) \/ ReceiveError(e) \/ ReceiveDelRegexp(e) \/ ReceiveMsg(e)
    <3>1. chan' = Rest(e) /\ Head(chan[e]).type # "EndRegexp"
      BY <2>4 DEF ReceiveBye, ReceiveError, ReceiveDelRegexp, ReceiveMsg, Handles
    <3> QED
      BY <1>f, <2>2, <3>1
  <2>5. CASE ReceiveIgnored(e)
    <3>1. /\ chan' = Rest(e) /\ UNCHANGED <<sock, cli>>
          /\ sock[e] # "pending" /\ cli[e].ignore
      BY <2>5 DEF ReceiveIgnored
    <3>2. ~ Waiting(e)'
      BY <3>1 DEF Waiting
    <3> QED
      BY <1>f, <2>2, <3>1, <3>2
  <2>6. CASE ReceiveAddRegexp(e)
    <3>1. /\ Head(chan[e]).type # "EndRegexp"
          /\ chan' = Rest(e) \/ chan' = SendLine(Rest(e), {e}, Line("Error", 0, a))
      BY <2>1, <2>6 DEF ReceiveAddRegexp, Handles, SendLine
    <3> QED
      BY <1>f, <1>g, <2>2, <2>3, <3>1
  <2>7. CASE ReceiveStartRegexp(e)
    <3>1. /\ Head(chan[e]).type # "EndRegexp"
          /\ chan' = Rest(e) \/ \E t : chan' = SendLine(Rest(e), {t}, Line("Error", 0, a))
      BY <2>1, <2>7, ZenonT(40) DEF ReceiveStartRegexp, Handles, SendLine
    <3> QED
      BY <1>f, <1>g, <2>2, <2>3, <3>1
  <2>8. CASE ReceiveDie(e)
    <3>1. Line("Bye", 0, a) \in Lines /\ Line("Bye", 0, a).type = "Bye"
      BY LinesOK
    <3>2. /\ Head(chan[e]).type # "EndRegexp"
          /\ chan' = SendLine(Rest(e), ClientsOf(a), Line("Bye", 0, a))
      BY <2>1, <2>8 DEF ReceiveDie, Handles, SendLine
    <3> QED
      BY <1>g, <2>2, <3>1, <3>2
  <2>9. CASE ReceiveEndRegexp(e)
    <3>1. /\ sock[e] # "pending" /\ UNCHANGED sock /\ status[a] = "running"
          /\ cli' = [cli EXCEPT ![e].up = TRUE, ![e].ready = cli[e].ready + 1]
          /\ \/ chan' = Rest(e)
             \/ /\ Ready[a] # NoMessage
                /\ chan' = SendOn(Rest(e), {e}, [y \in {e} |-> Hits(reg[a].dict, Ready[a], e)])
      BY <2>1, <2>9 DEF ReceiveEndRegexp, Handles
    <3>2. cli'[e].up
      BY <2>1, <3>1 DEF CliOK, Client
    <3>3. ~ Waiting(e)'
      BY <3>1, <3>2 DEF Waiting
    <3>4. CASE chan' = Rest(e)
      BY <1>f, <2>2, <3>3, <3>4
    <3>5. ASSUME Ready[a] # NoMessage,
                 chan' = SendOn(Rest(e), {e}, [y \in {e} |-> Hits(reg[a].dict, Ready[a], e)])
          PROVE  Goal
      <4> DEFINE f == SendHits(Rest(e), {e}, a, Ready[a])
      <4>1. Ready[a] \in Message
        BY <3>5, BusAssumption
      <4>2. chan' = f
        <5>1. [y \in {e} |-> Hits(reg[a].dict, Ready[a], e)]
                = [y \in {e} |-> Hits(reg[a].dict, Ready[a], y)]
          OBVIOUS
        <5> QED
          BY <3>5, <5>1 DEF SendHits
      <4>3. Rest(e) \in [End -> Seq(Lines)] /\ \A y \in End : y # e => Rest(e)[y] = chan[y]
        BY <2>2, RestOK
      <4>4. PICK t \in Seq(Lines) : /\ f[x] = Rest(e)[x] \o t
                                    /\ t = <<>> \/ Peer(x) \in {e}
                                    /\ \A l \in Elems(t) : Origin(x, l)
        <5>1. {e} \subseteq EndsOf(a)
          BY <2>1
        <5>2. GetsHits(Rest(e), {e}, a, Ready[a], x)
          BY <3>1, <4>1, <4>3, <5>1, SentHits
        <5> QED
          BY <5>2 DEF GetsHits
      <4> HIDE DEF f
      <4>5. CASE x = e
        <5>1. t = <<>>
          BY <1>a, <4>4, <4>5
        <5>2. Elems(t) = {}
          BY <5>1 DEF Elems
        <5> QED
          BY <1>e, <2>2, <3>3, <4>2, <4>4, <5>2
      <4>6. CASE x # e
        <5>1. chan'[x] = chan[x] \o t
          BY <1>a, <4>2, <4>3, <4>4, <4>6
        <5>2. Grows(x)
          BY <4>4, <5>1 DEF Grows
        <5> QED
          BY <5>2 DEF Goal
      <4> QED
        BY <4>5, <4>6
    <3> QED
      BY <3>1, <3>4, <3>5
  <2> QED
    BY <1>7, <2>4, <2>5, <2>6, <2>7, <2>8, <2>9 DEF Receive
<1>8. ASSUME NEW e \in Made, ReadEnd(e) PROVE UNCHANGED chan
  BY <1>8 DEF ReadEnd
<1>9. ASSUME UNCHANGED vars PROVE UNCHANGED chan
  BY <1>9 DEF vars
<1>10. Goal
  BY <1>c, <1>1, <1>2, <1>3, <1>4, <1>5, <1>6, <1>7, <1>8, <1>9 DEF Next
<1> QED
  BY <1>10 DEF Goal
-----------------------------------------------------------------------------
(* An end that waits for the EndRegexp of its peer has it coming, and every *)
(* message to it is behind.                                                 *)

(* A socket is never pending again, nor open again. *)
LEMMA SockWanes ==
  ASSUME Shape, [Next]_vars, NEW x \in Made
  PROVE  sock'[x] = sock[x] \/ (sock'[x] # "pending" /\ (Open(x)' => Open(x)))
<1> USE DEF Shape
<1> DEFINE Goal == sock'[x] = sock[x] \/ (sock'[x] # "pending" /\ (Open(x)' => Open(x)))
<1>a. x \in End
  BY EndsOK
<1>b. ASSUME NEW t, sock' = Marked(t) PROVE Goal
  BY <1>a, <1>b DEF Marked, SockOK, Open
<1>c. ASSUME NEW S \in SUBSET Made, CloseSockets(S) PROVE Goal
  <2>1. sock' = [e \in End |-> IF e \in S THEN "closed" ELSE sock[e]]
    BY <1>c, CloseOK
  <2> QED
    BY <1>a, <2>1 DEF Open
<1>1. ASSUME NEW b \in App, NEW a \in App, BroadcastReceive(b, a) PROVE Goal
  <2>1. CASE UNCHANGED sock
    BY <2>1
  <2>2. ASSUME NEW k \in {Len(link) + 1}, k =< MaxConn,
               sock' = [sock EXCEPT ![<<k, "i">>] = "open", ![<<k, "a">>] = "pending"]
        PROVE  Goal
    <3>1. x # <<k, "i">> /\ x # <<k, "a">>
      BY <2>2, NewEnds
    <3> QED
      BY <1>a, <2>2, <3>1 DEF SockOK
  <2> QED
    BY <1>1, <2>1, <2>2, BroadcastCases
<1>2. ASSUME NEW a \in App, Exit(a) PROVE Goal
  <2> DEFINE S == {e \in EndsOf(a) : Open(e)}
  <2>1. S \in SUBSET Made /\ CloseSockets(S)
    BY <1>2, EndsOfMade DEF Exit
  <2> HIDE DEF S
  <2> QED
    BY <1>c, <2>1
<1>3. ASSUME NEW e \in Made, DeleteSocket(e) PROVE Goal
  <2>1. {e} \in SUBSET Made /\ CloseSockets({e})
    BY <1>3 DEF DeleteSocket
  <2> QED
    BY <1>c, <2>1
<1>4. ASSUME NEW e \in Made, Receive(e) PROVE Goal
  <2>1. CASE ReceiveDie(e)
    <3> DEFINE all == ClientsOf(Owner(e))
    <3>1. sock' = [y \in End |-> IF y \in all /\ sock[y] = "open" THEN "marked" ELSE sock[y]]
      BY <2>1 DEF ReceiveDie
    <3> HIDE DEF all
    <3> QED
      BY <1>a, <3>1 DEF Open
  <2>2. CASE ~ ReceiveDie(e)
    <3>1. UNCHANGED sock \/ \E t : sock' = Marked(t)
      BY <1>4, <2>2 DEF Receive, ReceiveBye, ReceiveError, ReceiveAddRegexp, ReceiveDelRegexp,
                        ReceiveStartRegexp, ReceiveEndRegexp, ReceiveMsg, ReceiveIgnored
    <3> QED
      BY <1>b, <3>1
  <2> QED
    BY <2>1, <2>2
<1>5. ASSUME NEW e \in Made, HandleServer(e) PROVE Goal
  <2>1. /\ sock[e] = "pending"
        /\ sock' = [sock EXCEPT ![e] = "refused"] \/ sock' = [sock EXCEPT ![e] = "open"]
    BY <1>5 DEF HandleServer
  <2> QED
    BY <1>a, <2>1 DEF SockOK, Open
<1>6. ASSUME NEW e \in Made, ReadEnd(e) PROVE Goal
  BY <1>b, <1>6 DEF ReadEnd
<1>7. ASSUME NEW a \in App, IvyStart(a) \/ SocketSendBroadcast(a) \/ IvyStop(a) \/ Call(a)
      PROVE  UNCHANGED sock
  BY <1>7 DEF IvyStart, SocketSendBroadcast, IvyStop, Call, IvyBindMsg, IvyUnbindMsg,
              IvyChangeMsg, IvySendMsg, IvySendDieMsg
<1>8. ASSUME UNCHANGED vars PROVE UNCHANGED sock
  BY <1>8 DEF vars
<1>9. Goal
  BY <1>1, <1>2, <1>3, <1>4, <1>5, <1>6, <1>7, <1>8 DEF Next
<1> QED
  BY <1>9

(* An end that is up, or ignored, stays so: its record is only made anew    *)
(* when it is accepted.                                                     *)
LEMMA CliWanes ==
  ASSUME Shape, [Next]_vars, NEW x \in Made
  PROVE  /\ cli'[x].up \in BOOLEAN /\ cli'[x].ignore \in BOOLEAN
         /\ sock[x] # "pending" => (cli[x].up => cli'[x].up) /\ (cli[x].ignore => cli'[x].ignore)
<1> USE DEF Shape
<1> DEFINE Goal == sock[x] # "pending" =>
                     (cli[x].up => cli'[x].up) /\ (cli[x].ignore => cli'[x].ignore)
<1>a. x \in End /\ cli[x] \in Client
  BY EndsOK DEF CliOK
<1>b. cli'[x].up \in BOOLEAN /\ cli'[x].ignore \in BOOLEAN
  BY <1>a, CliStep DEF CliOK, Client
<1>1. ASSUME NEW b \in App, NEW a \in App, BroadcastReceive(b, a) PROVE Goal
  <2>1. CASE UNCHANGED cli
    BY <2>1
  <2>2. ASSUME NEW k \in {Len(link) + 1}, k =< MaxConn, SendService(b, <<k, "i">>)
        PROVE  Goal
    <3>1. x # <<k, "i">> /\ <<k, "i">> \in End
      BY <2>2, NewEnds
    <3>2. cli'[x] = cli[x]
      BY <1>a, <2>2, <3>1, SendServiceOK
    <3> QED
      BY <3>2
  <2> QED
    BY <1>1, <2>1, <2>2, BroadcastCases
<1>2. ASSUME NEW e \in Made, HandleServer(e) PROVE Goal
  <2>1. PICK a \in App : a = Owner(e) /\ e \in End
    BY EndsOK
  <2>2. sock[e] = "pending" /\ (UNCHANGED cli \/ SendService(a, e))
    BY <1>2, <2>1 DEF HandleServer
  <2>3. SendService(a, e) /\ x # e => cli'[x] = cli[x]
    BY <1>a, <2>1, SendServiceOK
  <2> QED
    BY <2>2, <2>3
<1>3. ASSUME NEW e \in Made, ReceiveStartRegexp(e) PROVE Goal
  <2> DEFINE named == [cli EXCEPT ![e].port = Head(chan[e]).id]
  <2>1. cli' = named \/ \E t : cli' = [named EXCEPT ![t].ignore = TRUE]
    BY <1>3 DEF ReceiveStartRegexp
  <2>2. named[x].up = cli[x].up /\ named[x].ignore = cli[x].ignore /\ x \in DOMAIN named
    BY <1>a DEF CliOK, Client
  <2>3. named \in [End -> Client]
    <3>1. e \in End /\ Head(chan[e]) \in Lines
      BY <1>3, EndsOK, RestOK DEF ReceiveStartRegexp, Handles
    <3> QED
      BY <3>1, LineFields DEF CliOK, Client
  <2> HIDE DEF named
  <2> QED
    BY <1>a, <2>1, <2>2, <2>3 DEF Client
<1>4. ASSUME NEW e \in Made, ReceiveEndRegexp(e) PROVE Goal
  <2>1. cli' = [cli EXCEPT ![e].up = TRUE, ![e].ready = cli[e].ready + 1]
    BY <1>4 DEF ReceiveEndRegexp
  <2> QED
    BY <1>a, <2>1 DEF CliOK, Client
<1>5. ASSUME NEW e \in Made, Receive(e), ~ ReceiveStartRegexp(e), ~ ReceiveEndRegexp(e)
      PROVE  UNCHANGED cli
  BY <1>5 DEF Receive, ReceiveBye, ReceiveError, ReceiveAddRegexp, ReceiveDelRegexp,
              ReceiveMsg, ReceiveDie, ReceiveIgnored
<1>6. ASSUME NEW e \in Made, ReadEnd(e) \/ DeleteSocket(e) PROVE UNCHANGED cli
  BY <1>6 DEF ReadEnd, DeleteSocket
<1>7. ASSUME NEW a \in App,
             IvyStart(a) \/ SocketSendBroadcast(a) \/ IvyStop(a) \/ Call(a) \/ Exit(a)
      PROVE  UNCHANGED cli
  BY <1>7 DEF IvyStart, SocketSendBroadcast, IvyStop, Exit, Call, IvyBindMsg, IvyUnbindMsg,
              IvyChangeMsg, IvySendMsg, IvySendDieMsg
<1>8. ASSUME UNCHANGED vars PROVE UNCHANGED cli
  BY <1>8 DEF vars
<1>9. UNCHANGED cli => Goal
  OBVIOUS
<1> HIDE DEF Goal
<1>10. Goal
  BY <1>1, <1>2, <1>3, <1>4, <1>5, <1>6, <1>7, <1>8, <1>9 DEF Next
<1> QED
  BY <1>b, <1>10 DEF Goal

(* The peer of end x accepts the connection and announces its bindings. *)
Greets(x) ==
  LET p == Owner(Peer(x))
  IN  /\ sock[Peer(x)] = "pending" /\ sock'[Peer(x)] # "pending"
      /\ chan'[x] = IF sock'[x] = "closed" THEN chan[x] ELSE chan[x] \o Service(p)
      /\ announced' = [announced EXCEPT ![Peer(x)] = ListSubs(binds[p])]
      /\ UNCHANGED <<reg, binds, nextId>>

(* An end gets its client record when it is accepted, and an application   *)
(* that exited stays so.                                                   *)
LEMMA ClientsGrow ==
  ASSUME Shape, [Next]_vars, NEW x \in Made, NEW p, p = Owner(Peer(x))
  PROVE  /\ Peer(x) \in ClientsOf(p)' => Peer(x) \in ClientsOf(p) \/ Greets(x)
         /\ status'[p] # "exited" => status[p] # "exited"
<1> USE DEF Shape
<1>a. x \in End /\ Peer(x) \in Made /\ Peer(x) \in End /\ Peer(Peer(x)) = x /\ p \in App
  BY EndsOK
<1> DEFINE Goal == /\ Peer(x) \in ClientsOf(p)' => Peer(x) \in ClientsOf(p) \/ Greets(x)
                   /\ status'[p] # "exited" => status[p] # "exited"
<1>0. ASSUME ClientsOf(p)' \subseteq ClientsOf(p), status[p] = "exited" => status'[p] = "exited"
      PROVE  Goal
  BY <1>0
<1>1. ASSUME NEW b \in App, NEW a \in App, BroadcastReceive(b, a) PROVE Goal
  <2>1. UNCHANGED status
    BY <1>1, BroadcastCases
  <2>2. CASE UNCHANGED allClients
    BY <1>0, <2>1, <2>2 DEF ClientsOf
  <2>3. ASSUME NEW k \in {Len(link) + 1}, k =< MaxConn, SendService(b, <<k, "i">>)
        PROVE  Goal
    <3>1. Peer(x) # <<k, "i">> /\ <<k, "i">> \in End
      BY <1>a, <2>3, NewEnds
    <3>2. /\ ClientsOf(b)' = {<<k, "i">>} \cup ClientsOf(b)
          /\ \A c \in App : c # b => ClientsOf(c)' = ClientsOf(c)
      BY <2>3, <3>1, SendServiceOK
    <3> QED
      BY <1>a, <2>1, <3>1, <3>2
  <2> QED
    BY <1>1, <2>2, <2>3, BroadcastCases
<1>2. ASSUME NEW e \in Made, HandleServer(e) PROVE Goal
  <2>1. PICK a \in App : a = Owner(e) /\ e \in End
    BY EndsOK
  <2>2. /\ UNCHANGED <<status, reg, binds, nextId>> /\ sock[e] = "pending"
        /\ \/ UNCHANGED allClients
           \/ SendService(a, e) /\ sock' = [sock EXCEPT ![e] = "open"]
    BY <1>2, <2>1 DEF HandleServer
  <2>3. CASE UNCHANGED allClients
    BY <1>0, <2>2, <2>3 DEF ClientsOf
  <2>4. CASE SendService(a, e) /\ sock' = [sock EXCEPT ![e] = "open"]
    <3>1. /\ ClientsOf(a)' = {e} \cup ClientsOf(a)
          /\ \A c \in App : c # a => ClientsOf(c)' = ClientsOf(c)
          /\ chan'[Peer(e)] = IF sock'[Peer(e)] = "closed" THEN chan[Peer(e)]
                                                         ELSE chan[Peer(e)] \o Service(a)
      BY <2>1, <2>4, SendServiceOK
    <3>2. CASE e # Peer(x)
      BY <1>a, <2>2, <3>1, <3>2
    <3>3. CASE e = Peer(x)
      <4>1. announced' = [announced EXCEPT ![e] = ListSubs(binds[a])]
        BY <2>4 DEF SendService
      <4>2. sock'[e] # "pending"
        BY <2>1, <2>4 DEF SockOK
      <4>3. Greets(x)
        BY <1>a, <2>1, <2>2, <3>1, <3>3, <4>1, <4>2 DEF Greets
      <4> QED
        BY <2>2, <4>3
    <3> QED
      BY <3>2, <3>3
  <2> QED
    BY <2>2, <2>3, <2>4
<1>3. ASSUME NEW e \in Made, ReceiveDie(e) PROVE Goal
  <2>1. PICK a \in App : a = Owner(e)
    BY EndsOK
  <2>2. /\ status[a] = "running" /\ status' = [status EXCEPT ![a] = "stopped"]
        /\ allClients' = [allClients EXCEPT ![a] = <<>>]
    BY <1>3, <2>1 DEF ReceiveDie, Handles
  <2>3. ClientsOf(p)' \subseteq ClientsOf(p)
    BY <1>a, <2>2 DEF OwnOK, ClientsOf
  <2>4. status[p] = "exited" => status'[p] = "exited"
    BY <1>a, <2>2 DEF OwnOK
  <2> QED
    BY <1>0, <2>3, <2>4
<1>4. ASSUME NEW e \in Made, DeleteSocket(e) PROVE Goal
  <2>1. PICK a \in App : a = Owner(e)
    BY EndsOK
  <2>2. /\ UNCHANGED status
        /\ allClients' = [allClients EXCEPT ![a] = Sublist(@, {n \in DOMAIN @ : @[n] # e})]
    BY <1>4, <2>1 DEF DeleteSocket
  <2>3. ClientsOf(a)' = ClientsOf(a) \ {e} /\ \A b \in App : b # a => ClientsOf(b)' = ClientsOf(b)
    BY <2>2, ClientTaken
  <2> QED
    BY <1>a, <2>2, <2>3
<1>5. ASSUME NEW a \in App, IvyStart(a) \/ SocketSendBroadcast(a) \/ IvyStop(a) \/ Exit(a)
      PROVE  Goal
  <2>1. UNCHANGED allClients
    BY <1>5 DEF IvyStart, SocketSendBroadcast, IvyStop, Exit
  <2>2. status[a] # "exited" /\ \E v : status' = [status EXCEPT ![a] = v]
    BY <1>5 DEF IvyStart, SocketSendBroadcast, IvyStop, Exit, Listening
  <2>3. status[p] = "exited" => status'[p] = "exited"
    BY <1>a, <2>2 DEF OwnOK
  <2> QED
    BY <1>0, <2>1, <2>3 DEF ClientsOf
<1>6. ASSUME NEW a \in App, Call(a) PROVE UNCHANGED <<allClients, status>>
  BY <1>6 DEF Call, IvyBindMsg, IvyUnbindMsg, IvyChangeMsg, IvySendMsg, IvySendDieMsg
<1>7. ASSUME NEW e \in Made, Receive(e), ~ ReceiveDie(e) PROVE UNCHANGED <<allClients, status>>
  BY <1>7 DEF Receive, ReceiveBye, ReceiveError, ReceiveAddRegexp, ReceiveDelRegexp,
              ReceiveStartRegexp, ReceiveEndRegexp, ReceiveMsg, ReceiveIgnored
<1>8. ASSUME NEW e \in Made, ReadEnd(e) PROVE UNCHANGED <<allClients, status>>
  BY <1>8 DEF ReadEnd
<1>9. ASSUME UNCHANGED vars PROVE UNCHANGED <<allClients, status>>
  BY <1>9 DEF vars
<1>10. UNCHANGED <<allClients, status>> => Goal
  BY <1>0 DEF ClientsOf
<1> HIDE DEF Goal
<1>11. Goal
  BY <1>1, <1>2, <1>3, <1>4, <1>5, <1>6, <1>7, <1>8, <1>9, <1>10 DEF Next
<1> QED
  BY <1>11 DEF Goal

(* The peer of an end starts to feed it with the EndRegexp of SendService. *)
LEMMA FedWanes ==
  ASSUME Shape, [Next]_vars, NEW x \in Made, Open(x)', Fed(x)'
  PROVE  Fed(x) \/ (Greets(x) /\ HasEnd(chan'[x]))
<1> USE DEF Shape
<1>1. x \in End /\ Peer(x) \in Made
  BY EndsOK
<1>2. PICK p \in App : p = Owner(Peer(x))
  BY EndsOK
<1>3. Owner(Peer(x))' = p
  BY <1>1, <1>2, LinkStep
<1>4. Peer(x) \in ClientsOf(p)' /\ status'[p] # "exited"
  BY <1>3 DEF Fed
<1>5. status[p] # "exited" /\ (Peer(x) \in ClientsOf(p) \/ Greets(x))
  BY <1>2, <1>4, ClientsGrow
<1>6. ASSUME Greets(x) PROVE HasEnd(chan'[x])
  <2>1. chan'[x] = chan[x] \o Service(p)
    BY <1>2, <1>6 DEF Greets, Open
  <2>2. Service(p) \in Seq(Lines) /\ Line("EndRegexp", 0, p) \in Elems(Service(p))
    BY ServiceOK
  <2>3. chan[x] \in Seq(Lines)
    BY <1>1 DEF ChanOK
  <2>4. Elems(chan[x] \o Service(p)) = Elems(chan[x]) \cup Elems(Service(p))
    BY <2>2, <2>3, ConcatElems
  <2>5. Line("EndRegexp", 0, p) \in Elems(chan'[x])
    BY <2>1, <2>2, <2>4
  <2> QED
    BY <2>5, LinesOK DEF HasEnd
<1> QED
  BY <1>2, <1>5, <1>6 DEF Fed

(* The channel to an end that waits, and that its peer feeds. *)
Ok(x) == /\ Waiting(x) => Guarded(chan[x])
         /\ Waiting(x) /\ Open(x) /\ Fed(x) => HasEnd(chan[x])

LEMMA OkStep ==
  ASSUME Safe, [Next]_vars, NEW x \in Made, Ok(x)
  PROVE  Ok(x)'
<1> USE DEF Safe
<1>a. x \in End /\ Owner(Peer(x)) \in App /\ Peer(x) \in Made
  BY EndsOK DEF Shape
<1>b. chan[x] \in Seq(Lines)
  BY <1>a DEF Shape, ChanOK
<1>c. Waiting(x)' => Waiting(x)
  <2>1. cli[x].up \in BOOLEAN /\ cli[x].ignore \in BOOLEAN
    BY <1>a DEF Shape, CliOK, Client
  <2> QED
    BY <2>1, SockWanes, CliWanes DEF Waiting
<1>d. Open(x)' => Open(x)
  BY SockWanes DEF Open
<1>e. Open(x)' /\ Fed(x)' => Fed(x) \/ HasEnd(chan'[x])
  BY FedWanes
<1>1. CASE Grows(x)
  <2>1. PICK t \in Seq(Lines) : chan'[x] = chan[x] \o t /\ \A l \in Elems(t) : Origin(x, l)
    BY <1>1 DEF Grows
  <2>2. ASSUME Waiting(x), NEW l \in Elems(t), l.type = "Msg" PROVE HasEnd(chan[x])
    <3>1. /\ Open(x) /\ status[Owner(Peer(x))] = "running"
          /\ DictSubs(reg[Owner(Peer(x))].dict, Peer(x)) # {}
      BY <2>1, <2>2 DEF Origin
    <3>2. Fed(x)
      BY <1>a, <3>1 DEF Tidy, Fed
    <3> QED
      BY <2>2, <3>1, <3>2 DEF Ok
  <2>3. Waiting(x)' => Guarded(chan'[x])
    <3>1. ASSUME Waiting(x) PROVE Guarded(chan[x] \o t)
      <4>1. Guarded(chan[x]) /\ (HasEnd(chan[x]) \/ \A l \in Elems(t) : l.type # "Msg")
        BY <2>2, <3>1 DEF Ok
      <4> QED
        BY <1>b, <4>1, GuardedAppend
    <3> QED
      BY <1>c, <2>1, <3>1
  <2>4. HasEnd(chan[x]) => HasEnd(chan'[x])
    <3>1. Elems(chan[x] \o t) = Elems(chan[x]) \cup Elems(t)
      BY <1>b, ConcatElems
    <3> QED
      BY <2>1, <3>1 DEF HasEnd
  <2> QED
    BY <1>c, <1>d, <1>e, <2>3, <2>4 DEF Ok
<1>2. CASE Reads(x)
  <2> DEFINE s == Tail(chan[x])
  <2>1. PICK t \in Seq(Lines) : chan'[x] = s \o t /\ \A l \in Elems(t) : l.type # "Msg"
    BY <1>2 DEF Reads
  <2>2. chan[x] # <<>> /\ (Waiting(x)' => Head(chan[x]).type # "EndRegexp")
    BY <1>2 DEF Reads
  <2>3. s \in Seq(Lines) /\ Elems(chan[x]) = {Head(chan[x])} \cup Elems(s)
    BY <1>b, <2>2, TailElems
  <2> HIDE DEF s
  <2>4. ASSUME Waiting(x)' PROVE Guarded(s \o t)
    <3>1. Guarded(s)
      BY <1>b, <1>c, <2>2, <2>4, GuardedTail DEF Ok, s
    <3> QED
      BY <2>1, <2>3, <3>1, GuardedAppend
  <2>5. ASSUME Waiting(x)', HasEnd(chan[x]) PROVE HasEnd(s \o t)
    <3>1. Elems(s \o t) = Elems(s) \cup Elems(t)
      BY <2>3, ConcatElems
    <3> QED
      BY <2>2, <2>3, <2>5, <3>1 DEF HasEnd
  <2> QED
    BY <1>c, <1>d, <1>e, <2>1, <2>4, <2>5 DEF Ok
<1>3. CASE Cut(x)
  <2>1. PICK n \in 0 .. Len(chan[x]) : chan'[x] = SubSeq(chan[x], 1, n)
    BY <1>3 DEF Cut
  <2>2. Waiting(x)' => Guarded(chan'[x])
    BY <1>b, <1>c, <2>1, GuardedPrefix DEF Ok
  <2> QED
    BY <1>3, <2>2 DEF Ok, Cut
<1> QED
  BY <1>1, <1>2, <1>3, ChanMoves

(* The two ends of a new connection, which b makes to a. *)
Connection(b, a, i, c) ==
  /\ i \in End \ Made /\ c \in End \ Made /\ i # c /\ Peer(i) = c /\ Peer(c) = i /\ a # b
  /\ Made' = Made \cup {i, c} /\ Owner(i)' = b /\ Owner(c)' = a
  /\ sock' = [sock EXCEPT ![i] = "open", ![c] = "pending"] /\ SendService(b, i)
  /\ UNCHANGED <<status, reg, binds, nextId, budget>>
  /\ status[a] # "exited" /\ status[b] # "exited"

LEMMA NewConnection ==
  ASSUME Shape, [Next]_vars, NEW x \in Made' \ Made
  PROVE  \E b, a \in App, i, c \in End : Connection(b, a, i, c) /\ x \in {i, c}
<1> USE DEF Shape
<1>1. PICK b \in App, a \in App : BroadcastReceive(b, a)
  <2>1. ASSUME UNCHANGED link PROVE FALSE
    BY <2>1, SameMade
  <2>2. ASSUME NEW a \in App,
               IvyStart(a) \/ SocketSendBroadcast(a) \/ IvyStop(a) \/ Exit(a) \/ Call(a)
        PROVE  UNCHANGED link
    BY <2>2 DEF IvyStart, SocketSendBroadcast, IvyStop, Exit, Call, IvyBindMsg, IvyUnbindMsg,
                IvyChangeMsg, IvySendMsg, IvySendDieMsg
  <2>3. ASSUME NEW e \in Made, HandleServer(e) \/ Receive(e) \/ ReadEnd(e) \/ DeleteSocket(e)
        PROVE  UNCHANGED link
    BY <2>3 DEF HandleServer, Receive, ReceiveBye, ReceiveError, ReceiveAddRegexp,
                ReceiveDelRegexp, ReceiveStartRegexp, ReceiveEndRegexp, ReceiveMsg, ReceiveDie,
                ReceiveIgnored, ReadEnd, DeleteSocket
  <2>4. ASSUME UNCHANGED vars PROVE UNCHANGED link
    BY <2>4 DEF vars
  <2> QED
    BY <2>1, <2>2, <2>3, <2>4 DEF Next
<1>2. PICK port \in SeenPorts, k \in {Len(link) + 1} :
         /\ Connects(b, a) /\ status[b] = "running" /\ k =< MaxConn
         /\ link' = Append(link, [ini |-> b, acc |-> a, seen |-> port])
         /\ sock' = [sock EXCEPT ![<<k, "i">>] = "open", ![<<k, "a">>] = "pending"]
         /\ SendService(b, <<k, "i">>)
  <2>1. ~ UNCHANGED link
    BY SameMade
  <2> QED
    BY <1>1, <2>1, BroadcastCases
<1> DEFINE i == <<k, "i">>
           c == <<k, "a">>
<1>3. i \in End \ Made /\ c \in End \ Made /\ i # c /\ Peer(i) = c /\ Peer(c) = i
  BY <1>2, NewEnds
<1>4. Made' = Made \cup {i, c} /\ Owner(i)' = b /\ Owner(c)' = a
  BY <1>2, LinkAdded
<1>5. /\ a # b /\ UNCHANGED <<status, reg, binds, nextId, budget>>
      /\ status[a] # "exited" /\ status[b] # "exited"
  BY <1>1, <1>2, BroadcastCases DEF Connects, Listening
<1>6. Connection(b, a, i, c)
  BY <1>2, <1>3, <1>4, <1>5 DEF Connection
<1>7. x \in {i, c}
  BY <1>4
<1> HIDE DEF i, c
<1> QED
  BY <1>3, <1>6, <1>7

LEMMA OkNew ==
  ASSUME Safe, [Next]_vars, NEW x \in Made' \ Made
  PROVE  Ok(x)'
<1> USE DEF Safe, Shape
<1>1. PICK b \in App, a \in App, i \in End, c \in End : Connection(b, a, i, c) /\ x \in {i, c}
  BY NewConnection
<1>2. i \in End \ Made /\ c \in End \ Made /\ i # c /\ Peer(i) = c /\ Peer(c) = i /\ a # b
  BY <1>1 DEF Connection
<1>3. Made' = Made \cup {i, c} /\ Owner(i)' = b /\ Owner(c)' = a
  BY <1>1 DEF Connection
<1>4. SendService(b, i) /\ sock' = [sock EXCEPT ![i] = "open", ![c] = "pending"]
  BY <1>1 DEF Connection
<1>5. /\ \A y \in End : y # c => chan'[y] = chan[y]
      /\ chan'[c] = IF sock'[c] = "closed" THEN chan[c] ELSE chan[c] \o Service(b)
      /\ \A d \in App : d # b => ClientsOf(d)' = ClientsOf(d)
  BY <1>2, <1>4, SendServiceOK
<1>6. CASE x = i
  <2>1. chan'[i] = <<>>
    BY <1>2, <1>5 DEF ChanOK
  <2>2. Guarded(<<>>)
    BY DEF Guarded
  <2>3. c \notin ClientsOf(a)' /\ Owner(Peer(i))' = a
    <3>2. c \notin ClientsOf(a)
      BY <1>2, EndsOfMade DEF Held, HeldOwn
    <3>3. Owner(Peer(i))' = a
      BY <1>2, <1>3
    <3> QED
      BY <1>2, <1>5, <3>2, <3>3
  <2>4. ~ Fed(i)'
    BY <1>2, <2>3 DEF Fed
  <2> QED
    BY <1>6, <2>1, <2>2, <2>4 DEF Ok
<1>7. CASE x = c
  <2>1. chan[c] = <<>> /\ sock'[c] = "pending"
    BY <1>2, <1>4 DEF ChanOK, SockOK
  <2>2. /\ Service(b) \in Seq(Lines)
        /\ Elems(Service(b)) = Elems(Announcements(b))
             \cup {Line("StartRegexp", Port[b], b), Line("EndRegexp", 0, b)}
    BY ServiceOK
  <2>3. chan'[c] = Service(b)
    <3>1. <<>> \o Service(b) = Service(b)
      BY <2>2, ConcatEmptySeq
    <3> QED
      BY <1>5, <2>1, <3>1
  <2>4. \A l \in Elems(Service(b)) : l.type # "Msg"
    <3>1. ASSUME NEW l \in Elems(Announcements(b)) PROVE l.type # "Msg"
      <4>1. PICK n \in DOMAIN Announcements(b) : l = Announcements(b)[n]
        BY DEF Elems
      <4>2. l = Line("AddRegexp", binds[b][n].id, binds[b][n].re)
        BY <4>1, AnnouncementsOK
      <4> QED
        BY <4>2, LinesOK
    <3> QED
      BY <2>2, <3>1, LinesOK
  <2>5. Guarded(Service(b))
    BY <2>4 DEF Guarded, Elems
  <2>6. HasEnd(Service(b))
    BY <2>2, LinesOK DEF HasEnd
  <2> QED
    BY <1>7, <2>3, <2>5, <2>6 DEF Ok
<1> QED
  BY <1>1, <1>6, <1>7

(* MsgAfterConnected for every number of applications, connections,         *)
(* bindings and messages: however the handshakes of the two directions      *)
(* interleave with bindings, messages and closes, the application has been  *)
(* told of its peer (the EndRegexp case of Receive) before it gets a        *)
(* message from it, or ignores the connection.                              *)
THEOREM ConnectedFirst == Spec => []MsgAfterConnected
<1> DEFINE AllOk == \A x \in Made : Ok(x)
           IInv == Safe /\ AllOk
<1>1. Init => IInv
  <2>1. Init => AllOk
    BY DEF Init, Made
  <2> QED
    BY <2>1, SafeInit
<1>2. IInv /\ [Next]_vars => IInv'
  <2> SUFFICES ASSUME Safe, AllOk, [Next]_vars PROVE Safe' /\ AllOk'
    OBVIOUS
  <2>1. \A x \in Made' : Ok(x)'
    BY OkStep, OkNew
  <2> QED
    BY <2>1, SafeStep
<1>3. IInv => MsgAfterConnected
  <2> SUFFICES ASSUME Safe, AllOk, NEW e \in Made, chan[e] # <<>>, Head(chan[e]).type = "Msg"
               PROVE  cli[e].up \/ cli[e].ignore
    BY DEF MsgAfterConnected
  <2>1. chan[e] \in Seq(Lines)
    BY EndsOK DEF Safe, Shape, ChanOK
  <2>2. Head(chan[e]) = chan[e][1] /\ 1 \in DOMAIN chan[e]
    BY <2>1, TailElems, LenProperties
  <2>3. ~ Guarded(chan[e])
    BY <2>2 DEF Guarded
  <2>4. ~ Waiting(e)
    BY <2>3 DEF Ok
  <2> QED
    BY <2>4 DEF Waiting
<1> HIDE DEF IInv
<1> QED
  BY <1>1, <1>2, <1>3, PTL DEF Spec
-----------------------------------------------------------------------------
(* Ids.  As long as no program calls IvyChangeMsg, an id of an application  *)
(* stands for one text for ever: in its own list, in the lines to its peers *)
(* and in their registries.                                                 *)

Still == budget.change = 0

(* What the bindings of application p can become. *)
KeepsBinds(p) == nextId'[p] = nextId[p] /\ ListSubs(binds'[p]) \subseteq ListSubs(binds[p])
AddsBind(p) ==
  \E re \in Re : /\ nextId'[p] = nextId[p] + 1
                 /\ ListSubs(binds'[p]) \subseteq ListSubs(binds[p]) \cup {[id |-> nextId[p], re |-> re]}

LEMMA BindMoves ==
  ASSUME Shape, Still, [Next]_vars, NEW p \in App
  PROVE  Still' /\ (KeepsBinds(p) \/ AddsBind(p))
<1> USE DEF Shape
<1> DEFINE Goal == Still' /\ (KeepsBinds(p) \/ AddsBind(p))
<1>0. ASSUME UNCHANGED <<binds, nextId, budget>> PROVE Goal
  BY <1>0 DEF Still, KeepsBinds
<1>1. ASSUME NEW b \in App, NEW a \in App, BroadcastReceive(b, a)
      PROVE  UNCHANGED <<binds, nextId, budget>>
  BY <1>1 DEF BroadcastReceive
<1>2. ASSUME NEW a \in App, IvyStart(a) \/ SocketSendBroadcast(a) \/ IvyStop(a) \/ Exit(a)
      PROVE  UNCHANGED <<binds, nextId, budget>>
  BY <1>2 DEF IvyStart, SocketSendBroadcast, IvyStop, Exit
<1>3. ASSUME NEW e \in Made, HandleServer(e) \/ Receive(e) \/ ReadEnd(e) \/ DeleteSocket(e)
      PROVE  UNCHANGED <<binds, nextId, budget>>
  BY <1>3 DEF HandleServer, ReadEnd, DeleteSocket,
              Receive, ReceiveBye, ReceiveError, ReceiveAddRegexp, ReceiveDelRegexp,
              ReceiveStartRegexp, ReceiveEndRegexp, ReceiveMsg, ReceiveDie, ReceiveIgnored
<1>4. ASSUME NEW a \in App, Call(a) PROVE Goal
  <2> DEFINE s == binds[a]
  <2>a. s \in Seq(Binding) /\ nextId[a] \in Nat /\ ListSubs(s) = Elems(s)
    BY DEF BindOK, ListSubs, Elems
  <2>1. ASSUME NEW re \in Re, IvyBindMsg(a, re) PROVE Goal
    <3> DEFINE x == [id |-> nextId[a], re |-> re]
               t == <<x>> \o s
    <3>1. /\ binds' = [binds EXCEPT ![a] = t]
          /\ nextId' = [nextId EXCEPT ![a] = @ + 1] /\ UNCHANGED budget
      BY <2>1 DEF IvyBindMsg, RecvId
    <3>2. x \in Binding
      BY <2>a DEF Binding
    <3> HIDE DEF x, s
    <3>3. ListSubs(t) = ListSubs(s) \cup {x}
      <4>1. Elems(t) = {x} \cup Elems(s)
        BY <2>a, <3>2, FrontElems
      <4> QED
        BY <2>a, <4>1 DEF ListSubs, Elems
    <3> HIDE DEF t
    <3>4. CASE p = a
      <4>1. binds'[p] = t /\ nextId'[p] = nextId[p] + 1
        BY <3>1, <3>4 DEF BindOK
      <4>2. AddsBind(p)
        BY <3>3, <3>4, <4>1 DEF AddsBind, x, s
      <4> QED
        BY <3>1, <4>2 DEF Still
    <3>5. CASE p # a
      BY <3>1, <3>5 DEF BindOK, KeepsBinds, Still
    <3> QED
      BY <3>4, <3>5
  <2>2. ASSUME NEW n \in DOMAIN binds[a], IvyUnbindMsg(a, n) PROVE Goal
    <3> DEFINE K == {j \in DOMAIN s : s[j] # s[n]}
    <3>1. binds' = [binds EXCEPT ![a] = Sublist(s, K)] /\ UNCHANGED <<nextId, budget>>
      BY <2>2 DEF IvyUnbindMsg
    <3>2. K \in SUBSET (1 .. Len(s)) /\ K \subseteq DOMAIN s
      BY <2>a, LenProperties
    <3> HIDE DEF s, K
    <3>3. ListSubs(Sublist(s, K)) \subseteq ListSubs(s)
      <4>1. {Sublist(s, K)[j] : j \in DOMAIN Sublist(s, K)} = {s[i] : i \in K}
        BY <2>a, <3>2, SublistElements
      <4> QED
        BY <3>2, <4>1 DEF ListSubs
    <3>4. (binds'[p] = Sublist(s, K) /\ p = a) \/ binds'[p] = binds[p]
      BY <3>1 DEF BindOK
    <3>5. ListSubs(binds'[p]) \subseteq ListSubs(binds[p])
      BY <3>3, <3>4 DEF s
    <3> QED
      BY <3>1, <3>5 DEF KeepsBinds, Still
  <2>3. ASSUME NEW n \in DOMAIN binds[a], NEW re \in Re, IvyChangeMsg(a, n, re) PROVE Goal
    BY <2>3 DEF IvyChangeMsg, Still
  <2>4. ASSUME budget' = [budget EXCEPT !.send[a] = @ - 1], UNCHANGED <<binds, nextId>>
        PROVE  Goal
    <3>1. budget \in [send : [App -> Nat], change : Nat]
      BY DEF BindOK
    <3>2. budget'.change = budget.change
      BY <2>4, <3>1
    <3> QED
      BY <2>4, <3>2 DEF Still, KeepsBinds
  <2>5. ASSUME NEW m \in Message, IvySendMsg(a, m) PROVE Goal
    BY <2>4, <2>5 DEF IvySendMsg
  <2>6. ASSUME NEW e \in EndsOf(a), IvySendDieMsg(a, e) PROVE Goal
    BY <2>4, <2>6 DEF IvySendDieMsg
  <2> QED
    BY <1>4, <2>1, <2>2, <2>3, <2>5, <2>6 DEF Call
<1>5. ASSUME UNCHANGED vars PROVE UNCHANGED <<binds, nextId, budget>>
  BY <1>5 DEF vars
<1> HIDE DEF Goal
<1>6. Goal
  BY <1>0, <1>1, <1>2, <1>3, <1>4, <1>5 DEF Next
<1> QED
  BY <1>6 DEF Goal

(* An application registers for an end only what a line to that end says. *)
Announces(x, b) == Line("AddRegexp", b.id, b.re) \in Elems(chan[x])

LEMMA DictMoves ==
  ASSUME Shape, [Next]_vars, NEW x \in Made, NEW b,
         b \in DictSubs(reg'[Owner(x)].dict, x)
  PROVE  b \in DictSubs(reg[Owner(x)].dict, x) \/ Announces(x, b)
<1> USE DEF Shape
<1> DEFINE Goal == b \in DictSubs(reg[Owner(x)].dict, x) \/ Announces(x, b)
<1>a. x \in End /\ Owner(x) \in App
  BY EndsOK
<1>b. reg[Owner(x)] \in Registry(Re, End) /\ Orderly(reg[Owner(x)])
  BY <1>a DEF RegOK
<1>0. reg'[Owner(x)] = reg[Owner(x)] => Goal
  OBVIOUS
<1>1. ASSUME NEW e \in Made, ReceiveAddRegexp(e) PROVE Goal
  <2>1. PICK a \in App : a = Owner(e) /\ e \in End
    BY EndsOK
  <2> DEFINE l == Head(chan[e])
  <2>2. l \in Lines /\ l.type = "AddRegexp" /\ chan[e] # <<>>
    BY <1>1, RestOK DEF ReceiveAddRegexp, Handles
  <2>3. PICK id \in Nat, re \in Re : id = l.id /\ re = l.arg
    BY <2>2, LineFields
  <2> DEFINE r == addOrChangeRegexp(reg[a], re, e, id)
  <2>4. UNCHANGED reg \/ reg' = [reg EXCEPT ![a] = r]
    BY <1>1, <2>1, <2>3 DEF ReceiveAddRegexp
  <2>5. /\ DictSubs(r.dict, e) = DictSubs(reg[a].dict, e) \cup {[id |-> id, re |-> re]}
        /\ \A y : y # e => DictSubs(r.dict, y) = DictSubs(reg[a].dict, y)
    BY <2>1, SubAdded
  <2> HIDE DEF r
  <2>6. l \in Elems(chan[e]) /\ l = Line("AddRegexp", id, re)
    <3>1. chan[e] \in Seq(Lines)
      BY <2>1 DEF ChanOK
    <3>2. Elems(chan[e]) = {l} \cup Elems(Tail(chan[e]))
      BY <2>2, <3>1, TailElems
    <3>3. l = Line("AddRegexp", id, re)
      BY <2>2, <2>3 DEF Lines, Line
    <3> QED
      BY <3>2, <3>3
  <2>7. CASE reg'[Owner(x)] = r /\ Owner(x) = a /\ x = e
    <3>1. b \in DictSubs(reg[a].dict, e) \/ b = [id |-> id, re |-> re]
      BY <2>5, <2>7
    <3>2. b = [id |-> id, re |-> re] => Announces(x, b)
      BY <2>6, <2>7 DEF Announces
    <3> QED
      BY <2>7, <3>1, <3>2
  <2>8. CASE reg'[Owner(x)] = r /\ Owner(x) = a /\ x # e
    BY <2>5, <2>8
  <2>9. reg'[Owner(x)] = reg[Owner(x)] \/ (reg'[Owner(x)] = r /\ Owner(x) = a)
    BY <1>a, <2>4 DEF RegOK
  <2> QED
    BY <1>0, <2>7, <2>8, <2>9
<1>2. ASSUME NEW e \in Made, ReceiveDelRegexp(e) PROVE Goal
  <2>1. PICK a \in App : a = Owner(e) /\ e \in End
    BY EndsOK
  <2>2. PICK id \in Nat : id = Head(chan[e]).id
    BY <1>2, RestOK, LineFields DEF ReceiveDelRegexp, Handles
  <2> DEFINE r == delRegexpForOneClient(reg[a], e, id)
  <2>3. reg' = [reg EXCEPT ![a] = r]
    BY <1>2, <2>1, <2>2 DEF ReceiveDelRegexp
  <2>4. reg[a] \in Registry(Re, End) /\ Orderly(reg[a])
    BY DEF RegOK
  <2>5. \A y, c : c \in DictSubs(r.dict, y) => c \in DictSubs(reg[a].dict, y)
    <3>1. DictLess(reg[a], r, e, id)
      BY <2>1, <2>4, DelRegexpForOneOK
    <3> QED
      BY <3>1 DEF DictLess
  <2> HIDE DEF r
  <2>6. reg'[Owner(x)] = reg[Owner(x)] \/ (reg'[Owner(x)] = r /\ Owner(x) = a)
    BY <1>a, <2>3 DEF RegOK
  <2> QED
    BY <1>0, <2>5, <2>6
<1>3. ASSUME NEW e \in Made, ReceiveDie(e) PROVE Goal
  <2>1. PICK a \in App : a = Owner(e)
    BY EndsOK
  <2>2. reg' = [reg EXCEPT ![a] = EmptyRegistry(End)]
    BY <1>3, <2>1 DEF ReceiveDie
  <2>3. reg'[Owner(x)] = reg[Owner(x)] \/ reg'[Owner(x)] = EmptyRegistry(End)
    BY <1>a, <2>2 DEF RegOK
  <2> QED
    BY <1>0, <2>3, EmptyOK
<1>4. ASSUME NEW e \in Made, DeleteSocket(e) PROVE Goal
  <2>1. PICK a \in App : a = Owner(e) /\ e \in End
    BY EndsOK
  <2> DEFINE r == delOneClient(reg[a], e)
  <2>2. reg' = [reg EXCEPT ![a] = r]
    BY <1>4, <2>1 DEF DeleteSocket
  <2>3. /\ DictSubs(r.dict, e) = {}
        /\ \A y : y # e => DictSubs(r.dict, y) = DictSubs(reg[a].dict, y)
    BY <2>1, SubsGone
  <2> HIDE DEF r
  <2>4. reg'[Owner(x)] = reg[Owner(x)] \/ (reg'[Owner(x)] = r /\ Owner(x) = a)
    BY <1>a, <2>2 DEF RegOK
  <2> QED
    BY <1>0, <2>3, <2>4
<1>5. ASSUME NEW e \in Made, Receive(e), ~ ReceiveAddRegexp(e), ~ ReceiveDelRegexp(e),
             ~ ReceiveDie(e)
      PROVE  UNCHANGED reg
  BY <1>5 DEF Receive, ReceiveBye, ReceiveError, ReceiveStartRegexp, ReceiveEndRegexp,
              ReceiveMsg, ReceiveIgnored
<1>6. ASSUME NEW e \in Made, HandleServer(e) \/ ReadEnd(e) PROVE UNCHANGED reg
  BY <1>6 DEF HandleServer, ReadEnd
<1>7. ASSUME NEW a \in App,
             IvyStart(a) \/ SocketSendBroadcast(a) \/ IvyStop(a) \/ Exit(a) \/ Call(a)
      PROVE  UNCHANGED reg
  BY <1>7 DEF IvyStart, SocketSendBroadcast, IvyStop, Exit, Call, IvyBindMsg, IvyUnbindMsg,
              IvyChangeMsg, IvySendMsg, IvySendDieMsg
<1>8. ASSUME NEW c \in App, NEW a \in App, BroadcastReceive(c, a) PROVE UNCHANGED reg
  BY <1>8 DEF BroadcastReceive
<1>9. ASSUME UNCHANGED vars PROVE UNCHANGED reg
  BY <1>9 DEF vars
<1> HIDE DEF Goal
<1>10. Goal
  BY <1>0, <1>1, <1>2, <1>3, <1>4, <1>5, <1>6, <1>7, <1>8, <1>9 DEF Next
<1> QED
  BY <1>10 DEF Goal

(* Binding b of the peer has reached end x, as a line or in the registry. *)
Heard(x, b) == Announces(x, b) \/ b \in DictSubs(reg[Owner(x)].dict, x)

(* Binding b of application p is known, to p or to one of its peers. *)
Known(p, b) ==
  \/ b \in ListSubs(binds[p])
  \/ \E x \in Made : Owner(Peer(x)) = p /\ Heard(x, b)

(* Where the lines to an end can come from, old or new. *)
LEMMA LineMoves ==
  ASSUME Shape, Held, [Next]_vars, NEW x \in Made, NEW l \in Elems(chan'[x])
  PROVE  l \in Elems(chan[x]) \/ Origin(x, l)
<1>1. chan[x] \in Seq(Lines)
  BY EndsOK DEF Shape, ChanOK
<1>2. CASE Grows(x)
  <2>1. PICK t \in Seq(Lines) : chan'[x] = chan[x] \o t /\ \A m \in Elems(t) : Origin(x, m)
    BY <1>2 DEF Grows
  <2>2. Elems(chan[x] \o t) = Elems(chan[x]) \cup Elems(t)
    BY <1>1, ConcatElems
  <2> QED
    BY <2>1, <2>2
<1>3. CASE Reads(x)
  <2> DEFINE s == Tail(chan[x])
  <2>1. PICK t \in Seq(Lines) : chan'[x] = s \o t /\ \A m \in Elems(t) : Origin(x, m)
    BY <1>3 DEF Reads
  <2>2. s \in Seq(Lines) /\ Elems(chan[x]) = {Head(chan[x])} \cup Elems(s)
    BY <1>1, <1>3, TailElems DEF Reads
  <2> HIDE DEF s
  <2>3. Elems(s \o t) = Elems(s) \cup Elems(t)
    BY <2>2, ConcatElems
  <2> QED
    BY <2>1, <2>2, <2>3
<1>4. CASE Cut(x)
  <2>1. PICK n \in 0 .. Len(chan[x]) : chan'[x] = SubSeq(chan[x], 1, n)
    BY <1>4 DEF Cut
  <2>2. Elems(SubSeq(chan[x], 1, n)) \subseteq Elems(chan[x])
    BY <1>1, PrefixElems
  <2> QED
    BY <2>1, <2>2
<1> QED
  BY <1>2, <1>3, <1>4, ChanMoves

(* The lines to a new end announce bindings of its peer, and nothing is     *)
(* registered for it.                                                       *)
LEMMA NewLines ==
  ASSUME Safe, [Next]_vars, NEW x \in Made' \ Made
  PROVE  /\ \A l \in Elems(chan'[x]) : l.type # "Msg"
         /\ \A b \in Binding : Announces(x, b)' => b \in ListSubs(binds'[Owner(Peer(x))'])
         /\ DictSubs(reg'[Owner(x)'].dict, x) = {}
<1> USE DEF Safe, Shape
<1>1. PICK b \in App, a \in App, i \in End, c \in End : Connection(b, a, i, c) /\ x \in {i, c}
  BY NewConnection
<1>2. /\ i \in End \ Made /\ c \in End \ Made /\ i # c /\ Peer(i) = c /\ Peer(c) = i
      /\ Owner(i)' = b /\ Owner(c)' = a /\ SendService(b, i)
      /\ sock' = [sock EXCEPT ![i] = "open", ![c] = "pending"] /\ UNCHANGED <<reg, binds>>
  BY <1>1 DEF Connection
<1>3. /\ \A y \in End : y # c => chan'[y] = chan[y]
      /\ chan'[c] = IF sock'[c] = "closed" THEN chan[c] ELSE chan[c] \o Service(b)
  BY <1>2, SendServiceOK
<1>4. DictSubs(reg'[Owner(x)'].dict, x) = {}
  <2>1. x \notin Made /\ reg' = reg /\ Owner(x)' \in App
    BY <1>1, <1>2
  <2>2. \A d \in App : x \notin ClientsOf(d)
    BY <2>1, EndsOfMade DEF Held, HeldOwn
  <2> QED
    BY <2>1, <2>2 DEF Tidy
<1>5. CASE x = i
  <2>1. chan'[i] = <<>>
    BY <1>2, <1>3 DEF ChanOK
  <2>2. Elems(chan'[i]) = {}
    BY <2>1 DEF Elems
  <2> QED
    BY <1>4, <1>5, <2>2 DEF Announces
<1>6. CASE x = c
  <2>1. chan[c] = <<>> /\ sock'[c] = "pending"
    BY <1>2 DEF ChanOK, SockOK
  <2>2. /\ Service(b) \in Seq(Lines)
        /\ Elems(Service(b)) = Elems(Announcements(b))
             \cup {Line("StartRegexp", Port[b], b), Line("EndRegexp", 0, b)}
    BY ServiceOK
  <2>3. chan'[c] = Service(b)
    <3>1. <<>> \o Service(b) = Service(b)
      BY <2>2, ConcatEmptySeq
    <3> QED
      BY <1>3, <2>1, <3>1
  <2>4. ASSUME NEW l \in Elems(Announcements(b))
        PROVE  \E n \in DOMAIN binds[b] : l = Line("AddRegexp", binds[b][n].id, binds[b][n].re)
    BY AnnouncementsOK DEF Elems
  <2>5. \A l \in Elems(Service(b)) : l.type # "Msg"
    BY <2>2, <2>4, LinesOK
  <2>6. ASSUME NEW d \in Binding, Line("AddRegexp", d.id, d.re) \in Elems(Service(b))
        PROVE  d \in ListSubs(binds[b])
    <3>1. Line("AddRegexp", d.id, d.re) \in Elems(Announcements(b))
      BY <2>2, <2>6, LinesOK
    <3>2. PICK n \in DOMAIN binds[b] :
            Line("AddRegexp", d.id, d.re) = Line("AddRegexp", binds[b][n].id, binds[b][n].re)
      BY <2>4, <3>1
    <3>3. d.id = binds[b][n].id /\ d.re = binds[b][n].re
      BY <3>2 DEF Line
    <3>4. binds[b][n] \in Binding
      BY ElementOfSeq, LenProperties DEF BindOK
    <3>5. d = binds[b][n]
      BY <3>3, <3>4 DEF Binding
    <3> QED
      BY <3>5 DEF ListSubs
  <2>7. Owner(Peer(x))' = b /\ binds' = binds
    BY <1>2, <1>6
  <2> QED
    BY <1>4, <1>6, <2>3, <2>5, <2>6, <2>7 DEF Announces
<1> QED
  BY <1>1, <1>5, <1>6

(* A binding becomes known by being bound. *)
LEMMA KnownMoves ==
  ASSUME Safe, [Next]_vars, NEW p \in App, NEW b \in Binding, Known(p, b)'
  PROVE  Known(p, b) \/ b \in ListSubs(binds'[p])
<1> USE DEF Safe
<1>1. CASE b \in ListSubs(binds'[p])
  BY <1>1
<1>2. ASSUME NEW x \in Made, Owner(Peer(x))' = p, Heard(x, b)'
      PROVE  Known(p, b) \/ b \in ListSubs(binds'[p])
  <2>1. Peer(x) \in Made /\ Owner(Peer(x)) = p /\ Owner(x)' = Owner(x) /\ Owner(x) \in App
    BY <1>2, EndsOK, LinkStep DEF Shape
  <2>2. Heard(x, b) => Known(p, b)
    BY <2>1 DEF Known
  <2>3. CASE Announces(x, b)'
    <3> DEFINE l == Line("AddRegexp", b.id, b.re)
    <3>1. l \in Elems(chan'[x])
      BY <2>3 DEF Announces
    <3>2. l \in Elems(chan[x]) \/ Origin(x, l)
      BY <3>1, LineMoves
    <3>3. CASE l \in Elems(chan[x])
      BY <2>2, <3>3 DEF Heard, Announces
    <3>4. CASE Origin(x, l)
      <4>1. l.type = "AddRegexp" /\ l.id = b.id /\ l.arg = b.re
        BY LinesOK
      <4> HIDE DEF l
      <4>2. PICK c \in ListSubs(binds'[p]) : c.id = b.id /\ c.re = b.re
        BY <2>1, <3>4, <4>1 DEF Origin
      <4>3. c \in Binding
        BY ShapeStep, ElementOfSeq, LenProperties DEF Shape, BindOK, ListSubs
      <4>4. c = b
        BY <4>2, <4>3 DEF Binding
      <4> QED
        BY <4>4
    <3> QED
      BY <3>2, <3>3, <3>4
  <2>4. CASE b \in DictSubs(reg'[Owner(x)'].dict, x)
    BY <2>1, <2>2, <2>4, DictMoves DEF Heard
  <2> QED
    BY <1>2, <2>3, <2>4 DEF Heard
<1>3. ASSUME NEW x \in Made' \ Made, Owner(Peer(x))' = p, Heard(x, b)'
      PROVE  b \in ListSubs(binds'[p])
  <2>1. /\ \A d \in Binding : Announces(x, d)' => d \in ListSubs(binds'[Owner(Peer(x))'])
        /\ DictSubs(reg'[Owner(x)'].dict, x) = {}
    BY NewLines
  <2> QED
    BY <1>3, <2>1 DEF Heard
<1> QED
  BY <1>1, <1>2, <1>3 DEF Known

(* The bindings known of an application have different ids, all given out. *)
IdsOK ==
  \A p \in App : \A b \in Binding : Known(p, b) =>
    /\ b.id < nextId[p]
    /\ \A c \in Binding : Known(p, c) /\ c.id = b.id => c.re = b.re

(* A message on its way answers an id that was given out, and matches the  *)
(* text of the binding with that id.                                       *)
MsgsOK ==
  \A x \in Made : \A l \in Elems(chan[x]) : l.type = "Msg" =>
    /\ l.id < nextId[Owner(x)]
    /\ \A b \in Binding : Known(Owner(x), b) /\ b.id = l.id => l.arg \in Match[b.re]

(* The dictionary and the list of every end, also of one that has gone. *)
Agree == \A a \in App : \A e \in End : DictSubs(reg[a].dict, e) = ListSubs(reg[a].regs[e])

(* What is known after a step: what was known, and one binding with the    *)
(* next id at most.                                                        *)
Fresh(p, re) ==
  /\ nextId'[p] \in {nextId[p], nextId[p] + 1}
  /\ \A b \in Binding : Known(p, b)' =>
       Known(p, b) \/ (nextId'[p] = nextId[p] + 1 /\ b = [id |-> nextId[p], re |-> re])

LEMMA KnownFresh ==
  ASSUME Safe, Still, [Next]_vars, NEW p \in App
  PROVE  \E re : Fresh(p, re)
<1>1. \A b \in Binding : Known(p, b)' => Known(p, b) \/ b \in ListSubs(binds'[p])
  BY KnownMoves
<1>2. \A b \in ListSubs(binds[p]) : Known(p, b)
  BY DEF Known
<1>3. CASE KeepsBinds(p)
  <2>1. Fresh(p, 0)
    BY <1>1, <1>2, <1>3 DEF Fresh, KeepsBinds
  <2> QED
    BY <2>1
<1>4. CASE AddsBind(p)
  <2>1. PICK re \in Re :
          /\ nextId'[p] = nextId[p] + 1
          /\ ListSubs(binds'[p]) \subseteq ListSubs(binds[p]) \cup {[id |-> nextId[p], re |-> re]}
    BY <1>4 DEF AddsBind
  <2>2. Fresh(p, re)
    BY <1>1, <1>2, <2>1 DEF Fresh
  <2> QED
    BY <2>2
<1> QED
  BY <1>3, <1>4, BindMoves DEF Safe

LEMMA IdsStep ==
  ASSUME Safe, Still, IdsOK, [Next]_vars
  PROVE  IdsOK'
<1> SUFFICES ASSUME NEW p \in App, NEW b \in Binding, Known(p, b)'
             PROVE  /\ b.id < nextId'[p]
                    /\ \A c \in Binding : Known(p, c)' /\ c.id = b.id => c.re = b.re
  BY DEF IdsOK
<1>1. PICK re : Fresh(p, re)
  BY KnownFresh
<1>2. nextId[p] \in Nat
  BY DEF Safe, Shape, BindOK
<1> DEFINE new == [id |-> nextId[p], re |-> re]
<1>3. new.id = nextId[p] /\ new.re = re
  OBVIOUS
<1> HIDE DEF new
<1>4. /\ nextId'[p] \in {nextId[p], nextId[p] + 1}
      /\ \A c \in Binding : Known(p, c)' =>
           Known(p, c) \/ (nextId'[p] = nextId[p] + 1 /\ c = new)
  BY <1>1 DEF Fresh, new
<1>5. \A c \in Binding : c.id \in Nat /\ (Known(p, c) => c.id < nextId[p] /\ c.id # nextId[p])
  BY <1>2 DEF IdsOK, Binding
<1>6. b.id < nextId'[p]
  BY <1>2, <1>3, <1>4, <1>5
<1>7. ASSUME NEW c \in Binding, Known(p, c)', c.id = b.id PROVE c.re = b.re
  <2>1. CASE Known(p, b) /\ Known(p, c)
    BY <1>7, <2>1 DEF IdsOK
  <2>2. CASE b = new /\ c = new
    BY <2>2
  <2>3. CASE (Known(p, b) /\ c = new) \/ (b = new /\ Known(p, c))
    BY <1>3, <1>5, <1>7, <2>3
  <2> QED
    BY <1>4, <1>7, <2>1, <2>2, <2>3
<1> QED
  BY <1>6, <1>7

LEMMA MsgsStep ==
  ASSUME Safe, Still, IdsOK, MsgsOK, [Next]_vars
  PROVE  MsgsOK'
<1> USE DEF Safe
<1> SUFFICES ASSUME NEW x \in Made', NEW l \in Elems(chan'[x]), l.type = "Msg"
             PROVE  /\ l.id < nextId'[Owner(x)']
                    /\ \A b \in Binding : Known(Owner(x), b)' /\ b.id = l.id => l.arg \in Match[b.re]
  BY DEF MsgsOK
<1>1. x \in Made
  BY NewLines
<1>2. Owner(x) \in App /\ Peer(x) \in Made /\ Peer(Peer(x)) = x /\ Owner(Peer(x)) \in App
  BY <1>1, EndsOK DEF Shape
<1>3. PICK p \in App : p = Owner(x)
  BY <1>2
<1>4. Owner(x)' = p
  BY <1>1, <1>3, LinkStep DEF Shape
<1>5. /\ l.id \in Nat /\ l.id < nextId[p]
      /\ \A b \in Binding : Known(p, b) /\ b.id = l.id => l.arg \in Match[b.re]
  <2>1. CASE l \in Elems(chan[x])
    <3>1. chan[x] \in Seq(Lines)
      BY <1>1, EndsOK DEF Shape, ChanOK
    <3>2. l \in Lines
      BY <2>1, <3>1, ElementOfSeq, LenProperties DEF Elems
    <3>3. l.id \in Nat
      BY <3>2, LineFields
    <3> QED
      BY <1>1, <1>3, <2>1, <3>3 DEF MsgsOK
  <2>2. CASE Origin(x, l)
    <3>1. PICK b \in DictSubs(reg[Owner(Peer(x))].dict, Peer(x)) :
             b.id = l.id /\ l.arg \in Match[b.re]
      BY <2>2 DEF Origin
    <3>2. b \in Binding
      <4>1. reg[Owner(Peer(x))].dict \in Dictionary(Re, End)
        BY <1>2 DEF Shape, RegOK, Registry
      <4> QED
        BY <4>1, SubsOK DEF Binding
    <3>3. Known(p, b)
      BY <1>2, <1>3 DEF Known, Heard
    <3>4. b.id < nextId[p] /\ \A c \in Binding : Known(p, c) /\ c.id = b.id => c.re = b.re
      BY <3>2, <3>3 DEF IdsOK
    <3>5. b.id \in Nat
      BY <3>2 DEF Binding
    <3> QED
      BY <3>1, <3>4, <3>5
  <2> QED
    BY <1>1, <2>1, <2>2, LineMoves
<1>6. PICK re : Fresh(p, re)
  BY KnownFresh
<1>7. nextId[p] \in Nat
  BY DEF Shape, BindOK
<1>8. nextId'[p] \in {nextId[p], nextId[p] + 1}
  BY <1>6 DEF Fresh
<1>9. l.id < nextId'[p] /\ l.id # nextId[p]
  BY <1>5, <1>7, <1>8
<1>10. ASSUME NEW b \in Binding, Known(p, b)', b.id = l.id PROVE l.arg \in Match[b.re]
  <2>1. Known(p, b) \/ b.id = nextId[p]
    BY <1>6, <1>10 DEF Fresh
  <2> QED
    BY <1>5, <1>9, <1>10, <2>1
<1>11. \A b : Known(Owner(x), b)' <=> Known(p, b)'
  BY <1>4 DEF Known
<1> QED
  BY <1>4, <1>9, <1>10, <1>11

LEMMA AgreeStep ==
  ASSUME Safe, IdsOK, Agree, [Next]_vars
  PROVE  Agree'
<1> USE DEF Safe, Shape
<1>a. \A a \in App : reg[a] \in Registry(Re, End) /\ Orderly(reg[a])
  BY DEF RegOK
<1>b. ASSUME NEW a \in App, NEW r, reg' = [reg EXCEPT ![a] = r],
             \A e \in End : DictSubs(r.dict, e) = ListSubs(r.regs[e])
      PROVE  Agree'
  <2>1. reg'[a] = r /\ \A b \in App : b # a => reg'[b] = reg[b]
    BY <1>b DEF RegOK
  <2> QED
    BY <1>b, <2>1 DEF Agree
<1>0. UNCHANGED reg => Agree'
  BY DEF Agree
<1>1. ASSUME NEW e \in Made, ReceiveAddRegexp(e) PROVE Agree'
  <2>1. PICK a \in App : a = Owner(e) /\ e \in End /\ Owner(Peer(e)) \in App
    BY EndsOK
  <2> DEFINE l == Head(chan[e])
  <2>2. l \in Lines /\ l.type = "AddRegexp" /\ chan[e] # <<>>
    BY <1>1, RestOK DEF ReceiveAddRegexp, Handles
  <2>3. PICK id \in Nat, re \in Re : id = l.id /\ re = l.arg
    BY <2>2, LineFields
  <2> DEFINE q == reg[a]
             r == addOrChangeRegexp(q, re, e, id)
             new == [id |-> id, re |-> re]
  <2>4. UNCHANGED reg \/ reg' = [reg EXCEPT ![a] = r]
    BY <1>1, <2>1, <2>3 DEF ReceiveAddRegexp
  <2>5. new \in Binding /\ Known(Owner(Peer(e)), new)
    <3>1. chan[e] \in Seq(Lines)
      BY <2>1 DEF ChanOK
    <3>2. l \in Elems(chan[e])
      BY <2>2, <3>1, TailElems
    <3>3. l = Line("AddRegexp", id, re)
      BY <2>2, <2>3 DEF Lines, Line
    <3>4. Announces(e, new)
      BY <3>2, <3>3 DEF Announces
    <3> QED
      BY <3>4 DEF Known, Heard, Binding
  <2>6. ASSUME NEW b \in DictSubs(q.dict, e), b.id = id PROVE b.re = re
    <3>1. b \in Binding
      <4>1. q.dict \in Dictionary(Re, End)
        BY <1>a DEF Registry
      <4> QED
        BY <4>1, SubsOK DEF Binding
    <3>2. Known(Owner(Peer(e)), b)
      BY <2>1 DEF Known, Heard
    <3>3. new.id = id /\ new.re = re
      OBVIOUS
    <3> HIDE DEF new
    <3> QED
      BY <2>1, <2>5, <2>6, <3>1, <3>2, <3>3 DEF IdsOK
  <2>7. q \in Registry(Re, End) /\ Orderly(q) /\ DictSubs(q.dict, e) = ListSubs(q.regs[e])
    BY <1>a, <2>1 DEF Agree
  <2>8. /\ \A y : y # e => DictSubs(r.dict, y) = DictSubs(q.dict, y)
        /\ \A y \in End : y # e => r.regs[y] = q.regs[y]
    BY <2>1, SubAdded
  <2>9. \A y \in End : DictSubs(q.dict, y) = ListSubs(q.regs[y])
    BY DEF Agree
  <2> HIDE DEF q
  <2>10. DictSubs(r.dict, e) = ListSubs(r.regs[e])
    BY <2>1, <2>6, <2>7, AddOrChangeAgrees
  <2> HIDE DEF r
  <2>11. \A y \in End : DictSubs(r.dict, y) = ListSubs(r.regs[y])
    BY <2>8, <2>9, <2>10
  <2> QED
    BY <1>0, <1>b, <2>4, <2>11
<1>2. ASSUME NEW e \in Made, ReceiveDelRegexp(e) PROVE Agree'
  <2>1. PICK a \in App : a = Owner(e) /\ e \in End
    BY EndsOK
  <2>2. PICK id \in Nat : id = Head(chan[e]).id
    BY <1>2, RestOK, LineFields DEF ReceiveDelRegexp, Handles
  <2> DEFINE q == reg[a]
             r == delRegexpForOneClient(q, e, id)
  <2>3. reg' = [reg EXCEPT ![a] = r]
    BY <1>2, <2>1, <2>2 DEF ReceiveDelRegexp
  <2>4. q \in Registry(Re, End) /\ Orderly(q)
    BY <1>a
  <2>5. \A y \in End : DictSubs(q.dict, y) = ListSubs(q.regs[y])
    BY DEF Agree
  <2> HIDE DEF q
  <2>d. /\ DictLess(q, r, e, id)
        /\ ListSubs(r.regs[e]) = {b \in ListSubs(q.regs[e]) : b.id # id}
        /\ \A x \in End : x # e => r.regs[x] = q.regs[x]
    BY <2>1, <2>4, DelRegexpForOneOK
  <2> HIDE DEF r
  <2>6. /\ \A x, b : b \in DictSubs(r.dict, x) <=>
             /\ b \in DictSubs(q.dict, x)
             /\ ~ (x = e /\ b.id = id /\ \E k \in DOMAIN q.regs[e] :
                                           q.regs[e][k].id = id /\ q.regs[e][k].re = b.re)
        /\ ListSubs(r.regs[e]) = {b \in ListSubs(q.regs[e]) : b.id # id}
        /\ \A x \in End : x # e => r.regs[x] = q.regs[x]
    BY <2>d DEF DictLess
  <2> HIDE DEF r
  <2>7. \A b \in ListSubs(q.regs[e]) : \E k \in DOMAIN q.regs[e] : q.regs[e][k] = b
    BY DEF ListSubs
  <2>8. DictSubs(r.dict, e) = ListSubs(r.regs[e])
    <3>1. \A b : b \in DictSubs(r.dict, e) <=> b \in ListSubs(q.regs[e]) /\ b.id # id
      BY <2>1, <2>5, <2>6, <2>7
    <3> QED
      BY <2>6, <3>1
  <2>9. ASSUME NEW x, x # e PROVE DictSubs(r.dict, x) = DictSubs(q.dict, x)
    <3>1. \A b : b \in DictSubs(r.dict, x) <=> b \in DictSubs(q.dict, x)
      BY <2>6, <2>9
    <3> QED
      BY <3>1
  <2>10. \A y \in End : DictSubs(r.dict, y) = ListSubs(r.regs[y])
    BY <2>5, <2>6, <2>8, <2>9
  <2> QED
    BY <1>b, <2>3, <2>10
<1>3. ASSUME NEW e \in Made, ReceiveDie(e) PROVE Agree'
  <2>1. PICK a \in App : a = Owner(e)
    BY EndsOK
  <2>2. reg' = [reg EXCEPT ![a] = EmptyRegistry(End)]
    BY <1>3, <2>1 DEF ReceiveDie
  <2>3. \A e1 \in End : ListSubs(EmptyRegistry(End).regs[e1]) = {}
    BY DEF ListSubs, EmptyRegistry
  <2> QED
    BY <1>b, <2>2, <2>3, EmptyOK
<1>4. ASSUME NEW e \in Made, DeleteSocket(e) PROVE Agree'
  <2>1. PICK a \in App : a = Owner(e) /\ e \in End
    BY EndsOK
  <2> DEFINE r == delOneClient(reg[a], e)
  <2>2. reg' = [reg EXCEPT ![a] = r]
    BY <1>4, <2>1 DEF DeleteSocket
  <2>3. /\ DictSubs(r.dict, e) = {} /\ r.regs[e] = <<>>
        /\ \A y : y # e => DictSubs(r.dict, y) = DictSubs(reg[a].dict, y)
        /\ \A y \in End : y # e => r.regs[y] = reg[a].regs[y]
    BY <2>1, SubsGone
  <2> HIDE DEF r
  <2>4. ListSubs(<<>>) = {}
    BY DEF ListSubs
  <2>5. \A y \in End : DictSubs(r.dict, y) = ListSubs(r.regs[y])
    BY <2>3, <2>4 DEF Agree
  <2> QED
    BY <1>b, <2>2, <2>5
<1>5. ASSUME NEW e \in Made, Receive(e), ~ ReceiveAddRegexp(e), ~ ReceiveDelRegexp(e),
             ~ ReceiveDie(e)
      PROVE  UNCHANGED reg
  BY <1>5 DEF Receive, ReceiveBye, ReceiveError, ReceiveStartRegexp, ReceiveEndRegexp,
              ReceiveMsg, ReceiveIgnored
<1>6. ASSUME NEW e \in Made, HandleServer(e) \/ ReadEnd(e) PROVE UNCHANGED reg
  BY <1>6 DEF HandleServer, ReadEnd
<1>7. ASSUME NEW a \in App,
             IvyStart(a) \/ SocketSendBroadcast(a) \/ IvyStop(a) \/ Exit(a) \/ Call(a)
      PROVE  UNCHANGED reg
  BY <1>7 DEF IvyStart, SocketSendBroadcast, IvyStop, Exit, Call, IvyBindMsg, IvyUnbindMsg,
              IvyChangeMsg, IvySendMsg, IvySendDieMsg
<1>8. ASSUME NEW c \in App, NEW a \in App, BroadcastReceive(c, a) PROVE UNCHANGED reg
  BY <1>8 DEF BroadcastReceive
<1>9. ASSUME UNCHANGED vars PROVE UNCHANGED reg
  BY <1>9 DEF vars
<1> QED
  BY <1>0, <1>1, <1>2, <1>3, <1>4, <1>5, <1>6, <1>7, <1>8, <1>9 DEF Next

Traced == Safe /\ Still /\ IdsOK /\ MsgsOK /\ Agree

LEMMA TracedInit ==
  ASSUME MaxChanges = 0
  PROVE  Init => Traced
<1> SUFFICES ASSUME Init PROVE Traced
  OBVIOUS
<1>1. Safe
  BY SafeInit
<1>2. Still
  BY DEF Init, Still
<1>3. Made = {} /\ \A a \in App : binds[a] = <<>> /\ reg[a] = EmptyRegistry(End)
  BY DEF Init, Made
<1>4. IdsOK
  <2>1. \A p \in App : ListSubs(binds[p]) = {}
    BY <1>3 DEF ListSubs
  <2> QED
    BY <1>3, <2>1 DEF IdsOK, Known
<1>5. MsgsOK
  BY <1>3 DEF MsgsOK
<1>6. Agree
  <2>1. \A e \in End : ListSubs(EmptyRegistry(End).regs[e]) = {}
    BY DEF ListSubs, EmptyRegistry
  <2> QED
    BY <1>3, <2>1, EmptyOK DEF Agree
<1> QED
  BY <1>1, <1>2, <1>4, <1>5, <1>6 DEF Traced

LEMMA TracedStep == Traced /\ [Next]_vars => Traced'
<1> SUFFICES ASSUME Traced, [Next]_vars PROVE Traced'
  OBVIOUS
<1>1. Safe /\ Still /\ IdsOK /\ MsgsOK /\ Agree
  BY DEF Traced
<1>2. Still'
  <2>1. CASE App = {}
    <3>1. Made = {}
      BY <1>1, <2>1, EndsOK DEF Safe, Shape
    <3>2. UNCHANGED vars
      BY <2>1, <3>1 DEF Next
    <3> QED
      BY <1>1, <3>2 DEF vars, Still
  <2>2. CASE App # {}
    BY <1>1, <2>2, BindMoves DEF Safe
  <2> QED
    BY <2>1, <2>2
<1> QED
  BY <1>1, <1>2, SafeStep, IdsStep, MsgsStep, AgreeStep DEF Traced

(* CallbackMatches for every number of applications, connections, bindings *)
(* and messages, as long as no program calls IvyChangeMsg: a message that   *)
(* arrives is never handed to a binding that does not match it, whatever    *)
(* was bound and unbound while it was on its way (recv_id of IvyBindMsg,    *)
(* the Msg case of Receive).                                                *)
THEOREM CallbacksMatch ==
  ASSUME MaxChanges = 0
  PROVE  Spec => []CallbackMatches
<1>1. Traced => CallbackMatches
  <2> SUFFICES ASSUME Traced, NEW e \in Made, chan[e] # <<>>, Head(chan[e]).type = "Msg",
                      NEW n \in DOMAIN binds[Owner(e)], binds[Owner(e)][n].id = Head(chan[e]).id
               PROVE  Head(chan[e]).arg \in Match[binds[Owner(e)][n].re]
    BY DEF CallbackMatches
  <2>1. chan[e] \in Seq(Lines) /\ Owner(e) \in App
    BY EndsOK DEF Traced, Safe, Shape, ChanOK
  <2>2. Head(chan[e]) \in Elems(chan[e])
    BY <2>1, TailElems
  <2>3. binds[Owner(e)][n] \in Binding
    BY <2>1, ElementOfSeq, LenProperties DEF Traced, Safe, Shape, BindOK
  <2>4. Known(Owner(e), binds[Owner(e)][n])
    BY DEF Known, ListSubs
  <2> QED
    BY <2>2, <2>3, <2>4 DEF Traced, MsgsOK
<1> QED
  BY <1>1, TracedInit, TracedStep, PTL DEF Spec

(* ListsAgree likewise: the dictionary and the lists of the clients, which  *)
(* addRegexp, changeRegexp and delRegexpForOneClient update one after the   *)
(* other, hold the same subscriptions, in every order of binding,           *)
(* unbinding, connecting and closing.                                       *)
THEOREM ListsAlwaysAgree ==
  ASSUME MaxChanges = 0
  PROVE  Spec => []ListsAgree
<1>1. Traced => ListsAgree
  <2> SUFFICES ASSUME Traced, NEW a \in App, NEW e \in ClientsOf(a)
               PROVE  DictSubs(reg[a].dict, e) = ListSubs(reg[a].regs[e])
    BY DEF ListsAgree
  <2>1. e \in End
    BY EndsOfMade, EndsOK DEF Traced, Safe, Shape, Held, HeldOwn
  <2> QED
    BY <2>1 DEF Traced, Agree
<1> QED
  BY <1>1, TracedInit, TracedStep, PTL DEF Spec
-----------------------------------------------------------------------------
(* The list of bindings of an application: every id is under recv_id, and   *)
(* no two bindings have the same one.                                       *)

Tagged(s, n) ==
  \A i \in DOMAIN s : s[i].id < n /\ \A j \in DOMAIN s : s[i].id = s[j].id => i = j

LEMMA TaggedFront ==
  ASSUME NEW s \in Seq(Binding), NEW n \in Nat, Tagged(s, n), NEW b \in Binding, b.id = n
  PROVE  Tagged(<<b>> \o s, n + 1) /\ ListSubs(<<b>> \o s) = ListSubs(s) \cup {b}
<1> DEFINE t == <<b>>
           u == t \o s
<1>1. t \in Seq(Binding) /\ Len(t) = 1 /\ t[1] = b /\ Elems(t) = {b}
  BY SingleElems
<1> HIDE DEF t
<1>2. /\ u \in Seq(Binding) /\ Len(u) = 1 + Len(s) /\ Elems(u) = {b} \cup Elems(s)
      /\ u[1] = b /\ \A i \in 1 .. Len(s) : u[1 + i] = s[i]
  <2>1. /\ u \in Seq(Binding) /\ Len(u) = Len(t) + Len(s) /\ Elems(u) = Elems(t) \cup Elems(s)
        /\ \A i \in 1 .. Len(t) : u[i] = t[i]
        /\ \A i \in 1 .. Len(s) : u[Len(t) + i] = s[i]
    <3>1. t \in Seq(Binding)
      BY <1>1
    <3> QED
      BY <3>1, ConcatElems
  <2> HIDE DEF u
  <2> QED
    BY <1>1, <2>1
<1> HIDE DEF u
<1>3. Len(s) \in Nat /\ DOMAIN s = 1 .. Len(s) /\ DOMAIN u = 1 .. 1 + Len(s)
  BY <1>2, LenProperties
<1>4. \A i \in DOMAIN s : s[i].id \in Nat /\ s[i].id < n
  <2>1. \A i \in DOMAIN s : s[i] \in Binding
    BY <1>3, ElementOfSeq
  <2> QED
    BY <2>1 DEF Tagged, Binding
<1>5. \A i \in DOMAIN u : (i = 1 /\ u[i] = b) \/ (i - 1 \in DOMAIN s /\ u[i] = s[i - 1])
  <2> SUFFICES ASSUME NEW i \in 1 .. 1 + Len(s), i # 1
               PROVE  i - 1 \in DOMAIN s /\ u[i] = s[i - 1]
    BY <1>2, <1>3
  <2>1. i - 1 \in 1 .. Len(s) /\ i = 1 + (i - 1)
    BY <1>3
  <2> QED
    BY <1>2, <1>3, <2>1
<1>6. Tagged(u, n + 1)
  <2> SUFFICES ASSUME NEW i \in DOMAIN u
               PROVE  u[i].id < n + 1 /\ \A j \in DOMAIN u : u[i].id = u[j].id => i = j
    BY DEF Tagged
  <2>1. u[i].id < n + 1
    BY <1>4, <1>5
  <2>2. ASSUME NEW j \in DOMAIN u, u[i].id = u[j].id PROVE i = j
    <3>1. CASE i = 1 /\ u[i] = b
      BY <1>4, <1>5, <2>2, <3>1
    <3>2. CASE i - 1 \in DOMAIN s /\ u[i] = s[i - 1]
      <4>1. j # 1 /\ j - 1 \in DOMAIN s /\ u[j] = s[j - 1]
        BY <1>2, <1>4, <1>5, <2>2, <3>2
      <4>2. i - 1 = j - 1
        BY <2>2, <3>2, <4>1 DEF Tagged
      <4> QED
        BY <1>3, <4>2
    <3> QED
      BY <1>5, <3>1, <3>2
  <2> QED
    BY <2>1, <2>2
<1> QED
  BY <1>2, <1>6 DEF u, t, ListSubs, Elems

LEMMA TaggedLess ==
  ASSUME NEW s \in Seq(Binding), NEW n \in Nat, Tagged(s, n), NEW m \in DOMAIN s,
         NEW K, K = {j \in DOMAIN s : s[j] # s[m]}
  PROVE  /\ Tagged(Sublist(s, K), n)
         /\ ListSubs(Sublist(s, K)) = {b \in ListSubs(s) : b.id # s[m].id}
<1> DEFINE u == Sublist(s, K)
<1>1. Len(s) \in Nat /\ DOMAIN s = 1 .. Len(s) /\ K \in SUBSET (1 .. Len(s))
  BY LenProperties
<1>2. /\ u \in Seq(Binding) /\ Len(u) = Cardinality(K) /\ Cardinality(K) \in Nat
      /\ \E p : Positions(p, s, K)
  BY <1>1, SublistOK
<1>3. {u[i] : i \in DOMAIN u} = {s[i] : i \in K}
  BY <1>1, SublistElements
<1>4. DOMAIN u = 1 .. Cardinality(K)
  BY <1>2, LenProperties
<1>5. PICK p : Positions(p, s, K)
  BY <1>2
<1>6. /\ \A i \in DOMAIN u : p[i] \in K /\ u[i] = s[p[i]]
      /\ \A i, j \in DOMAIN u : p[i] = p[j] => i = j
  BY <1>4, <1>5 DEF Positions
<1> HIDE DEF u
<1>7. Tagged(u, n)
  BY <1>1, <1>6 DEF Tagged
<1>8. {s[i] : i \in K} = {b \in ListSubs(s) : b.id # s[m].id}
  BY <1>1 DEF Tagged, ListSubs
<1> QED
  BY <1>3, <1>7, <1>8 DEF u, ListSubs

LEMMA TaggedChange ==
  ASSUME NEW s, NEW n, Tagged(s, n), NEW m \in DOMAIN s, NEW b, b.id = s[m].id,
         NEW t, DOMAIN t = DOMAIN s, t[m] = b, \A i \in DOMAIN s : i # m => t[i] = s[i]
  PROVE  Tagged(t, n) /\ b \in ListSubs(t) /\ ListSubs(t) \subseteq ListSubs(s) \cup {b}
<1>1. \A i \in DOMAIN s : t[i].id = s[i].id
  OBVIOUS
<1>2. Tagged(t, n)
  BY <1>1 DEF Tagged
<1>3. b \in ListSubs(t) /\ ListSubs(t) \subseteq ListSubs(s) \cup {b}
  BY DEF ListSubs
<1> QED
  BY <1>2, <1>3

(* What the calls of an application do to its list, and tell its peers. *)
Add(b) == Line("AddRegexp", b.id, b.re)
BindIds == \A a \in App : Tagged(binds[a], nextId[a])
Others(a) == \A c \in App : c # a => binds'[c] = binds[c] /\ nextId'[c] = nextId[c]

LEMMA BindMsgOK ==
  ASSUME BindOK, BindIds, NEW a \in App, NEW re \in Re, IvyBindMsg(a, re)
  PROVE  \E b \in Binding : /\ b.id = nextId[a] /\ nextId'[a] = nextId[a] + 1
                            /\ Tagged(binds'[a], nextId'[a])
                            /\ ListSubs(binds'[a]) = ListSubs(binds[a]) \cup {b}
                            /\ Others(a) /\ chan' = ToAll(a, Add(b))
<1> DEFINE b == [id |-> nextId[a], re |-> re]
<1>1. binds[a] \in Seq(Binding) /\ nextId[a] \in Nat
  BY DEF BindOK
<1>2. b \in Binding /\ b.id = nextId[a] /\ b.re = re
  BY <1>1 DEF Binding
<1>3. /\ binds' = [binds EXCEPT ![a] = <<b>> \o @]
      /\ nextId' = [nextId EXCEPT ![a] = @ + 1]
      /\ chan' = ToAll(a, Line("AddRegexp", nextId[a], re))
  BY DEF IvyBindMsg, RecvId
<1> HIDE DEF b
<1>4. binds'[a] = <<b>> \o binds[a] /\ nextId'[a] = nextId[a] + 1 /\ Others(a)
  BY <1>3 DEF BindOK, Others
<1>5. /\ Tagged(<<b>> \o binds[a], nextId[a] + 1)
      /\ ListSubs(<<b>> \o binds[a]) = ListSubs(binds[a]) \cup {b}
  BY <1>1, <1>2, TaggedFront DEF BindIds
<1> QED
  BY <1>2, <1>3, <1>4, <1>5 DEF Add

LEMMA UnbindMsgOK ==
  ASSUME BindOK, BindIds, NEW a \in App, NEW n \in DOMAIN binds[a], IvyUnbindMsg(a, n)
  PROVE  \E id \in Nat : /\ id < nextId[a] /\ nextId'[a] = nextId[a]
                         /\ Tagged(binds'[a], nextId'[a])
                         /\ ListSubs(binds'[a]) = {b \in ListSubs(binds[a]) : b.id # id}
                         /\ Others(a) /\ chan' = ToAll(a, Line("DelRegexp", id, a))
<1> DEFINE s == binds[a]
           K == {j \in DOMAIN s : s[j] # s[n]}
<1>1. s \in Seq(Binding) /\ nextId[a] \in Nat
  BY DEF BindOK
<1>2. s[n] \in Binding /\ s[n].id \in Nat /\ s[n].id < nextId[a]
  <2>1. s[n] \in Binding
    BY <1>1, LenProperties, ElementOfSeq
  <2> QED
    BY <2>1 DEF Binding, BindIds, Tagged
<1>3. /\ binds' = [binds EXCEPT ![a] = Sublist(s, K)] /\ UNCHANGED nextId
      /\ chan' = ToAll(a, Line("DelRegexp", s[n].id, a))
  BY DEF IvyUnbindMsg
<1>4. Tagged(s, nextId[a])
  BY DEF BindIds
<1>5. n \in DOMAIN s
  OBVIOUS
<1> HIDE DEF s
<1>6. /\ Tagged(Sublist(s, K), nextId[a])
      /\ ListSubs(Sublist(s, K)) = {b \in ListSubs(s) : b.id # s[n].id}
  BY <1>1, <1>4, <1>5, TaggedLess
<1> HIDE DEF K
<1>7. binds'[a] = Sublist(s, K) /\ nextId'[a] = nextId[a] /\ Others(a)
  BY <1>3 DEF BindOK, Others
<1>8. /\ s[n].id \in Nat /\ s[n].id < nextId[a] /\ nextId'[a] = nextId[a]
      /\ Tagged(binds'[a], nextId'[a])
      /\ ListSubs(binds'[a]) = {b \in ListSubs(binds[a]) : b.id # s[n].id}
      /\ Others(a) /\ chan' = ToAll(a, Line("DelRegexp", s[n].id, a))
  BY <1>2, <1>3, <1>6, <1>7 DEF s
<1> QED
  BY <1>8

LEMMA ChangeMsgOK ==
  ASSUME BindOK, BindIds, NEW a \in App, NEW n \in DOMAIN binds[a], NEW re \in Re,
         IvyChangeMsg(a, n, re)
  PROVE  /\ ~ Still
         /\ \E b \in Binding : /\ \E old \in ListSubs(binds[a]) : old.id = b.id
                               /\ nextId'[a] = nextId[a] /\ Tagged(binds'[a], nextId'[a])
                               /\ b \in ListSubs(binds'[a])
                               /\ ListSubs(binds'[a]) \subseteq ListSubs(binds[a]) \cup {b}
                               /\ Others(a) /\ chan' = ToAll(a, Add(b))
<1> DEFINE s == binds[a]
           b == [id |-> s[n].id, re |-> re]
           t == [s EXCEPT ![n].re = re]
<1>1. s \in Seq(Binding) /\ nextId[a] \in Nat /\ Tagged(s, nextId[a]) /\ n \in DOMAIN s
  BY DEF BindOK, BindIds
<1>2. /\ binds' = [binds EXCEPT ![a] = t] /\ UNCHANGED nextId /\ budget.change > 0
      /\ chan' = ToAll(a, Line("AddRegexp", s[n].id, re))
  BY DEF IvyChangeMsg
<1>3. b.id = s[n].id /\ b.re = re /\ s[n] \in ListSubs(s)
  BY <1>1 DEF ListSubs
<1>a. s[n] \in Binding
  BY <1>1, LenProperties, ElementOfSeq
<1>b. b \in Binding
  BY <1>a DEF Binding
<1>c. DOMAIN t = DOMAIN s /\ t[n] = b /\ \A i \in DOMAIN s : i # n => t[i] = s[i]
  <2>1. DOMAIN t = DOMAIN s /\ t[n] = [s[n] EXCEPT !.re = re]
        /\ \A i \in DOMAIN s : i # n => t[i] = s[i]
    BY <1>1
  <2>2. [s[n] EXCEPT !.re = re] = b
    BY <1>a DEF Binding
  <2> QED
    BY <2>1, <2>2
<1> HIDE DEF s, b, t
<1>4. Tagged(t, nextId[a]) /\ b \in ListSubs(t) /\ ListSubs(t) \subseteq ListSubs(s) \cup {b}
  BY <1>1, <1>3, <1>c, TaggedChange
<1>5. binds'[a] = t /\ nextId'[a] = nextId[a] /\ Others(a)
  BY <1>2 DEF BindOK, Others
<1>6. ~ Still
  BY <1>2 DEF Still
<1> QED
  BY <1>2, <1>3, <1>4, <1>5, <1>6, <1>b DEF Add, s

LEMMA BindIdsStep ==
  ASSUME Shape, BindIds, [Next]_vars
  PROVE  BindIds'
<1> USE DEF Shape
<1>0. ASSUME UNCHANGED <<binds, nextId>> PROVE BindIds'
  BY <1>0 DEF BindIds
<1>1. ASSUME NEW a \in App, Tagged(binds'[a], nextId'[a]), Others(a) PROVE BindIds'
  BY <1>1 DEF BindIds, Others
<1>2. ASSUME NEW a \in App, Call(a) PROVE BindIds'
  <2>1. ASSUME NEW re \in Re, IvyBindMsg(a, re) PROVE BindIds'
    BY <1>1, <2>1, BindMsgOK
  <2>2. ASSUME NEW n \in DOMAIN binds[a], IvyUnbindMsg(a, n) PROVE BindIds'
    BY <1>1, <2>2, UnbindMsgOK
  <2>3. ASSUME NEW n \in DOMAIN binds[a], NEW re \in Re, IvyChangeMsg(a, n, re) PROVE BindIds'
    BY <1>1, <2>3, ChangeMsgOK
  <2>4. ASSUME (\E m \in Message : IvySendMsg(a, m)) \/ \E e \in EndsOf(a) : IvySendDieMsg(a, e)
        PROVE  BindIds'
    BY <1>0, <2>4 DEF IvySendMsg, IvySendDieMsg
  <2> QED
    BY <1>2, <2>1, <2>2, <2>3, <2>4 DEF Call
<1>3. ASSUME NEW b \in App, NEW a \in App, BroadcastReceive(b, a) PROVE UNCHANGED <<binds, nextId>>
  BY <1>3 DEF BroadcastReceive
<1>4. ASSUME NEW a \in App, IvyStart(a) \/ SocketSendBroadcast(a) \/ IvyStop(a) \/ Exit(a)
      PROVE  UNCHANGED <<binds, nextId>>
  BY <1>4 DEF IvyStart, SocketSendBroadcast, IvyStop, Exit
<1>5. ASSUME NEW e \in Made, HandleServer(e) \/ Receive(e) \/ ReadEnd(e) \/ DeleteSocket(e)
      PROVE  UNCHANGED <<binds, nextId>>
  BY <1>5 DEF HandleServer, ReadEnd, DeleteSocket,
              Receive, ReceiveBye, ReceiveError, ReceiveAddRegexp, ReceiveDelRegexp,
              ReceiveStartRegexp, ReceiveEndRegexp, ReceiveMsg, ReceiveDie, ReceiveIgnored
<1>6. ASSUME UNCHANGED vars PROVE UNCHANGED <<binds, nextId>>
  BY <1>6 DEF vars
<1> QED
  BY <1>0, <1>2, <1>3, <1>4, <1>5, <1>6 DEF Next

(* The history of what was announced holds bindings. *)
AnnOK == announced \in [End -> SUBSET Binding]

LEMMA AnnStep ==
  ASSUME Shape, AnnOK, [Next]_vars
  PROVE  AnnOK'
<1> USE DEF Shape
<1>0. ASSUME UNCHANGED announced PROVE AnnOK'
  BY <1>0 DEF AnnOK
<1>1. ASSUME NEW a \in App, NEW e \in End, SendService(a, e) PROVE AnnOK'
  <2>1. binds[a] \in Seq(Binding)
    BY DEF BindOK
  <2>2. ListSubs(binds[a]) \subseteq Binding
    BY <2>1, LenProperties, ElementOfSeq DEF ListSubs
  <2>3. announced' = [announced EXCEPT ![e] = ListSubs(binds[a])]
    BY <1>1 DEF SendService
  <2> QED
    BY <2>2, <2>3 DEF AnnOK
<1>2. ASSUME NEW b \in App, NEW a \in App, BroadcastReceive(b, a) PROVE AnnOK'
  <2>1. ASSUME NEW k \in {Len(link) + 1}, k =< MaxConn, SendService(b, <<k, "i">>)
        PROVE  AnnOK'
    BY <1>1, <2>1, NewEnds
  <2> QED
    BY <1>0, <1>2, <2>1, BroadcastCases
<1>3. ASSUME NEW e \in Made, HandleServer(e) PROVE AnnOK'
  <2>1. Owner(e) \in App /\ e \in End
    BY EndsOK
  <2>2. UNCHANGED announced \/ SendService(Owner(e), e)
    BY <1>3 DEF HandleServer
  <2> QED
    BY <1>0, <1>1, <2>1, <2>2
<1>4. ASSUME NEW a \in App, Call(a) PROVE UNCHANGED announced
  BY <1>4 DEF Call, IvyBindMsg, IvyUnbindMsg, IvyChangeMsg, IvySendMsg, IvySendDieMsg
<1>5. ASSUME NEW a \in App, IvyStart(a) \/ SocketSendBroadcast(a) \/ IvyStop(a) \/ Exit(a)
      PROVE  UNCHANGED announced
  BY <1>5 DEF IvyStart, SocketSendBroadcast, IvyStop, Exit
<1>6. ASSUME NEW e \in Made, Receive(e) \/ ReadEnd(e) \/ DeleteSocket(e)
      PROVE  UNCHANGED announced
  BY <1>6 DEF ReadEnd, DeleteSocket,
              Receive, ReceiveBye, ReceiveError, ReceiveAddRegexp, ReceiveDelRegexp,
              ReceiveStartRegexp, ReceiveEndRegexp, ReceiveMsg, ReceiveDie, ReceiveIgnored
<1>7. ASSUME UNCHANGED vars PROVE UNCHANGED announced
  BY <1>7 DEF vars
<1> QED
  BY <1>0, <1>2, <1>3, <1>4, <1>5, <1>6, <1>7 DEF Next

(* An end whose lines are entered, or will be: it waits to be accepted, or *)
(* it has a client record and is not ignored.                              *)
Attends(x) ==
  Open(x) /\ (sock[x] = "pending" \/ (~ cli[x].ignore /\ x \in ClientsOf(Owner(x))))

LEMMA AttendsWanes ==
  ASSUME Shape, [Next]_vars, NEW x \in Made, Attends(x)'
  PROVE  Attends(x)
<1> USE DEF Shape
<1>1. x \in End /\ Peer(x) \in Made /\ Peer(Peer(x)) = x /\ cli[x].ignore \in BOOLEAN
  BY EndsOK DEF CliOK, Client
<1>2. Owner(x)' = Owner(x)
  BY LinkStep
<1>3. Open(x) /\ (sock'[x] = sock[x] \/ sock'[x] # "pending")
  BY SockWanes DEF Attends, Open
<1>4. ASSUME sock[x] # "pending" PROVE ~ cli[x].ignore /\ x \in ClientsOf(Owner(x))
  <2>1. ~ cli'[x].ignore /\ x \in ClientsOf(Owner(x))'
    BY <1>2, <1>3, <1>4 DEF Attends
  <2>2. ~ cli[x].ignore
    BY <1>1, <1>4, <2>1, CliWanes
  <2>3. x \in ClientsOf(Owner(x)) \/ Greets(Peer(x))
    BY <1>1, <1>2, <2>1, ClientsGrow
  <2>4. ~ Greets(Peer(x))
    BY <1>1, <1>4 DEF Greets
  <2> QED
    BY <2>2, <2>3, <2>4
<1> QED
  BY <1>3, <1>4 DEF Attends
-----------------------------------------------------------------------------
(* How a step changes, for an end that stays attended, the lines on their  *)
(* way to it, what it has registered, and the bindings of its peer.         *)

(* What end x has registered, and what its peer has bound. *)
Subs(x) == DictSubs(reg[Owner(x)].dict, x)
Bound(x) == ListSubs(binds[Owner(Peer(x))])

Plain(t) == \A l \in Elems(t) : l.type \notin {"AddRegexp", "DelRegexp", "EndRegexp"}

Steady(x) == /\ Bound(x)' = Bound(x) /\ nextId'[Owner(Peer(x))] = nextId[Owner(Peer(x))]
             /\ announced'[Peer(x)] = announced[Peer(x)]

(* The lines s, and behind them lines that say nothing of bindings. *)
Gets(x, s) == \E t \in Seq(Lines) : chan'[x] = s \o t /\ Plain(t)

(* Line l, if the peer has a client record to send it to. *)
Told(x, l) ==
  chan'[x] = IF Peer(x) \in ClientsOf(Owner(Peer(x))) THEN chan[x] \o <<l>> ELSE chan[x]

(* The effect of the first line. *)
Takes(x) ==
  LET l == Head(chan[x])
  IN  /\ l.type = "AddRegexp" =>
           Subs(x)' = IF l.arg \in Filtered[Owner(x)]
                        THEN Subs(x) ELSE Subs(x) \cup {[id |-> l.id, re |-> l.arg]}
      /\ l.type = "DelRegexp" =>
           /\ Subs(x)' \subseteq Subs(x) /\ \A b \in Subs(x) : b.id # l.id => b \in Subs(x)'
           /\ Agree => \A b \in Subs(x)' : b.id # l.id
      /\ l.type \notin {"AddRegexp", "DelRegexp"} => Subs(x)' = Subs(x)
      /\ l.type = "EndRegexp" => ~ Waiting(x)'

Idles(x) == Steady(x) /\ Subs(x)' = Subs(x) /\ Gets(x, chan[x])
Hears(x) == Steady(x) /\ chan[x] # <<>> /\ Takes(x) /\ Gets(x, Tail(chan[x]))
Shrinks(x) ==
  /\ ~ Fed(x)' /\ sock'[Peer(x)] # "pending"
  /\ Subs(x)' = Subs(x) /\ announced'[Peer(x)] = announced[Peer(x)]
  /\ \E n \in 0 .. Len(chan[x]) : chan'[x] = SubSeq(chan[x], 1, n)
Binds(x) == \E b \in Binding :
  LET p == Owner(Peer(x))
  IN  /\ Subs(x)' = Subs(x) /\ announced'[Peer(x)] = announced[Peer(x)] /\ Told(x, Add(b))
      /\ b \in Bound(x)' /\ Bound(x)' \subseteq Bound(x) \cup {b}
      /\ \/ b.id = nextId[p] /\ nextId'[p] = nextId[p] + 1 /\ Bound(x) \subseteq Bound(x)'
         \/ ~ Still /\ nextId'[p] = nextId[p] /\ \E old \in Bound(x) : old.id = b.id
Unbinds(x) == \E id \in Nat :
  LET p == Owner(Peer(x))
  IN  /\ Subs(x)' = Subs(x) /\ announced'[Peer(x)] = announced[Peer(x)]
      /\ Told(x, Line("DelRegexp", id, p)) /\ id < nextId[p] /\ nextId'[p] = nextId[p]
      /\ Bound(x)' = {b \in Bound(x) : b.id # id}

LEMMA LineSent ==
  ASSUME NEW ch \in [End -> Seq(Lines)], NEW S, NEW l \in Lines, NEW x \in End
  PROVE  SendLine(ch, S, l)[x] = IF Peer(x) \in S /\ Open(x) THEN ch[x] \o <<l>> ELSE ch[x]
<1> DEFINE lines == [y \in S |-> <<l>>]
<1>1. \A y \in S : lines[y] = <<l>>
  OBVIOUS
<1> HIDE DEF lines
<1>2. SendOn(ch, S, lines)[x] = IF Peer(x) \in S /\ Open(x) THEN ch[x] \o lines[Peer(x)] ELSE ch[x]
  BY DEF SendOn
<1> QED
  BY <1>1, <1>2 DEF SendLine, lines

(* Registry s is q after client e dropped the subscriptions of one id. *)
Loses(q, s, e, id) ==
  /\ DictSubs(s.dict, e) \subseteq DictSubs(q.dict, e)
  /\ \A b \in DictSubs(q.dict, e) : b.id # id => b \in DictSubs(s.dict, e)
  /\ \A b \in DictSubs(s.dict, e) : b \in ListSubs(q.regs[e]) => b.id # id
  /\ \A x : x # e => DictSubs(s.dict, x) = DictSubs(q.dict, x)

LEMMA SubsDeleted ==
  ASSUME NEW q \in Registry(Re, End), Orderly(q), NEW e \in End, NEW id \in Nat
  PROVE  Loses(q, delRegexpForOneClient(q, e, id), e, id)
<1> DEFINE s == delRegexpForOneClient(q, e, id)
<1>1. DictLess(q, s, e, id)
  BY DelRegexpForOneOK
<1> HIDE DEF s
<1>3. \A x, b : b \in DictSubs(s.dict, x) <=>
         /\ b \in DictSubs(q.dict, x)
         /\ ~ (x = e /\ b.id = id /\ \E k \in DOMAIN q.regs[e] :
                                       q.regs[e][k].id = id /\ q.regs[e][k].re = b.re)
  BY <1>1 DEF DictLess
<1>4. ASSUME NEW b \in DictSubs(s.dict, e), b \in ListSubs(q.regs[e]) PROVE b.id # id
  <2>1. PICK k \in DOMAIN q.regs[e] : q.regs[e][k] = b
    BY <1>4 DEF ListSubs
  <2> QED
    BY <1>3, <1>4, <2>1
<1>5. ASSUME NEW x, x # e PROVE DictSubs(s.dict, x) = DictSubs(q.dict, x)
  <2> DEFINE A == DictSubs(s.dict, x)
             B == DictSubs(q.dict, x)
  <2>1. \A b : b \in A <=> b \in B
    BY <1>3, <1>5
  <2> HIDE DEF A, B
  <2>2. A = B
    BY <2>1
  <2> QED
    BY <2>2 DEF A, B
<1>6. Loses(q, s, e, id)
  BY <1>3, <1>4, <1>5 DEF Loses
<1> QED
  BY <1>6 DEF s

LEMMA Moves ==
  ASSUME Safe, BindIds, AnnOK, [Next]_vars, NEW x \in Made, Attends(x)'
  PROVE  Idles(x) \/ Hears(x) \/ Shrinks(x) \/ Binds(x) \/ Unbinds(x) \/ Greets(x)
<1> USE DEF Safe, Shape
<1> DEFINE Goal == Idles(x) \/ Hears(x) \/ Shrinks(x) \/ Binds(x) \/ Unbinds(x) \/ Greets(x)
<1>a. /\ x \in End /\ Peer(x) \in Made /\ Peer(Peer(x)) = x /\ Peer(x) # x /\ Peer(x) \in End
      /\ chan[x] \in Seq(Lines) /\ chan \in [End -> Seq(Lines)]
  BY EndsOK DEF ChanOK
<1>p. PICK p \in App, o \in App : p = Owner(Peer(x)) /\ o = Owner(x)
  BY EndsOK
<1>q. Owner(Peer(x))' = p /\ Owner(x)' = o
  BY <1>a, <1>p, LinkStep
<1>r. /\ Subs(x) = DictSubs(reg[o].dict, x) /\ Subs(x)' = DictSubs(reg'[o].dict, x)
      /\ Bound(x) = ListSubs(binds[p]) /\ Bound(x)' = ListSubs(binds'[p])
  BY <1>p, <1>q DEF Subs, Bound
<1>s. Attends(x) /\ Open(x)
  BY AttendsWanes DEF Attends
<1>t. UNCHANGED reg => Subs(x)' = Subs(x)
  BY <1>r
<1>u. UNCHANGED <<binds, nextId, announced>> => Steady(x)
  BY <1>p, <1>r DEF Steady
<1>v. \A s \in Seq(Lines) : chan'[x] = s => Gets(x, s)
  BY NothingAdded DEF Gets, Plain
<1>w. \A a \in App : Peer(x) \in ClientsOf(a) => a = p
  BY <1>p, EndsOfMade DEF Held, HeldOwn
<1>c. ASSUME Steady(x), UNCHANGED reg, chan'[x] = chan[x] PROVE Goal
  BY <1>a, <1>c, <1>t, <1>v DEF Idles
<1>d. ASSUME NEW S, NEW l \in Lines, l.type \notin {"AddRegexp", "DelRegexp", "EndRegexp"},
             NEW ch \in [End -> Seq(Lines)], chan' = SendLine(ch, S, l)
      PROVE  Gets(x, ch[x])
  <2>1. PICK t \in Seq(Lines) : SendLine(ch, S, l)[x] = ch[x] \o t /\ \A m \in Elems(t) : m = l
    <3>1. GetsLine(ch, S, l, x)
      BY <1>a, SentLine
    <3> QED
      BY <3>1 DEF GetsLine
  <2>2. Plain(t)
    BY <1>d, <2>1 DEF Plain
  <2> QED
    BY <1>d, <2>1, <2>2 DEF Gets
<1>e. ASSUME NEW e \in Made, chan[e] # <<>>, UNCHANGED <<binds, nextId, announced>>,
             Gets(x, Rest(e)[x]), x = e => Takes(x), x # e => Subs(x)' = Subs(x)
      PROVE  Goal
  <2>1. Rest(e)[e] = Tail(chan[e]) /\ \A y \in End : y # e => Rest(e)[y] = chan[y]
    BY <1>e, RestOK
  <2>2. CASE x = e
    BY <1>e, <1>u, <2>1, <2>2 DEF Hears
  <2>3. CASE x # e
    BY <1>a, <1>e, <1>u, <2>1, <2>3 DEF Idles
  <2> QED
    BY <2>2, <2>3
<1>f. ASSUME NEW e \in Made, chan[e] # <<>>, chan' = Rest(e) PROVE Gets(x, Rest(e)[x])
  BY <1>a, <1>f, <1>v, RestOK
<1>h. ASSUME NEW S \in SUBSET Made, CloseSockets(S), UNCHANGED <<binds, nextId, announced>>,
             Subs(x)' = Subs(x), Peer(x) \in S => ~ Fed(x)'
      PROVE  Goal
  <2>1. /\ sock' = [e \in End |-> IF e \in S THEN "closed" ELSE sock[e]]
        /\ \A y \in End \ S : Peer(y) \notin S => chan'[y] = chan[y]
        /\ \A y \in End \ S : \E n \in 0 .. Len(chan[y]) : chan'[y] = SubSeq(chan[y], 1, n)
    BY <1>h, CloseOK
  <2>2. x \notin S
    BY <1>a, <2>1 DEF Attends, Open
  <2>3. CASE Peer(x) \notin S
    BY <1>a, <1>h, <1>u, <1>v, <2>1, <2>2, <2>3 DEF Idles
  <2>4. CASE Peer(x) \in S
    <3>1. sock'[Peer(x)] # "pending"
      BY <1>a, <2>1, <2>4
    <3> QED
      BY <1>a, <1>h, <2>1, <2>2, <2>4, <3>1 DEF Shrinks
  <2> QED
    BY <2>3, <2>4
<1> HIDE DEF Goal
<1>1. ASSUME NEW a \in App, IvyStart(a) \/ SocketSendBroadcast(a) \/ IvyStop(a) PROVE Goal
  <2>1. UNCHANGED <<chan, reg, binds, nextId, announced>>
    BY <1>1 DEF IvyStart, SocketSendBroadcast, IvyStop
  <2> QED
    BY <1>c, <1>u, <2>1
<1>2. ASSUME NEW a \in App, Exit(a) PROVE Goal
  <2> DEFINE S == {e \in EndsOf(a) : Open(e)}
  <2>1. /\ S \in SUBSET Made /\ CloseSockets(S) /\ UNCHANGED <<reg, binds, nextId, announced>>
        /\ status' = [status EXCEPT ![a] = "exited"]
    BY <1>2, EndsOfMade DEF Exit
  <2>2. Peer(x) \in S => p = a
    BY <1>p, EndsOfMade
  <2>3. status'[a] = "exited"
    BY <2>1 DEF OwnOK
  <2>4. Peer(x) \in S => ~ Fed(x)'
    BY <1>q, <2>2, <2>3 DEF Fed
  <2> HIDE DEF S
  <2> QED
    BY <1>h, <1>t, <2>1, <2>4
<1>3. ASSUME NEW e \in Made, DeleteSocket(e) PROVE Goal
  <2>1. PICK a \in App : a = Owner(e) /\ e \in End
    BY EndsOK
  <2> DEFINE r == delOneClient(reg[a], e)
  <2>2. /\ {e} \in SUBSET Made /\ CloseSockets({e}) /\ UNCHANGED <<binds, nextId, announced>>
        /\ allClients' = [allClients EXCEPT ![a] = Sublist(@, {n \in DOMAIN @ : @[n] # e})]
        /\ reg' = [reg EXCEPT ![a] = r]
    BY <1>3, <2>1 DEF DeleteSocket
  <2>3. ClientsOf(a)' = ClientsOf(a) \ {e}
    BY <2>2, ClientTaken
  <2>4. Peer(x) \in {e} => ~ Fed(x)'
    BY <1>p, <1>q, <2>1, <2>3 DEF Fed
  <2>5. \A y : y # e => DictSubs(r.dict, y) = DictSubs(reg[a].dict, y)
    BY <2>1, SubsGone
  <2>6. x # e
    <3>1. sock' = [y \in End |-> IF y \in {e} THEN "closed" ELSE sock[y]]
      BY <2>2, CloseOK
    <3> QED
      BY <1>a, <3>1 DEF Attends, Open
  <2> HIDE DEF r
  <2>7. reg'[o] = reg[o] \/ (reg'[o] = r /\ o = a)
    BY <2>2 DEF RegOK
  <2>8. Subs(x)' = Subs(x)
    BY <1>r, <2>5, <2>6, <2>7
  <2> QED
    BY <1>h, <2>2, <2>4, <2>8
<1>4. ASSUME NEW b \in App, NEW a \in App, BroadcastReceive(b, a) PROVE Goal
  <2>0. UNCHANGED <<reg, binds, nextId>>
    BY <1>4, BroadcastCases
  <2>1. CASE UNCHANGED <<chan, announced>>
    BY <1>c, <1>u, <2>0, <2>1
  <2>2. ASSUME NEW k \in {Len(link) + 1}, k =< MaxConn, SendService(b, <<k, "i">>)
        PROVE  Goal
    <3>1. /\ <<k, "i">> \in End /\ Peer(<<k, "i">>) \notin Made /\ <<k, "i">> \notin Made
      BY <2>2, NewEnds
    <3>2. chan'[x] = chan[x]
      BY <1>a, <2>2, <3>1, SendServiceOK
    <3>3. announced'[Peer(x)] = announced[Peer(x)]
      BY <1>a, <2>2, <3>1 DEF SendService, AnnOK
    <3>4. Steady(x)
      BY <1>p, <1>r, <2>0, <3>3 DEF Steady
    <3> QED
      BY <1>c, <2>0, <3>2, <3>4
  <2> QED
    BY <1>4, <2>1, <2>2, BroadcastCases
<1>5. ASSUME NEW e \in Made, HandleServer(e) PROVE Goal
  <2>1. PICK a \in App : a = Owner(e) /\ e \in End
    BY EndsOK
  <2>2. /\ UNCHANGED <<reg, binds, nextId>> /\ sock[e] = "pending"
        /\ \/ UNCHANGED <<chan, announced>>
           \/ SendService(a, e) /\ sock' = [sock EXCEPT ![e] = "open"]
    BY <1>5, <2>1 DEF HandleServer
  <2>3. CASE UNCHANGED <<chan, announced>>
    BY <1>c, <1>u, <2>2, <2>3
  <2>4. CASE SendService(a, e) /\ sock' = [sock EXCEPT ![e] = "open"]
    <3>1. /\ \A y \in End : y # Peer(e) => chan'[y] = chan[y]
          /\ chan'[Peer(e)] = IF sock'[Peer(e)] = "closed" THEN chan[Peer(e)]
                                                         ELSE chan[Peer(e)] \o Service(a)
      BY <2>1, <2>4, SendServiceOK
    <3>2. announced' = [announced EXCEPT ![e] = ListSubs(binds[a])]
      BY <2>4 DEF SendService
    <3>3. CASE e = Peer(x)
      <4>1. sock'[e] # "pending"
        BY <2>1, <2>4 DEF SockOK
      <4>2. Greets(x)
        BY <1>a, <2>1, <2>2, <3>1, <3>2, <3>3, <4>1 DEF Greets
      <4> QED
        BY <4>2 DEF Goal
    <3>4. CASE e # Peer(x)
      <4>1. chan'[x] = chan[x]
        BY <1>a, <2>1, <3>1, <3>4, PeerOK
      <4>2. announced'[Peer(x)] = announced[Peer(x)]
        BY <1>a, <3>2, <3>4 DEF AnnOK
      <4>3. Steady(x)
        BY <1>p, <1>r, <2>2, <4>2 DEF Steady
      <4> QED
        BY <1>c, <2>2, <4>1, <4>3
    <3> QED
      BY <3>3, <3>4
  <2> QED
    BY <2>2, <2>3, <2>4
<1>8. ASSUME NEW e \in Made, ReadEnd(e) PROVE Goal
  BY <1>c, <1>u, <1>8 DEF ReadEnd
<1>9. ASSUME UNCHANGED vars PROVE Goal
  BY <1>c, <1>u, <1>9 DEF vars
<1>6. ASSUME NEW a \in App, Call(a) PROVE Goal
  <2>0. UNCHANGED <<reg, announced>>
    BY <1>6 DEF Call, IvyBindMsg, IvyUnbindMsg, IvyChangeMsg, IvySendMsg, IvySendDieMsg
  <2>a. ASSUME NEW l \in Lines, chan' = ToAll(a, l)
        PROVE  chan'[x] = IF Peer(x) \in ClientsOf(a) THEN chan[x] \o <<l>> ELSE chan[x]
    <3>1. chan' = SendLine(chan, ClientsOf(a), l)
      BY <2>a DEF ToAll, SendLine
    <3> QED
      BY <1>a, <1>s, <3>1, LineSent
  <2>b. ASSUME NEW l \in Lines, chan' = ToAll(a, l), a # p, Others(a) PROVE Goal
    <3>1. Peer(x) \notin ClientsOf(a)
      BY <1>w, <2>b
    <3>2. chan'[x] = chan[x]
      BY <2>a, <2>b, <3>1
    <3>3. Steady(x)
      BY <1>p, <1>r, <2>0, <2>b DEF Steady, Others
    <3> QED
      BY <1>c, <2>0, <3>2, <3>3
  <2>c. ASSUME NEW l \in Lines, chan' = ToAll(a, l), a = p PROVE Told(x, l)
    BY <1>p, <2>a, <2>c DEF Told
  <2>d. \A b \in Binding : Add(b) \in Lines
    BY LinesOK DEF Add, Binding
  <2>1. ASSUME NEW re \in Re, IvyBindMsg(a, re) PROVE Goal
    <3>1. PICK b \in Binding : /\ b.id = nextId[a] /\ nextId'[a] = nextId[a] + 1
                               /\ ListSubs(binds'[a]) = ListSubs(binds[a]) \cup {b}
                               /\ Others(a) /\ chan' = ToAll(a, Add(b))
      BY <2>1, BindMsgOK
    <3>2. CASE a # p
      BY <2>b, <2>d, <3>1, <3>2
    <3>3. CASE a = p
      <4>1. Told(x, Add(b))
        BY <2>c, <2>d, <3>1, <3>3
      <4>2. /\ b \in Bound(x)' /\ Bound(x)' \subseteq Bound(x) \cup {b}
            /\ b.id = nextId[p] /\ nextId'[p] = nextId[p] + 1 /\ Bound(x) \subseteq Bound(x)'
        BY <1>r, <3>1, <3>3
      <4>3. Binds(x)
        BY <1>p, <1>t, <2>0, <4>1, <4>2 DEF Binds
      <4> QED
        BY <4>3 DEF Goal
    <3> QED
      BY <3>2, <3>3
  <2>2. ASSUME NEW n \in DOMAIN binds[a], IvyUnbindMsg(a, n) PROVE Goal
    <3>1. PICK id \in Nat : /\ id < nextId[a] /\ nextId'[a] = nextId[a]
                            /\ ListSubs(binds'[a]) = {b \in ListSubs(binds[a]) : b.id # id}
                            /\ Others(a) /\ chan' = ToAll(a, Line("DelRegexp", id, a))
      BY <2>2, UnbindMsgOK
    <3>2. Line("DelRegexp", id, a) \in Lines
      BY LinesOK
    <3>3. CASE a # p
      BY <2>b, <3>1, <3>2, <3>3
    <3>4. CASE a = p
      <4>1. Told(x, Line("DelRegexp", id, p))
        BY <2>c, <3>1, <3>2, <3>4
      <4>2. Unbinds(x)
        BY <1>p, <1>r, <1>t, <2>0, <3>1, <3>4, <4>1 DEF Unbinds
      <4> QED
        BY <4>2 DEF Goal
    <3> QED
      BY <3>3, <3>4
  <2>3. ASSUME NEW n \in DOMAIN binds[a], NEW re \in Re, IvyChangeMsg(a, n, re) PROVE Goal
    <3>1. PICK b \in Binding : /\ \E old \in ListSubs(binds[a]) : old.id = b.id
                               /\ nextId'[a] = nextId[a] /\ b \in ListSubs(binds'[a])
                               /\ ListSubs(binds'[a]) \subseteq ListSubs(binds[a]) \cup {b}
                               /\ Others(a) /\ chan' = ToAll(a, Add(b)) /\ ~ Still
      BY <2>3, ChangeMsgOK
    <3>2. CASE a # p
      BY <2>b, <2>d, <3>1, <3>2
    <3>3. CASE a = p
      <4>1. Told(x, Add(b))
        BY <2>c, <2>d, <3>1, <3>3
      <4>2. /\ b \in Bound(x)' /\ Bound(x)' \subseteq Bound(x) \cup {b}
            /\ ~ Still /\ nextId'[p] = nextId[p] /\ \E old \in Bound(x) : old.id = b.id
        BY <1>r, <3>1, <3>3
      <4>3. Binds(x)
        BY <1>p, <1>t, <2>0, <4>1, <4>2 DEF Binds
      <4> QED
        BY <4>3 DEF Goal
    <3> QED
      BY <3>2, <3>3
  <2>4. ASSUME NEW m \in Message, IvySendMsg(a, m) PROVE Goal
    <3>1. /\ chan' = SendHits(chan, EndsOf(a), a, m) /\ status[a] = "running"
          /\ UNCHANGED <<binds, nextId>>
      BY <2>4 DEF IvySendMsg, SendHits
    <3>2. GetsHits(chan, EndsOf(a), a, m, x)
      BY <1>a, <3>1, SentHits
    <3>3. PICK t \in Seq(Lines) : /\ chan'[x] = chan[x] \o t
                                  /\ \A l \in Elems(t) : Origin(x, l) /\ l.type = "Msg"
      BY <3>1, <3>2 DEF GetsHits
    <3>4. Gets(x, chan[x])
      BY <3>3 DEF Gets, Plain
    <3> QED
      BY <1>t, <1>u, <2>0, <3>1, <3>4 DEF Goal, Idles
  <2>5. ASSUME NEW e \in EndsOf(a), IvySendDieMsg(a, e) PROVE Goal
    <3>1. Line("Die", 0, a) \in Lines /\ Line("Die", 0, a).type = "Die"
      BY LinesOK
    <3>2. chan' = SendLine(chan, {e}, Line("Die", 0, a)) /\ UNCHANGED <<binds, nextId>>
      BY <2>5 DEF IvySendDieMsg, SendLine
    <3>3. Gets(x, chan[x])
      BY <1>a, <1>d, <3>1, <3>2
    <3> QED
      BY <1>t, <1>u, <2>0, <3>2, <3>3 DEF Goal, Idles
  <2> QED
    BY <1>6, <2>1, <2>2, <2>3, <2>4, <2>5 DEF Call
<1>7. ASSUME NEW e \in Made, Receive(e) PROVE Goal
  <2>1. PICK a \in App : a = Owner(e) /\ e \in End /\ e \in EndsOf(a) /\ Peer(e) # e
    BY EndsOK
  <2>2. /\ chan[e] # <<>> /\ sock[e] \in {"open", "marked"} /\ status[a] = "running"
        /\ UNCHANGED <<binds, nextId, announced>>
    BY <1>7, <2>1 DEF Receive, ReceiveBye, ReceiveError, ReceiveAddRegexp, ReceiveDelRegexp,
              ReceiveStartRegexp, ReceiveEndRegexp, ReceiveMsg, ReceiveDie, ReceiveIgnored, Handles
  <2>3. Head(chan[e]) \in Lines /\ Rest(e) \in [End -> Seq(Lines)]
    BY <2>2, RestOK
  <2>4. Line("Error", 0, a) \in Lines /\ Line("Error", 0, a).type = "Error"
    BY LinesOK
  <2>5. ASSUME UNCHANGED reg, Gets(x, Rest(e)[x]),
               Head(chan[e]).type \notin {"AddRegexp", "DelRegexp"},
               Head(chan[e]).type = "EndRegexp" => ~ Waiting(e)'
        PROVE  Goal
    <3>1. x = e => Takes(x)
      BY <1>t, <2>5 DEF Takes
    <3> QED
      BY <1>e, <1>t, <2>2, <2>5, <3>1
  <2>6. CASE ReceiveBye(e) \/ ReceiveError(e) \/ ReceiveMsg(e)
    <3>1. chan' = Rest(e) /\ UNCHANGED reg
      BY <2>6 DEF ReceiveBye, ReceiveError, ReceiveMsg
    <3>2. Head(chan[e]).type \notin {"AddRegexp", "DelRegexp", "EndRegexp"}
      BY <2>6 DEF ReceiveBye, ReceiveError, ReceiveMsg, Handles
    <3> QED
      BY <1>f, <2>2, <2>5, <3>1, <3>2
  <2>7. CASE ReceiveIgnored(e)
    <3>1. chan' = Rest(e) /\ UNCHANGED <<sock, cli, reg>> /\ cli[e].ignore
      BY <2>7 DEF ReceiveIgnored
    <3>2. x # e
      BY <2>2, <3>1 DEF Attends
    <3> QED
      BY <1>e, <1>f, <1>t, <2>2, <3>1, <3>2
  <2>8. CASE ReceiveStartRegexp(e)
    <3>1. Head(chan[e]).type = "StartRegexp" /\ UNCHANGED reg
      BY <2>8 DEF ReceiveStartRegexp, Handles
    <3>2. chan' = Rest(e) \/ \E t : chan' = SendLine(Rest(e), {t}, Line("Error", 0, a))
      BY <2>1, <2>8, ZenonT(40) DEF ReceiveStartRegexp, SendLine
    <3>3. Gets(x, Rest(e)[x])
      BY <1>d, <1>f, <2>2, <2>3, <2>4, <3>2
    <3> QED
      BY <2>5, <3>1, <3>3
  <2>9. CASE ReceiveEndRegexp(e)
    <3>1. /\ UNCHANGED <<sock, reg>> /\ Head(chan[e]).type = "EndRegexp"
          /\ cli' = [cli EXCEPT ![e].up = TRUE, ![e].ready = cli[e].ready + 1]
          /\ \/ chan' = Rest(e)
             \/ /\ Ready[a] # NoMessage
                /\ chan' = SendOn(Rest(e), {e}, [y \in {e} |-> Hits(reg[a].dict, Ready[a], e)])
      BY <2>1, <2>9 DEF ReceiveEndRegexp, Handles
    <3>2. ~ Waiting(e)'
      <4>1. cli'[e].up
        BY <2>1, <3>1 DEF CliOK, Client
      <4> QED
        BY <2>2, <3>1, <4>1 DEF Waiting
    <3>3. CASE chan' = Rest(e)
      BY <1>f, <2>2, <2>5, <3>1, <3>2, <3>3
    <3>4. ASSUME Ready[a] # NoMessage,
                 chan' = SendOn(Rest(e), {e}, [y \in {e} |-> Hits(reg[a].dict, Ready[a], e)])
          PROVE  Goal
      <4>1. Ready[a] \in Message
        BY <3>4, BusAssumption
      <4>2. chan' = SendHits(Rest(e), {e}, a, Ready[a])
        <5>1. [y \in {e} |-> Hits(reg[a].dict, Ready[a], e)]
                = [y \in {e} |-> Hits(reg[a].dict, Ready[a], y)]
          OBVIOUS
        <5> QED
          BY <3>4, <5>1 DEF SendHits
      <4>3. GetsHits(Rest(e), {e}, a, Ready[a], x)
        <5>1. {e} \subseteq EndsOf(a)
          BY <2>1
        <5> QED
          BY <2>2, <2>3, <4>1, <5>1, SentHits
      <4>4. PICK t \in Seq(Lines) : /\ chan'[x] = Rest(e)[x] \o t
                                    /\ \A l \in Elems(t) : Origin(x, l) /\ l.type = "Msg"
        BY <4>2, <4>3 DEF GetsHits
      <4>5. Gets(x, Rest(e)[x])
        BY <4>4 DEF Gets, Plain
      <4> QED
        BY <2>5, <3>1, <3>2, <4>5
    <3> QED
      BY <3>1, <3>3, <3>4
  <2>10. CASE ReceiveDie(e)
    <3> DEFINE l == Line("Bye", 0, a)
    <3>1. l \in Lines /\ l.type = "Bye"
      BY LinesOK
    <3>2. /\ chan' = SendLine(Rest(e), ClientsOf(a), l)
          /\ allClients' = [allClients EXCEPT ![a] = <<>>]
          /\ reg' = [reg EXCEPT ![a] = EmptyRegistry(End)]
          /\ sock' = [y \in End |-> IF y \in ClientsOf(a) /\ sock[y] = "open" THEN "marked" ELSE sock[y]]
      BY <2>1, <2>10 DEF ReceiveDie, SendLine
    <3> HIDE DEF l
    <3>3. Gets(x, Rest(e)[x])
      BY <1>d, <2>3, <3>1, <3>2
    <3>4. ClientsOf(a)' = {}
      BY <3>2 DEF ClientsOf, OwnOK
    <3>5. ASSUME o = a PROVE x # e /\ Subs(x)' = Subs(x)
      <4>1. sock'[x] = "pending"
        BY <1>q, <3>4, <3>5 DEF Attends
      <4>2. sock[x] = "pending"
        BY <1>a, <3>2, <4>1
      <4>3. x \notin ClientsOf(a)
        BY <2>2, <4>2 DEF Held, HeldOpen
      <4>4. Subs(x) = {}
        BY <1>r, <3>5, <4>3 DEF Tidy
      <4>5. reg'[o] = EmptyRegistry(End)
        BY <3>2, <3>5 DEF RegOK
      <4> QED
        BY <1>r, <2>2, <4>2, <4>4, <4>5, EmptyOK
    <3>6. o # a => x # e /\ Subs(x)' = Subs(x)
      <4>1. o # a => reg'[o] = reg[o]
        BY <3>2 DEF RegOK
      <4> QED
        BY <1>p, <1>r, <2>1, <4>1
    <3> QED
      BY <1>e, <2>2, <3>3, <3>5, <3>6
  <2>11. CASE ReceiveAddRegexp(e)
    <3> DEFINE l == Head(chan[e])
    <3>1. l.type = "AddRegexp"
      BY <2>11 DEF ReceiveAddRegexp, Handles
    <3>2. PICK id \in Nat, re \in Re : id = l.id /\ re = l.arg
      BY <2>3, <3>1, LineFields
    <3> DEFINE r == addOrChangeRegexp(reg[a], re, e, id)
    <3>3. /\ re \in Filtered[a] => UNCHANGED reg
          /\ re \notin Filtered[a] => reg' = [reg EXCEPT ![a] = r]
          /\ chan' = Rest(e) \/ chan' = SendLine(Rest(e), {e}, Line("Error", 0, a))
      BY <2>1, <2>11, <3>2 DEF ReceiveAddRegexp, SendLine
    <3>4. /\ DictSubs(r.dict, e) = DictSubs(reg[a].dict, e) \cup {[id |-> id, re |-> re]}
          /\ \A y : y # e => DictSubs(r.dict, y) = DictSubs(reg[a].dict, y)
      BY <2>1, SubAdded
    <3> HIDE DEF r
    <3>5. Gets(x, Rest(e)[x])
      BY <1>d, <1>f, <2>2, <2>3, <2>4, <3>3
    <3>6. re \notin Filtered[a] => (reg'[o] = reg[o] /\ o # a) \/ (reg'[o] = r /\ o = a)
      BY <3>3 DEF RegOK
    <3>7. x # e => Subs(x)' = Subs(x)
      BY <1>r, <1>t, <3>3, <3>4, <3>6
    <3>8. ASSUME x = e PROVE Takes(x)
      <4>1. o = a
        BY <1>p, <2>1, <3>8
      <4>2. Subs(x)' = IF re \in Filtered[a] THEN Subs(x)
                                             ELSE Subs(x) \cup {[id |-> id, re |-> re]}
        BY <1>r, <1>t, <3>3, <3>4, <3>6, <3>8, <4>1
      <4> QED
        BY <1>p, <3>1, <3>2, <3>8, <4>1, <4>2 DEF Takes
    <3> QED
      BY <1>e, <2>2, <3>5, <3>7, <3>8
  <2>12. CASE ReceiveDelRegexp(e)
    <3> DEFINE l == Head(chan[e])
    <3>1. l.type = "DelRegexp" /\ chan' = Rest(e)
      BY <2>12 DEF ReceiveDelRegexp, Handles
    <3>2. PICK id \in Nat : id = l.id
      BY <2>3, LineFields
    <3> DEFINE r == delRegexpForOneClient(reg[a], e, id)
    <3>3. reg' = [reg EXCEPT ![a] = r]
      BY <2>1, <2>12, <3>2 DEF ReceiveDelRegexp
    <3>q. Loses(reg[a], r, e, id)
      <4>1. reg[a] \in Registry(Re, End) /\ Orderly(reg[a])
        BY DEF RegOK
      <4> QED
        BY <2>1, <4>1, SubsDeleted
    <3> HIDE DEF r
    <3>4. /\ DictSubs(r.dict, e) \subseteq DictSubs(reg[a].dict, e)
          /\ \A b \in DictSubs(reg[a].dict, e) : b.id # id => b \in DictSubs(r.dict, e)
          /\ \A b \in DictSubs(r.dict, e) : b \in ListSubs(reg[a].regs[e]) => b.id # id
          /\ \A y : y # e => DictSubs(r.dict, y) = DictSubs(reg[a].dict, y)
      BY <3>q DEF Loses
    <3>5. (reg'[o] = reg[o] /\ o # a) \/ (reg'[o] = r /\ o = a)
      BY <3>3 DEF RegOK
    <3>6. x # e => Subs(x)' = Subs(x)
      BY <1>r, <3>4, <3>5
    <3>7. ASSUME x = e PROVE Takes(x)
      <4>1. o = a /\ Subs(x) = DictSubs(reg[a].dict, e) /\ Subs(x)' = DictSubs(r.dict, e)
        BY <1>p, <1>r, <2>1, <3>5, <3>7
      <4>2. Subs(x)' \subseteq Subs(x) /\ \A b \in Subs(x) : b.id # id => b \in Subs(x)'
        BY <3>4, <4>1
      <4>3. ASSUME Agree, NEW b \in Subs(x)' PROVE b.id # id
        <5>1. b \in ListSubs(reg[a].regs[e])
          BY <2>1, <4>1, <4>2, <4>3 DEF Agree
        <5> QED
          BY <3>4, <4>1, <4>3, <5>1
      <4> QED
        BY <3>1, <3>2, <3>7, <4>2, <4>3 DEF Takes
    <3> QED
      BY <1>e, <1>f, <2>2, <3>1, <3>6, <3>7
  <2> QED
    BY <1>7, <2>6, <2>7, <2>8, <2>9, <2>10, <2>11, <2>12 DEF Receive
<1>10. Goal
  BY <1>1, <1>2, <1>3, <1>4, <1>5, <1>6, <1>7, <1>8, <1>9 DEF Next
<1> QED
  BY <1>10 DEF Goal
-----------------------------------------------------------------------------
(* What is on the way to an end, and what the end has registered. *)

(* Lines s delete no id from n on. *)
DelIds(s, n) == \A l \in Elems(s) : l.type = "DelRegexp" => l.id < n

(* Every binding of B passes to the other side: the filter F refuses it, it *)
(* is among the lines s or in the registrations S, and no line deletes it.  *)
Reaches(s, S, B, F) ==
  \A b \in B : /\ \A l \in Elems(s) : l.type = "DelRegexp" => l.id # b.id
               /\ Add(b) \in Elems(s) \/ b \in S \/ b.re \in F

(* The registrations S become S2 when line l is handled. *)
Handled(l, S, S2, F) ==
  /\ l.type = "AddRegexp" => S2 = IF l.arg \in F THEN S ELSE S \cup {[id |-> l.id, re |-> l.arg]}
  /\ l.type = "DelRegexp" => S2 \subseteq S /\ \A b \in S : b.id # l.id => b \in S2
  /\ l.type \notin {"AddRegexp", "DelRegexp"} => S2 = S

LEMMA AddOK ==
  ASSUME NEW b \in Binding
  PROVE  /\ Add(b) \in Lines /\ Add(b).type = "AddRegexp" /\ Add(b).id = b.id /\ Add(b).arg = b.re
         /\ b.id \in Nat /\ b.re \in Re /\ b = [id |-> b.id, re |-> b.re]
  BY LinesOK DEF Add, Binding

LEMMA AddInjective ==
  ASSUME NEW b \in Binding, NEW c \in Binding, Add(b) = Add(c)
  PROVE  b = c
<1>1. b.id = c.id /\ b.re = c.re
  BY AddOK
<1> QED
  BY <1>1, AddOK

LEMMA AddLine ==
  ASSUME NEW l \in Lines, l.type = "AddRegexp", NEW c, c = [id |-> l.id, re |-> l.arg]
  PROVE  c \in Binding /\ c.id = l.id /\ c.re = l.arg /\ l = Add(c)
<1>1. l \in [type : {"AddRegexp"}, id : Nat, arg : Re]
  BY DEF Lines
<1>2. l = [type |-> "AddRegexp", id |-> l.id, arg |-> l.arg]
  BY <1>1
<1>3. c \in Binding /\ c.id = l.id /\ c.re = l.arg
  BY <1>1 DEF Binding
<1> QED
  BY <1>2, <1>3 DEF Add, Line

LEMMA ReachesMore ==
  ASSUME NEW s \in Seq(Lines), NEW t \in Seq(Lines), NEW S, NEW B, NEW F,
         Reaches(s, S, B, F), \A l \in Elems(t) : l.type # "DelRegexp"
  PROVE  Reaches(s \o t, S, B, F)
<1>1. Elems(s \o t) = Elems(s) \cup Elems(t)
  BY ConcatElems
<1> QED
  BY <1>1 DEF Reaches

LEMMA DelIdsMore ==
  ASSUME NEW s \in Seq(Lines), NEW t \in Seq(Lines), NEW n,
         DelIds(s, n), \A l \in Elems(t) : l.type = "DelRegexp" => l.id < n
  PROVE  DelIds(s \o t, n)
<1>1. Elems(s \o t) = Elems(s) \cup Elems(t)
  BY ConcatElems
<1> QED
  BY <1>1 DEF DelIds

LEMMA ReachesHandled ==
  ASSUME NEW s \in Seq(Lines), s # <<>>, NEW S, NEW S2, NEW B, B \subseteq Binding, NEW F,
         Reaches(s, S, B, F), Handled(Head(s), S, S2, F)
  PROVE  Reaches(Tail(s), S2, B, F)
<1>1. Elems(s) = {Head(s)} \cup Elems(Tail(s))
  BY TailElems
<1> SUFFICES ASSUME NEW b \in B
             PROVE  /\ \A l \in Elems(Tail(s)) : l.type = "DelRegexp" => l.id # b.id
                    /\ Add(b) \in Elems(Tail(s)) \/ b \in S2 \/ b.re \in F
  BY DEF Reaches
<1>2. /\ \A l \in Elems(s) : l.type = "DelRegexp" => l.id # b.id
      /\ Add(b) \in Elems(s) \/ b \in S \/ b.re \in F
  BY DEF Reaches
<1>3. ASSUME Head(s) = Add(b) PROVE b \in S2 \/ b.re \in F
  <2>1. /\ Head(s).type = "AddRegexp" /\ Head(s).id = b.id /\ Head(s).arg = b.re
        /\ b = [id |-> b.id, re |-> b.re]
    BY <1>3, AddOK
  <2> QED
    BY <2>1 DEF Handled
<1>4. ASSUME b \in S PROVE b \in S2
  BY <1>1, <1>2, <1>4 DEF Handled
<1> QED
  BY <1>1, <1>2, <1>3, <1>4

LEMMA DelIdsHandled ==
  ASSUME NEW s \in Seq(Lines), s # <<>>, NEW n, DelIds(s, n)
  PROVE  DelIds(Tail(s), n)
<1>1. Elems(s) = {Head(s)} \cup Elems(Tail(s))
  BY TailElems
<1> QED
  BY <1>1 DEF DelIds

LEMMA ReachesBound ==
  ASSUME NEW s \in Seq(Lines), NEW S, NEW B, NEW F, NEW n \in Nat, Reaches(s, S, B, F), DelIds(s, n),
         NEW b \in Binding, NEW B2, B2 \subseteq B \cup {b},
         b.id = n \/ \E old \in B : old.id = b.id
  PROVE  Reaches(s \o <<Add(b)>>, S, B2, F)
<1> DEFINE t == <<Add(b)>>
<1>1. t \in Seq(Lines) /\ Elems(t) = {Add(b)} /\ Add(b).type = "AddRegexp"
  BY AddOK, SingleElems
<1> HIDE DEF t
<1>2. Elems(s \o t) = Elems(s) \cup {Add(b)}
  BY <1>1, ConcatElems
<1>3. \A l \in Elems(s) : l.id \in Nat
  BY LineFields, LenProperties, ElementOfSeq DEF Elems
<1>4. \A l \in Elems(s) : l.type = "DelRegexp" => l.id # b.id
  BY <1>3 DEF DelIds, Reaches
<1>5. ASSUME NEW c \in B2
      PROVE  /\ \A l \in Elems(s \o t) : l.type = "DelRegexp" => l.id # c.id
             /\ Add(c) \in Elems(s \o t) \/ c \in S \/ c.re \in F
  <2>1. CASE c = b
    BY <1>1, <1>2, <1>4, <2>1
  <2>2. CASE c \in B
    BY <1>1, <1>2, <2>2 DEF Reaches
  <2> QED
    BY <1>5, <2>1, <2>2
<1>6. Reaches(s \o t, S, B2, F)
  BY <1>5 DEF Reaches
<1> QED
  BY <1>6 DEF t

LEMMA ReachesUnbound ==
  ASSUME NEW s \in Seq(Lines), NEW S, NEW B, NEW F, Reaches(s, S, B, F),
         NEW id, NEW l \in Lines, l.type = "DelRegexp", l.id = id
  PROVE  Reaches(s \o <<l>>, S, {b \in B : b.id # id}, F)
<1> DEFINE t == <<l>>
<1>1. t \in Seq(Lines) /\ Elems(t) = {l}
  BY SingleElems
<1> HIDE DEF t
<1>2. Elems(s \o t) = Elems(s) \cup {l}
  BY <1>1, ConcatElems
<1>3. Reaches(s \o t, S, {b \in B : b.id # id}, F)
  BY <1>2 DEF Reaches
<1> QED
  BY <1>3 DEF t

(* The lines of SendService. *)
LEMMA ServiceLines ==
  ASSUME BindOK, NEW p \in App
  PROVE  /\ Service(p) \in Seq(Lines) /\ Len(Service(p)) \in Nat /\ Len(Service(p)) > 0
         /\ \A b \in ListSubs(binds[p]) : Add(b) \in Elems(Service(p))
         /\ \A b \in Binding : Add(b) \in Elems(Service(p)) => b \in ListSubs(binds[p])
         /\ \A l \in Elems(Service(p)) : l.type # "DelRegexp"
         /\ ListSubs(binds[p]) \subseteq Binding
<1> DEFINE A == Announcements(p)
           h == Line("StartRegexp", Port[p], p)
           k == Line("EndRegexp", 0, p)
           s == binds[p]
<1>1. Service(p) \in Seq(Lines) /\ Elems(Service(p)) = Elems(A) \cup {h, k}
  BY ServiceOK
<1>2. /\ A \in Seq(Lines) /\ Len(A) = Len(s)
      /\ \A n \in DOMAIN A : n \in DOMAIN s /\ A[n] = Line("AddRegexp", s[n].id, s[n].re)
  BY AnnouncementsOK
<1>3. h.type = "StartRegexp" /\ k.type = "EndRegexp"
  BY LinesOK
<1>4. s \in Seq(Binding)
  BY DEF BindOK
<1>5. DOMAIN A = 1 .. Len(s) /\ DOMAIN s = 1 .. Len(s) /\ \A n \in DOMAIN s : s[n] \in Binding
  BY <1>2, <1>4, LenProperties, ElementOfSeq
<1> HIDE DEF A, h, k, s
<1>6. \A n \in DOMAIN A : n \in DOMAIN s /\ A[n] = Add(s[n])
  BY <1>2 DEF Add
<1>7. \A l \in Elems(A) : \E n \in DOMAIN s : l = Add(s[n])
  BY <1>6 DEF Elems
<1>8. \A l \in Elems(A) : l.type = "AddRegexp"
  BY <1>5, <1>7, AddOK
<1>9. ASSUME NEW b \in ListSubs(s) PROVE Add(b) \in Elems(Service(p))
  <2>1. PICK n \in DOMAIN s : s[n] = b
    BY <1>9 DEF ListSubs
  <2> QED
    BY <1>1, <1>5, <1>6, <2>1 DEF Elems
<1>10. ASSUME NEW b \in Binding, Add(b) \in Elems(Service(p)) PROVE b \in ListSubs(s)
  <2>1. Add(b).type = "AddRegexp"
    BY AddOK
  <2>2. Add(b) \in Elems(A)
    BY <1>1, <1>3, <1>10, <2>1
  <2>3. PICK n \in DOMAIN s : Add(b) = Add(s[n])
    BY <1>7, <2>2
  <2>4. b = s[n]
    BY <1>5, <2>3, AddInjective
  <2> QED
    BY <2>4 DEF ListSubs
<1>11. Len(Service(p)) \in Nat /\ Len(Service(p)) > 0
  <2>1. Len(Service(p)) \in Nat /\ DOMAIN Service(p) = 1 .. Len(Service(p))
    BY <1>1, LenProperties
  <2>2. DOMAIN Service(p) # {}
    BY <1>1 DEF Elems
  <2> QED
    BY <2>1, <2>2
<1>12. ListSubs(s) \subseteq Binding
  BY <1>5 DEF ListSubs
<1> QED
  BY <1>1, <1>3, <1>8, <1>9, <1>10, <1>11, <1>12 DEF s

(* Behind lines that say nothing of bindings, they pass all of them on. *)
LEMMA ReachesGreeted ==
  ASSUME BindOK, NEW p \in App, NEW s \in Seq(Lines), Plain(s), NEW S, NEW F, NEW n
  PROVE  Reaches(s \o Service(p), S, ListSubs(binds[p]), F) /\ DelIds(s \o Service(p), n)
<1>1. /\ Service(p) \in Seq(Lines) /\ \A b \in ListSubs(binds[p]) : Add(b) \in Elems(Service(p))
      /\ \A l \in Elems(Service(p)) : l.type # "DelRegexp"
  BY ServiceLines
<1>2. Elems(s \o Service(p)) = Elems(s) \cup Elems(Service(p))
  BY <1>1, ConcatElems
<1> QED
  BY <1>1, <1>2 DEF Reaches, DelIds, Plain

(* The lines before an EndRegexp delete nothing, and with the registrations *)
(* S they name exactly the bindings A that pass the filter F.               *)
Complete(s, S, A, F) ==
  \A n \in DOMAIN s : s[n].type = "EndRegexp" =>
    /\ \A i \in 1 .. n - 1 : s[i].type # "DelRegexp"
    /\ \A b \in Binding : b.re \notin F => (b \in A <=> b \in S \/ \E i \in 1 .. n - 1 : s[i] = Add(b))

LEMMA CompleteMore ==
  ASSUME NEW s \in Seq(Lines), NEW t \in Seq(Lines), NEW S, NEW A, NEW F,
         Complete(s, S, A, F), \A l \in Elems(t) : l.type # "EndRegexp"
  PROVE  Complete(s \o t, S, A, F)
<1> DEFINE u == s \o t
<1>1. /\ u \in Seq(Lines) /\ Len(u) = Len(s) + Len(t)
      /\ \A i \in 1 .. Len(s) : u[i] = s[i]
      /\ \A i \in 1 .. Len(t) : u[Len(s) + i] = t[i]
  BY ConcatElems
<1> HIDE DEF u
<1>2. /\ DOMAIN u = 1 .. Len(s) + Len(t) /\ DOMAIN s = 1 .. Len(s) /\ DOMAIN t = 1 .. Len(t)
      /\ Len(s) \in Nat /\ Len(t) \in Nat
  BY <1>1, LenProperties
<1>3. ASSUME NEW n \in DOMAIN u, u[n].type = "EndRegexp" PROVE n \in DOMAIN s
  <2> SUFFICES ASSUME n > Len(s) PROVE FALSE
    BY <1>2
  <2>1. n - Len(s) \in 1 .. Len(t) /\ n = Len(s) + (n - Len(s))
    BY <1>2
  <2>2. u[n] = t[n - Len(s)]
    BY <1>1, <2>1
  <2> QED
    BY <1>2, <1>3, <2>1, <2>2 DEF Elems
<1>4. ASSUME NEW n \in DOMAIN s PROVE n \in 1 .. Len(s) /\ \A i \in 1 .. n - 1 : i \in 1 .. Len(s) /\ u[i] = s[i]
  BY <1>1, <1>2
<1>5. Complete(u, S, A, F)
  <2> SUFFICES ASSUME NEW n \in DOMAIN u, u[n].type = "EndRegexp"
               PROVE  /\ \A i \in 1 .. n - 1 : u[i].type # "DelRegexp"
                      /\ \A b \in Binding : b.re \notin F =>
                           (b \in A <=> b \in S \/ \E i \in 1 .. n - 1 : u[i] = Add(b))
    BY DEF Complete
  <2>1. n \in DOMAIN s /\ u[n] = s[n]
    BY <1>1, <1>3, <1>4
  <2>2. /\ \A i \in 1 .. n - 1 : s[i].type # "DelRegexp"
        /\ \A b \in Binding : b.re \notin F =>
             (b \in A <=> b \in S \/ \E i \in 1 .. n - 1 : s[i] = Add(b))
    BY <2>1 DEF Complete
  <2> QED
    BY <1>4, <2>1, <2>2
<1> QED
  BY <1>5 DEF u

LEMMA CompletePrefix ==
  ASSUME NEW s \in Seq(Lines), NEW k \in 0 .. Len(s), NEW S, NEW A, NEW F, Complete(s, S, A, F)
  PROVE  Complete(SubSeq(s, 1, k), S, A, F)
<1> DEFINE u == SubSeq(s, 1, k)
<1>1. u \in Seq(Lines) /\ Len(u) = k /\ \A i \in 1 .. k : u[i] = s[i]
  BY Halves
<1> HIDE DEF u
<1>2. DOMAIN u = 1 .. k /\ DOMAIN s = 1 .. Len(s) /\ Len(s) \in Nat
  BY <1>1, LenProperties
<1>3. ASSUME NEW n \in DOMAIN u PROVE n \in DOMAIN s /\ u[n] = s[n] /\ \A i \in 1 .. n - 1 : u[i] = s[i]
  BY <1>1, <1>2
<1>4. Complete(u, S, A, F)
  BY <1>3 DEF Complete
<1> QED
  BY <1>4 DEF u

LEMMA CompleteHandled ==
  ASSUME NEW s \in Seq(Lines), s # <<>>, NEW S, NEW S2, NEW A, NEW F, Complete(s, S, A, F),
         Handled(Head(s), S, S2, F), Head(s).type # "EndRegexp"
  PROVE  Complete(Tail(s), S2, A, F)
<1> DEFINE u == Tail(s)
<1>1. /\ u \in Seq(Lines) /\ Len(u) = Len(s) - 1 /\ Len(s) \in Nat \ {0}
      /\ \A i \in 1 .. Len(s) - 1 : u[i] = s[i + 1]
      /\ Head(s) = s[1] /\ Head(s) \in Lines
  BY TailElems
<1> HIDE DEF u
<1>2. DOMAIN u = 1 .. Len(s) - 1 /\ DOMAIN s = 1 .. Len(s)
  BY <1>1, LenProperties
<1>3. ASSUME NEW n \in DOMAIN u, u[n].type = "EndRegexp"
      PROVE  /\ \A i \in 1 .. n - 1 : u[i].type # "DelRegexp"
             /\ \A b \in Binding : b.re \notin F =>
                  (b \in A <=> b \in S2 \/ \E i \in 1 .. n - 1 : u[i] = Add(b))
  <2>1. n + 1 \in DOMAIN s /\ s[n + 1].type = "EndRegexp" /\ n \in Nat \ {0}
    BY <1>1, <1>2, <1>3
  <2>2. /\ \A i \in 1 .. n : s[i].type # "DelRegexp"
        /\ \A b \in Binding : b.re \notin F =>
             (b \in A <=> b \in S \/ \E i \in 1 .. n : s[i] = Add(b))
    <3>1. (n + 1) - 1 = n
      BY <2>1
    <3> QED
      BY <2>1, <3>1 DEF Complete
  <2>3. \A i \in 1 .. n - 1 : i + 1 \in 1 .. n /\ u[i] = s[i + 1]
    BY <1>1, <1>2, <2>1
  <2>4. \A i \in 1 .. n : i = 1 \/ (i - 1 \in 1 .. n - 1 /\ s[i] = u[i - 1])
    <3> SUFFICES ASSUME NEW i \in 1 .. n, i # 1 PROVE i - 1 \in 1 .. n - 1 /\ s[i] = u[i - 1]
      OBVIOUS
    <3>1. i - 1 \in 1 .. n - 1 /\ (i - 1) + 1 = i
      BY <2>1
    <3> QED
      BY <2>3, <3>1
  <2>5. 1 \in 1 .. n
    BY <2>1
  <2>6. ASSUME NEW b \in Binding
        PROVE  (\E i \in 1 .. n : s[i] = Add(b)) <=>
                 Head(s) = Add(b) \/ \E i \in 1 .. n - 1 : u[i] = Add(b)
    BY <1>1, <2>3, <2>4, <2>5
  <2>7. ASSUME NEW b \in Binding, b.re \notin F
        PROVE  b \in S2 <=> b \in S \/ Head(s) = Add(b)
    <3>1. Head(s).type # "DelRegexp"
      BY <1>1, <2>2, <2>5
    <3>2. /\ Add(b).type = "AddRegexp" /\ Add(b).id = b.id /\ Add(b).arg = b.re
          /\ b = [id |-> b.id, re |-> b.re]
      BY AddOK
    <3>3. CASE Head(s).type # "AddRegexp"
      BY <3>1, <3>2, <3>3 DEF Handled
    <3>4. CASE Head(s).type = "AddRegexp"
      <4> DEFINE c == [id |-> Head(s).id, re |-> Head(s).arg]
      <4>2. c \in Binding /\ c.id = Head(s).id /\ c.re = Head(s).arg /\ Head(s) = Add(c)
        BY <1>1, <3>4, AddLine
      <4>4. S2 = IF Head(s).arg \in F THEN S ELSE S \cup {c}
        BY <3>4 DEF Handled
      <4> HIDE DEF c
      <4>5. Head(s) = Add(b) <=> b = c
        BY <4>2, AddInjective
      <4> QED
        BY <2>7, <4>2, <4>4, <4>5
    <3> QED
      BY <3>3, <3>4
  <2>8. \A i \in 1 .. n - 1 : u[i].type # "DelRegexp"
    BY <2>2, <2>3
  <2> QED
    BY <2>2, <2>6, <2>7, <2>8
<1>4. Complete(u, S2, A, F)
  BY <1>3 DEF Complete
<1> QED
  BY <1>4 DEF u

(* SendService ends with its only EndRegexp. *)
LEMMA ServiceEnd ==
  ASSUME BindOK, NEW p \in App, NEW n \in DOMAIN Service(p), Service(p)[n].type = "EndRegexp"
  PROVE  n = Len(Service(p))
<1> DEFINE A == Announcements(p)
           h == <<Line("StartRegexp", Port[p], p)>>
           k == <<Line("EndRegexp", 0, p)>>
           u == h \o A
<1>1. /\ A \in Seq(Lines)
      /\ \A i \in DOMAIN A : A[i] = Line("AddRegexp", binds[p][i].id, binds[p][i].re)
  BY AnnouncementsOK
<1>2. /\ h \in Seq(Lines) /\ Elems(h) = {Line("StartRegexp", Port[p], p)}
      /\ k \in Seq(Lines) /\ Len(k) = 1
  <2>1. Line("StartRegexp", Port[p], p) \in Lines /\ Line("EndRegexp", 0, p) \in Lines
    BY BusAssumption, LinesOK
  <2> QED
    BY <2>1, SingleElems
<1>3. Service(p) = u \o k
  BY DEF Service
<1>4. \A l \in Elems(A) : l.type = "AddRegexp"
  BY <1>1, LinesOK DEF Elems
<1>5. \A l \in Elems(h) : l.type = "StartRegexp"
  BY <1>2, LinesOK
<1> HIDE DEF A, h, k
<1>6. u \in Seq(Lines) /\ Elems(u) = Elems(h) \cup Elems(A)
  BY <1>1, <1>2, ConcatElems
<1>7. \A l \in Elems(u) : l.type # "EndRegexp"
  BY <1>4, <1>5, <1>6
<1> HIDE DEF u
<1>8. Len(u \o k) = Len(u) + Len(k) /\ u \o k \in Seq(Lines) /\ \A i \in 1 .. Len(u) : (u \o k)[i] = u[i]
  <2>1. \A s, r \in Seq(Lines) : /\ Len(s \o r) = Len(s) + Len(r) /\ s \o r \in Seq(Lines)
                                 /\ \A i \in 1 .. Len(s) : (s \o r)[i] = s[i]
    BY ConcatElems
  <2> QED
    BY <1>2, <1>6, <2>1
<1>9. DOMAIN u = 1 .. Len(u) /\ Len(u) \in Nat /\ DOMAIN Service(p) = 1 .. Len(u) + 1
  BY <1>2, <1>3, <1>6, <1>8, LenProperties
<1>10. n \notin 1 .. Len(u)
  BY <1>3, <1>7, <1>8, <1>9 DEF Elems
<1> QED
  BY <1>2, <1>3, <1>8, <1>9, <1>10

LEMMA CompleteGreeted ==
  ASSUME BindOK, NEW p \in App, NEW s \in Seq(Lines), Plain(s), NEW F
  PROVE  Complete(s \o Service(p), {}, ListSubs(binds[p]), F)
<1> DEFINE t == Service(p)
           u == s \o t
           B == ListSubs(binds[p])
<1>1. /\ t \in Seq(Lines) /\ \A b \in B : Add(b) \in Elems(t)
      /\ \A b \in Binding : Add(b) \in Elems(t) => b \in B
      /\ \A l \in Elems(t) : l.type # "DelRegexp"
  BY ServiceLines
<1>2. \A i \in DOMAIN t : t[i].type = "EndRegexp" => i = Len(t)
  BY ServiceEnd
<1> HIDE DEF t, B
<1>3. /\ u \in Seq(Lines) /\ Len(u) = Len(s) + Len(t)
      /\ \A i \in 1 .. Len(s) : u[i] = s[i]
      /\ \A i \in 1 .. Len(t) : u[Len(s) + i] = t[i]
      /\ Elems(u) = Elems(s) \cup Elems(t)
  BY <1>1, ConcatElems
<1> HIDE DEF u
<1>4. /\ DOMAIN u = 1 .. Len(s) + Len(t) /\ DOMAIN s = 1 .. Len(s) /\ DOMAIN t = 1 .. Len(t)
      /\ Len(s) \in Nat /\ Len(t) \in Nat
  BY <1>1, <1>3, LenProperties
<1>5. ASSUME NEW n \in DOMAIN u, u[n].type = "EndRegexp" PROVE n = Len(u)
  <2>1. n \notin DOMAIN s
    BY <1>3, <1>4, <1>5 DEF Plain, Elems
  <2>2. n - Len(s) \in 1 .. Len(t) /\ n = Len(s) + (n - Len(s))
    BY <1>4, <2>1
  <2>3. u[n] = t[n - Len(s)]
    BY <1>3, <2>2
  <2>4. n - Len(s) = Len(t)
    BY <1>2, <1>4, <1>5, <2>2, <2>3
  <2> QED
    BY <1>3, <1>4, <2>2, <2>4
<1>6. Complete(u, {}, B, F)
  <2> SUFFICES ASSUME NEW n \in DOMAIN u, u[n].type = "EndRegexp"
               PROVE  /\ \A i \in 1 .. n - 1 : u[i].type # "DelRegexp"
                      /\ \A b \in Binding : b \in B <=> \E i \in 1 .. n - 1 : u[i] = Add(b)
    BY DEF Complete
  <2>1. \A i \in 1 .. n - 1 : i \in DOMAIN u
    BY <1>3, <1>4, <1>5
  <2>2. \A l \in Elems(u) : l.type # "DelRegexp"
    BY <1>1, <1>3 DEF Plain
  <2>3. ASSUME NEW b \in Binding PROVE Add(b) \in Elems(u) <=> \E i \in 1 .. n - 1 : u[i] = Add(b)
    <3>1. Add(b).type = "AddRegexp"
      BY AddOK
    <3>2. \A i \in DOMAIN u : u[i] = Add(b) => i \in 1 .. n - 1
      <4>1. DOMAIN u = 1 .. n
        BY <1>3, <1>4, <1>5
      <4> QED
        BY <1>4, <3>1, <4>1
    <3> QED
      BY <2>1, <3>2 DEF Elems
  <2>4. ASSUME NEW b \in Binding PROVE Add(b) \in Elems(u) <=> b \in B
    <3>1. Add(b).type = "AddRegexp"
      BY AddOK
    <3> QED
      BY <1>1, <1>3, <3>1 DEF Plain
  <2> QED
    BY <2>1, <2>2, <2>3, <2>4 DEF Elems
<1> QED
  BY <1>6 DEF u, t, B

(* A line of s deletes the id of b, and none after it adds b again. *)
Buried(s, b) ==
  \E j \in DOMAIN s : /\ s[j].type = "DelRegexp" /\ s[j].id = b.id
                      /\ \A i \in DOMAIN s : i > j => s[i] # Add(b)

(* What is no binding of B, but in the lines s or the registrations S, has  *)
(* its deletion on the way.                                                 *)
Forgets(s, S, B) ==
  \A b \in Binding : b \notin B /\ (Add(b) \in Elems(s) \/ b \in S) => Buried(s, b)

LEMMA BuriedMore ==
  ASSUME NEW s \in Seq(Lines), NEW t \in Seq(Lines), NEW b, Buried(s, b), Add(b) \notin Elems(t)
  PROVE  Buried(s \o t, b)
<1> DEFINE u == s \o t
<1>1. /\ u \in Seq(Lines) /\ Len(u) = Len(s) + Len(t)
      /\ \A i \in 1 .. Len(s) : u[i] = s[i]
      /\ \A i \in 1 .. Len(t) : u[Len(s) + i] = t[i]
  BY ConcatElems
<1> HIDE DEF u
<1>2. /\ DOMAIN u = 1 .. Len(s) + Len(t) /\ DOMAIN s = 1 .. Len(s) /\ DOMAIN t = 1 .. Len(t)
      /\ Len(s) \in Nat /\ Len(t) \in Nat
  BY <1>1, LenProperties
<1>3. PICK j \in DOMAIN s : /\ s[j].type = "DelRegexp" /\ s[j].id = b.id
                            /\ \A i \in DOMAIN s : i > j => s[i] # Add(b)
  BY DEF Buried
<1>4. j \in DOMAIN u /\ u[j] = s[j]
  BY <1>1, <1>2
<1>5. ASSUME NEW i \in DOMAIN u, i > j PROVE u[i] # Add(b)
  <2>1. CASE i \in DOMAIN s
    BY <1>1, <1>2, <1>3, <1>5, <2>1
  <2>2. CASE i \notin DOMAIN s
    <3>1. i - Len(s) \in 1 .. Len(t) /\ i = Len(s) + (i - Len(s))
      BY <1>2, <2>2
    <3>2. u[i] = t[i - Len(s)]
      BY <1>1, <3>1
    <3> QED
      BY <1>2, <3>1, <3>2 DEF Elems
  <2> QED
    BY <2>1, <2>2
<1>6. Buried(u, b)
  BY <1>3, <1>4, <1>5 DEF Buried
<1> QED
  BY <1>6 DEF u

LEMMA BuriedTail ==
  ASSUME NEW s \in Seq(Lines), s # <<>>, NEW b, Buried(s, b),
         (Head(s).type = "DelRegexp" /\ Head(s).id = b.id) => Add(b) \in Elems(Tail(s))
  PROVE  Buried(Tail(s), b)
<1> DEFINE u == Tail(s)
<1>1. /\ u \in Seq(Lines) /\ Len(u) = Len(s) - 1 /\ Len(s) \in Nat \ {0}
      /\ \A i \in 1 .. Len(s) - 1 : u[i] = s[i + 1]
      /\ Head(s) = s[1]
  BY TailElems
<1>2. (Head(s).type = "DelRegexp" /\ Head(s).id = b.id) => Add(b) \in Elems(u)
  OBVIOUS
<1> HIDE DEF u
<1>3. DOMAIN u = 1 .. Len(s) - 1 /\ DOMAIN s = 1 .. Len(s)
  BY <1>1, LenProperties
<1>4. PICK j \in DOMAIN s : /\ s[j].type = "DelRegexp" /\ s[j].id = b.id
                            /\ \A i \in DOMAIN s : i > j => s[i] # Add(b)
  BY DEF Buried
<1>5. j # 1
  <2> SUFFICES ASSUME j = 1 PROVE FALSE
    OBVIOUS
  <2>1. PICK i \in DOMAIN u : u[i] = Add(b)
    BY <1>1, <1>2, <1>4 DEF Elems
  <2>2. i + 1 \in DOMAIN s /\ i + 1 > j /\ u[i] = s[i + 1]
    BY <1>1, <1>3
  <2> QED
    BY <1>4, <2>1, <2>2
<1>6. j - 1 \in DOMAIN u /\ (j - 1) + 1 = j
  BY <1>1, <1>3, <1>5
<1>7. u[j - 1] = s[j]
  BY <1>1, <1>3, <1>6
<1>8. ASSUME NEW i \in DOMAIN u, i > j - 1 PROVE u[i] # Add(b)
  <2>1. i + 1 \in DOMAIN s /\ i + 1 > j /\ u[i] = s[i + 1]
    BY <1>1, <1>3, <1>8
  <2> QED
    BY <1>4, <2>1
<1>9. Buried(u, b)
  BY <1>4, <1>6, <1>7, <1>8 DEF Buried
<1> QED
  BY <1>9 DEF u

LEMMA BuriedLast ==
  ASSUME NEW s \in Seq(Lines), NEW l \in Lines, l.type = "DelRegexp", NEW b, l.id = b.id
  PROVE  Buried(s \o <<l>>, b)
<1> DEFINE t == <<l>>
           u == s \o t
<1>1. t \in Seq(Lines) /\ Len(t) = 1 /\ t[1] = l
  BY SingleElems
<1> HIDE DEF t
<1>2. /\ u \in Seq(Lines) /\ Len(u) = Len(s) + Len(t)
      /\ \A i \in 1 .. Len(t) : u[Len(s) + i] = t[i]
  <2>1. t \in Seq(Lines)
    BY <1>1
  <2> QED
    BY <2>1, ConcatElems
<1> HIDE DEF u
<1>3. DOMAIN u = 1 .. Len(s) + 1 /\ Len(s) \in Nat /\ u[Len(s) + 1] = l
  BY <1>1, <1>2, LenProperties
<1>4. Len(s) + 1 \in DOMAIN u /\ \A i \in DOMAIN u : ~ (i > Len(s) + 1)
  BY <1>3
<1>5. Buried(u, b)
  BY <1>3, <1>4 DEF Buried
<1> QED
  BY <1>5 DEF u, t

LEMMA ForgetsMore ==
  ASSUME NEW s \in Seq(Lines), NEW t \in Seq(Lines), NEW S, NEW B, Forgets(s, S, B),
         \A l \in Elems(t) : l.type # "AddRegexp"
  PROVE  Forgets(s \o t, S, B)
<1>1. Elems(s \o t) = Elems(s) \cup Elems(t)
  BY ConcatElems
<1>2. ASSUME NEW b \in Binding, b \notin B, Add(b) \in Elems(s \o t) \/ b \in S
      PROVE  Buried(s \o t, b)
  <2>1. Add(b) \notin Elems(t)
    BY AddOK
  <2>2. Buried(s, b)
    BY <1>1, <1>2, <2>1 DEF Forgets
  <2> QED
    BY <2>1, <2>2, BuriedMore
<1> QED
  BY <1>2 DEF Forgets

LEMMA ForgetsHandled ==
  ASSUME NEW s \in Seq(Lines), s # <<>>, NEW S, NEW S2, NEW B, NEW F, Forgets(s, S, B),
         Handled(Head(s), S, S2, F),
         Head(s).type = "DelRegexp" => \A b \in S2 : b.id # Head(s).id
  PROVE  Forgets(Tail(s), S2, B)
<1>1. Elems(s) = {Head(s)} \cup Elems(Tail(s)) /\ Head(s) \in Lines
  BY TailElems
<1>2. ASSUME NEW b \in Binding, b \notin B, Add(b) \in Elems(Tail(s)) \/ b \in S2
      PROVE  Buried(Tail(s), b)
  <2>1. b \in S2 => b \in S \/ Head(s) = Add(b)
    <3>1. CASE Head(s).type = "AddRegexp"
      <4> DEFINE c == [id |-> Head(s).id, re |-> Head(s).arg]
      <4>1. Head(s) = Add(c)
        BY <1>1, <3>1, AddLine
      <4>2. S2 = IF Head(s).arg \in F THEN S ELSE S \cup {c}
        BY <3>1 DEF Handled
      <4> HIDE DEF c
      <4> QED
        BY <4>1, <4>2
    <3>2. CASE Head(s).type # "AddRegexp"
      BY <3>2 DEF Handled
    <3> QED
      BY <3>1, <3>2
  <2>2. Buried(s, b)
    BY <1>1, <1>2, <2>1 DEF Forgets
  <2>3. (Head(s).type = "DelRegexp" /\ Head(s).id = b.id) => Add(b) \in Elems(Tail(s))
    BY <1>2
  <2> QED
    BY <2>2, <2>3, BuriedTail
<1> QED
  BY <1>2 DEF Forgets

LEMMA ForgetsBound ==
  ASSUME NEW s \in Seq(Lines), NEW S, NEW B, Forgets(s, S, B), NEW b \in Binding,
         NEW B2, b \in B2, B \subseteq B2
  PROVE  Forgets(s \o <<Add(b)>>, S, B2)
<1> DEFINE t == <<Add(b)>>
<1>1. t \in Seq(Lines) /\ Elems(t) = {Add(b)}
  BY AddOK, SingleElems
<1> HIDE DEF t
<1>2. Elems(s \o t) = Elems(s) \cup {Add(b)}
  BY <1>1, ConcatElems
<1>3. ASSUME NEW c \in Binding, c \notin B2, Add(c) \in Elems(s \o t) \/ c \in S
      PROVE  Buried(s \o t, c)
  <2>1. Add(c) # Add(b)
    BY <1>3, AddInjective
  <2>2. Buried(s, c)
    BY <1>2, <1>3, <2>1 DEF Forgets
  <2> QED
    BY <1>1, <2>1, <2>2, BuriedMore
<1>4. Forgets(s \o t, S, B2)
  BY <1>3 DEF Forgets
<1> QED
  BY <1>4 DEF t

LEMMA ForgetsUnbound ==
  ASSUME NEW s \in Seq(Lines), NEW S, NEW B, Forgets(s, S, B),
         NEW id, NEW l \in Lines, l.type = "DelRegexp", l.id = id
  PROVE  Forgets(s \o <<l>>, S, {b \in B : b.id # id})
<1> DEFINE t == <<l>>
           B2 == {b \in B : b.id # id}
<1>1. t \in Seq(Lines) /\ Elems(t) = {l}
  BY SingleElems
<1>0. \A b : l.id = b.id => Buried(s \o t, b)
  BY BuriedLast
<1> HIDE DEF t
<1>2. Elems(s \o t) = Elems(s) \cup {l}
  BY <1>1, ConcatElems
<1>3. ASSUME NEW c \in Binding, c \notin B2, Add(c) \in Elems(s \o t) \/ c \in S
      PROVE  Buried(s \o t, c)
  <2>1. Add(c) # l
    BY AddOK
  <2>2. CASE c.id = id
    BY <1>0, <2>2
  <2>3. CASE c.id # id
    <3>1. Buried(s, c)
      BY <1>2, <1>3, <2>1, <2>3 DEF Forgets
    <3> QED
      BY <1>1, <2>1, <3>1, BuriedMore
  <2> QED
    BY <2>2, <2>3
<1> HIDE DEF B2
<1>4. Forgets(s \o t, S, B2)
  BY <1>3 DEF Forgets
<1> QED
  BY <1>4 DEF t, B2

LEMMA ForgetsGreeted ==
  ASSUME BindOK, NEW p \in App, NEW s \in Seq(Lines), Plain(s)
  PROVE  Forgets(s \o Service(p), {}, ListSubs(binds[p]))
<1>1. /\ Service(p) \in Seq(Lines)
      /\ \A b \in Binding : Add(b) \in Elems(Service(p)) => b \in ListSubs(binds[p])
  BY ServiceLines
<1>2. Elems(s \o Service(p)) = Elems(s) \cup Elems(Service(p))
  BY <1>1, ConcatElems
<1>3. \A b \in Binding : Add(b) \notin Elems(s)
  BY AddOK DEF Plain
<1> QED
  BY <1>1, <1>2, <1>3 DEF Forgets
-----------------------------------------------------------------------------
(* The registrations of an attended end against the bindings of its peer,  *)
(* whatever program calls IvyChangeMsg.                                     *)

Pass(x) == \A b \in Subs(x) : b.re \notin Filtered[Owner(x)]
Quiet(x) == sock[Peer(x)] = "pending" => Plain(chan[x]) /\ Subs(x) = {}
Intro(x) == Waiting(x) => Complete(chan[x], Subs(x), announced[Peer(x)], Filtered[Owner(x)])
Current(x) == Fed(x) => /\ DelIds(chan[x], nextId[Owner(Peer(x))])
                        /\ Reaches(chan[x], Subs(x), Bound(x), Filtered[Owner(x)])
Sound(x) == Attends(x) => Pass(x) /\ Quiet(x) /\ Intro(x) /\ Current(x)

(* The same against the deleted bindings: as long as none was changed. *)
Past(x) == Attends(x) /\ Fed(x) => Forgets(chan[x], Subs(x), Bound(x))

(* The system closed the sockets of an application that exited. *)
Shut == \A e \in Made : status[Owner(e)] = "exited" => ~ Open(e)

LEMMA ShutStep ==
  ASSUME Shape, Shut, [Next]_vars
  PROVE  Shut'
<1> USE DEF Shape
<1> SUFFICES ASSUME NEW e \in Made', status'[Owner(e)'] = "exited", Open(e)' PROVE FALSE
  BY DEF Shut
<1>1. CASE e \in Made
  <2>1. PICK a \in App : a = Owner(e) /\ e \in End /\ e \in EndsOf(a)
    BY <1>1, EndsOK
  <2>2. Owner(e)' = a
    BY <1>1, <2>1, LinkStep
  <2>3. Open(e) /\ status[a] # "exited" /\ status'[a] = "exited"
    BY <1>1, <2>1, <2>2, SockWanes DEF Open, Shut
  <2>4. ASSUME NEW c \in App, IvyStart(c) \/ SocketSendBroadcast(c) \/ IvyStop(c) PROVE FALSE
    <3>1. \E v \in {"bound", "running", "stopped"} : status' = [status EXCEPT ![c] = v]
      BY <2>4 DEF IvyStart, SocketSendBroadcast, IvyStop
    <3> QED
      BY <2>3, <3>1 DEF OwnOK
  <2>5. ASSUME NEW c \in App, Exit(c) PROVE FALSE
    <3>1. status' = [status EXCEPT ![c] = "exited"] /\ CloseSockets({y \in EndsOf(c) : Open(y)})
      BY <2>5 DEF Exit
    <3>2. c = a
      BY <2>3, <3>1 DEF OwnOK
    <3> DEFINE S == {y \in EndsOf(c) : Open(y)}
    <3>3. S \in SUBSET Made /\ e \in S
      BY <2>1, <2>3, <3>2, EndsOfMade
    <3>4. sock' = [y \in End |-> IF y \in S THEN "closed" ELSE sock[y]]
      BY <3>1, <3>3, CloseOK
    <3> QED
      BY <2>1, <3>3, <3>4 DEF Open
  <2>6. ASSUME NEW y \in Made, ReceiveDie(y) PROVE FALSE
    <3>1. status' = [status EXCEPT ![Owner(y)] = "stopped"]
      BY <2>6 DEF ReceiveDie
    <3> QED
      BY <2>3, <3>1 DEF OwnOK
  <2>7. ASSUME NEW y \in Made, HandleServer(y) \/ ReadEnd(y) \/ DeleteSocket(y) PROVE UNCHANGED status
    BY <2>7 DEF HandleServer, ReadEnd, DeleteSocket
  <2>8. ASSUME NEW y \in Made, Receive(y), ~ ReceiveDie(y) PROVE UNCHANGED status
    BY <2>8 DEF Receive, ReceiveBye, ReceiveError, ReceiveAddRegexp, ReceiveDelRegexp,
                ReceiveStartRegexp, ReceiveEndRegexp, ReceiveMsg, ReceiveIgnored
  <2>9. ASSUME NEW c \in App, Call(c) PROVE UNCHANGED status
    BY <2>9 DEF Call, IvyBindMsg, IvyUnbindMsg, IvyChangeMsg, IvySendMsg, IvySendDieMsg
  <2>10. ASSUME NEW b \in App, NEW c \in App, BroadcastReceive(b, c) PROVE UNCHANGED status
    BY <2>10, BroadcastCases
  <2>11. ASSUME UNCHANGED vars PROVE UNCHANGED status
    BY <2>11 DEF vars
  <2> QED
    BY <2>3, <2>4, <2>5, <2>6, <2>7, <2>8, <2>9, <2>10, <2>11 DEF Next
<1>2. CASE e \notin Made
  <2>1. PICK b \in App, a \in App, i \in End, c \in End : Connection(b, a, i, c) /\ e \in {i, c}
    BY <1>2, NewConnection
  <2>2. (Owner(e)' = b \/ Owner(e)' = a) /\ UNCHANGED status
    BY <2>1 DEF Connection
  <2>3. status[b] # "exited" /\ status[a] # "exited"
    BY <2>1 DEF Connection
  <2> QED
    BY <2>2, <2>3
<1> QED
  BY <1>1, <1>2

LEMMA SoundStep ==
  ASSUME Safe, BindIds, AnnOK, Shut, [Next]_vars, NEW x \in Made, Sound(x)
  PROVE  Sound(x)'
<1> USE DEF Safe, Shape
<1> SUFFICES ASSUME Attends(x)' PROVE Pass(x)' /\ Quiet(x)' /\ Intro(x)' /\ Current(x)'
  BY DEF Sound
<1>a. /\ x \in End /\ Peer(x) \in Made /\ Peer(Peer(x)) = x /\ chan[x] \in Seq(Lines)
      /\ Peer(x) \in End
  BY EndsOK DEF ChanOK
<1>p. PICK p \in App, o \in App : p = Owner(Peer(x)) /\ o = Owner(x)
  BY EndsOK
<1>q. Owner(Peer(x))' = p /\ Owner(x)' = o
  BY <1>a, <1>p, LinkStep
<1>s. Attends(x) /\ Open(x) /\ sock'[x] # "closed"
  BY AttendsWanes DEF Attends, Open
<1>b. Pass(x) /\ Quiet(x) /\ Intro(x) /\ Current(x)
  BY <1>s DEF Sound
<1> DEFINE F == Filtered[o]
           N == nextId[p]
           N2 == nextId'[p]
           A == announced[Peer(x)]
           A2 == announced'[Peer(x)]
<1>c. /\ \A b \in Subs(x) : b.re \notin F
      /\ sock[Peer(x)] = "pending" => Plain(chan[x]) /\ Subs(x) = {}
      /\ Waiting(x) => Complete(chan[x], Subs(x), A, F)
      /\ Fed(x) => DelIds(chan[x], N) /\ Reaches(chan[x], Subs(x), Bound(x), F)
  BY <1>b, <1>p DEF Pass, Quiet, Intro, Current
<1>d. /\ (\A b \in Subs(x)' : b.re \notin F) => Pass(x)'
      /\ (sock'[Peer(x)] = "pending" => Plain(chan'[x]) /\ Subs(x)' = {}) => Quiet(x)'
      /\ (Waiting(x)' => Complete(chan'[x], Subs(x)', A2, F)) => Intro(x)'
      /\ (Fed(x)' => DelIds(chan'[x], N2) /\ Reaches(chan'[x], Subs(x)', Bound(x)', F))
            => Current(x)'
  BY <1>q DEF Pass, Quiet, Intro, Current
<1>e. Waiting(x)' => Waiting(x)
  <2>1. cli[x].up \in BOOLEAN /\ cli[x].ignore \in BOOLEAN
    BY <1>a DEF CliOK, Client
  <2> QED
    BY <2>1, SockWanes, CliWanes DEF Waiting
<1>f. sock'[Peer(x)] = "pending" => sock[Peer(x)] = "pending"
  BY <1>a, SockWanes
<1>g. Fed(x)' => Fed(x) \/ Greets(x)
  BY <1>s, FedWanes DEF Attends
<1>h. Fed(x) => Peer(x) \in ClientsOf(p) /\ sock[Peer(x)] # "pending"
  BY <1>p DEF Fed, Held, HeldOpen
<1>i. Bound(x) = ListSubs(binds[p]) /\ Bound(x)' = ListSubs(binds'[p]) /\ N \in Nat
  BY <1>p, <1>q DEF Bound, BindOK
<1>j. Bound(x) \subseteq Binding
  BY <1>i, ServiceLines
<1> HIDE DEF F, N, N2, A, A2
<1>1. CASE Greets(x)
  <2>1. /\ sock[Peer(x)] = "pending" /\ sock'[Peer(x)] # "pending"
        /\ chan'[x] = chan[x] \o Service(p) /\ A2 = ListSubs(binds[p])
        /\ UNCHANGED <<reg, binds, nextId>>
    BY <1>1, <1>a, <1>p, <1>s DEF Greets, A2, AnnOK
  <2>2. Subs(x)' = Subs(x) /\ Plain(chan[x]) /\ Subs(x) = {}
    BY <1>c, <1>p, <1>q, <2>1 DEF Subs
  <2>3. Complete(chan[x] \o Service(p), {}, ListSubs(binds[p]), F)
    BY <1>a, <2>2, CompleteGreeted
  <2>4. /\ Reaches(chan[x] \o Service(p), {}, ListSubs(binds[p]), F)
        /\ DelIds(chan[x] \o Service(p), N2)
    BY <1>a, <2>2, ReachesGreeted
  <2> QED
    BY <1>d, <1>i, <2>1, <2>2, <2>3, <2>4
<1>2. CASE Idles(x)
  <2>1. PICK t \in Seq(Lines) : chan'[x] = chan[x] \o t /\ Plain(t)
    BY <1>2 DEF Idles, Gets
  <2>2. Subs(x)' = Subs(x) /\ Bound(x)' = Bound(x) /\ N2 = N /\ A2 = A
    BY <1>2, <1>p DEF Idles, Steady, N, N2, A, A2
  <2>3. Plain(chan[x]) => Plain(chan[x] \o t)
    BY <1>a, <2>1, ConcatElems DEF Plain
  <2>4. Waiting(x) => Complete(chan[x] \o t, Subs(x), A, F)
    BY <1>a, <1>c, <2>1, CompleteMore DEF Plain
  <2>5. Fed(x) => DelIds(chan[x] \o t, N) /\ Reaches(chan[x] \o t, Subs(x), Bound(x), F)
    BY <1>a, <1>c, <2>1, DelIdsMore, ReachesMore DEF Plain
  <2> QED
    BY <1>1, <1>c, <1>d, <1>e, <1>f, <1>g, <2>1, <2>2, <2>3, <2>4, <2>5
<1>3. CASE Hears(x)
  <2> DEFINE s == Tail(chan[x])
             l == Head(chan[x])
  <2>1. PICK t \in Seq(Lines) : chan'[x] = s \o t /\ Plain(t)
    BY <1>3 DEF Hears, Gets
  <2>2. chan[x] # <<>> /\ Bound(x)' = Bound(x) /\ N2 = N /\ A2 = A
    BY <1>3, <1>p DEF Hears, Steady, N, N2, A, A2
  <2>3. Handled(l, Subs(x), Subs(x)', F) /\ (l.type = "EndRegexp" => ~ Waiting(x)')
    BY <1>3, <1>p DEF Hears, Takes, Handled, F
  <2>4. s \in Seq(Lines) /\ Elems(chan[x]) = {l} \cup Elems(s)
    BY <1>a, <2>2, TailElems
  <2>5. ASSUME Waiting(x)' PROVE Complete(s, Subs(x)', A, F)
    BY <1>a, <1>c, <1>e, <2>2, <2>3, <2>5, CompleteHandled
  <2>6. ASSUME Fed(x) PROVE DelIds(s, N) /\ Reaches(s, Subs(x)', Bound(x), F)
    BY <1>a, <1>c, <1>j, <2>2, <2>3, <2>6, DelIdsHandled, ReachesHandled
  <2>7. \A b \in Subs(x)' : b.re \notin F
    <3>1. CASE l.type = "AddRegexp"
      <4> DEFINE c == [id |-> l.id, re |-> l.arg]
      <4>1. c.re = l.arg /\ Subs(x)' = IF l.arg \in F THEN Subs(x) ELSE Subs(x) \cup {c}
        BY <2>3, <3>1 DEF Handled
      <4> HIDE DEF c
      <4> QED
        BY <1>c, <4>1
    <3>2. CASE l.type # "AddRegexp"
      BY <1>c, <2>3, <3>2 DEF Handled
    <3> QED
      BY <3>1, <3>2
  <2>8. Plain(chan[x]) => Plain(s) /\ Subs(x)' = Subs(x)
    BY <2>3, <2>4 DEF Plain, Handled
  <2> HIDE DEF s, l
  <2>9. Plain(s) => Plain(s \o t)
    BY <2>1, <2>4, ConcatElems DEF Plain
  <2>10. Waiting(x)' => Complete(s \o t, Subs(x)', A, F)
    BY <2>1, <2>4, <2>5, CompleteMore DEF Plain
  <2>11. Fed(x) => DelIds(s \o t, N) /\ Reaches(s \o t, Subs(x)', Bound(x), F)
    BY <2>1, <2>4, <2>6, DelIdsMore, ReachesMore DEF Plain
  <2> QED
    BY <1>1, <1>c, <1>d, <1>f, <1>g, <2>1, <2>2, <2>7, <2>8, <2>9, <2>10, <2>11
<1>4. CASE Shrinks(x)
  <2>1. /\ ~ Fed(x)' /\ sock'[Peer(x)] # "pending" /\ Subs(x)' = Subs(x) /\ A2 = A
    BY <1>4 DEF Shrinks, A, A2
  <2>2. PICK n \in 0 .. Len(chan[x]) : chan'[x] = SubSeq(chan[x], 1, n)
    BY <1>4 DEF Shrinks
  <2>3. Waiting(x) => Complete(SubSeq(chan[x], 1, n), Subs(x), A, F)
    BY <1>a, <1>c, CompletePrefix
  <2> QED
    BY <1>c, <1>d, <1>e, <2>1, <2>2, <2>3
<1>t. ASSUME NEW l \in Lines, Told(x, l), l.type \in {"AddRegexp", "DelRegexp"},
             Subs(x)' = Subs(x), A2 = A
      PROVE  /\ Pass(x)' /\ Intro(x)' /\ Quiet(x)'
             /\ Fed(x) => chan'[x] = chan[x] \o <<l>>
  <2>1. chan'[x] = IF Peer(x) \in ClientsOf(p) THEN chan[x] \o <<l>> ELSE chan[x]
    BY <1>p, <1>t DEF Told
  <2> DEFINE t == <<l>>
  <2>2. t \in Seq(Lines) /\ Elems(t) = {l}
    BY SingleElems
  <2>3. chan'[x] = IF Peer(x) \in ClientsOf(p) THEN chan[x] \o t ELSE chan[x]
    BY <2>1
  <2> HIDE DEF t
  <2>4. Waiting(x) => Complete(chan[x] \o t, Subs(x), A, F)
    BY <1>a, <1>c, <1>t, <2>2, CompleteMore
  <2>5. ASSUME sock[Peer(x)] = "pending" PROVE Peer(x) \notin ClientsOf(p)
    <3>1. status[p] # "exited"
      BY <1>a, <1>p, <2>5 DEF Shut, Open
    <3> QED
      BY <2>5, <3>1 DEF Held, HeldOpen
  <2> QED
    BY <1>c, <1>d, <1>e, <1>f, <1>h, <1>t, <2>1, <2>3, <2>4, <2>5
<1>5. CASE Binds(x)
  <2>1. PICK b \in Binding :
             /\ Subs(x)' = Subs(x) /\ A2 = A /\ Told(x, Add(b)) /\ Bound(x)' \subseteq Bound(x) \cup {b}
             /\ \/ b.id = N /\ N2 = N + 1
                \/ N2 = N /\ \E old \in Bound(x) : old.id = b.id
    BY <1>5, <1>p DEF Binds, N, N2, A, A2
  <2>2. Add(b) \in Lines /\ Add(b).type = "AddRegexp"
    BY AddOK
  <2>3. ASSUME Fed(x)
        PROVE  DelIds(chan[x] \o <<Add(b)>>, N2) /\ Reaches(chan[x] \o <<Add(b)>>, Subs(x), Bound(x)', F)
    <3>1. Reaches(chan[x] \o <<Add(b)>>, Subs(x), Bound(x)', F)
      BY <1>a, <1>c, <1>i, <2>1, <2>3, ReachesBound
    <3> DEFINE t == <<Add(b)>>
    <3>2. t \in Seq(Lines) /\ Elems(t) = {Add(b)}
      BY <2>2, SingleElems
    <3> HIDE DEF t
    <3>3. DelIds(chan[x], N2)
      <4>1. \A l \in Elems(chan[x]) : l.id \in Nat
        BY <1>a, LineFields, LenProperties, ElementOfSeq DEF Elems
      <4> QED
        BY <1>c, <1>i, <2>1, <2>3, <4>1 DEF DelIds
    <3>4. DelIds(chan[x] \o t, N2)
      BY <1>a, <2>2, <3>2, <3>3, DelIdsMore
    <3> QED
      BY <3>1, <3>4 DEF t
  <2> QED
    BY <1>1, <1>d, <1>g, <1>t, <2>1, <2>2, <2>3
<1>6. CASE Unbinds(x)
  <2>1. PICK id \in Nat :
             /\ Subs(x)' = Subs(x) /\ A2 = A /\ Told(x, Line("DelRegexp", id, p))
             /\ id < N /\ N2 = N /\ Bound(x)' = {b \in Bound(x) : b.id # id}
    BY <1>6, <1>p DEF Unbinds, N, N2, A, A2
  <2>2. PICK l \in Lines : l = Line("DelRegexp", id, p) /\ l.type = "DelRegexp" /\ l.id = id
    BY LinesOK
  <2>3. ASSUME Fed(x)
        PROVE  DelIds(chan[x] \o <<l>>, N) /\ Reaches(chan[x] \o <<l>>, Subs(x), Bound(x)', F)
    <3>1. Reaches(chan[x] \o <<l>>, Subs(x), Bound(x)', F)
      BY <1>a, <1>c, <2>1, <2>2, <2>3, ReachesUnbound
    <3> DEFINE t == <<l>>
    <3>2. t \in Seq(Lines) /\ Elems(t) = {l}
      BY <2>2, SingleElems
    <3> HIDE DEF t
    <3>3. DelIds(chan[x] \o t, N)
      BY <1>a, <1>c, <2>1, <2>2, <2>3, <3>2, DelIdsMore
    <3> QED
      BY <3>1, <3>3 DEF t
  <2> QED
    BY <1>1, <1>d, <1>g, <1>t, <2>1, <2>2, <2>3
<1> QED
  BY <1>1, <1>2, <1>3, <1>4, <1>5, <1>6, Moves

LEMMA PastStep ==
  ASSUME Safe, BindIds, AnnOK, Shut, Agree, Still, [Next]_vars, NEW x \in Made, Sound(x), Past(x)
  PROVE  Past(x)'
<1> USE DEF Safe, Shape
<1> SUFFICES ASSUME Attends(x)', Fed(x)' PROVE Forgets(chan'[x], Subs(x)', Bound(x)')
  BY DEF Past
<1>a. /\ x \in End /\ Peer(x) \in Made /\ Peer(Peer(x)) = x /\ chan[x] \in Seq(Lines)
      /\ Peer(x) \in End
  BY EndsOK DEF ChanOK
<1>p. PICK p \in App, o \in App : p = Owner(Peer(x)) /\ o = Owner(x)
  BY EndsOK
<1>q. Owner(Peer(x))' = p /\ Owner(x)' = o
  BY <1>a, <1>p, LinkStep
<1>s. Attends(x) /\ Open(x) /\ sock'[x] # "closed"
  BY AttendsWanes DEF Attends, Open
<1>i. Bound(x) = ListSubs(binds[p]) /\ Bound(x)' = ListSubs(binds'[p])
  BY <1>p, <1>q DEF Bound
<1>1. CASE Greets(x)
  <2>1. /\ sock[Peer(x)] = "pending" /\ chan'[x] = chan[x] \o Service(p)
        /\ UNCHANGED <<reg, binds>>
    BY <1>1, <1>p, <1>s DEF Greets
  <2>2. Plain(chan[x]) /\ Subs(x) = {}
    BY <1>s, <2>1 DEF Sound, Quiet
  <2>3. Subs(x)' = {}
    BY <1>p, <1>q, <2>1, <2>2 DEF Subs
  <2>4. Forgets(chan[x] \o Service(p), {}, ListSubs(binds[p]))
    BY <1>a, <2>2, ForgetsGreeted
  <2> QED
    BY <1>i, <2>1, <2>3, <2>4
<1>2. CASE ~ Greets(x)
  <2>0. Fed(x) /\ Forgets(chan[x], Subs(x), Bound(x)) /\ Peer(x) \in ClientsOf(p)
    <3>1. Fed(x)
      BY <1>2, <1>s, FedWanes DEF Attends
    <3> QED
      BY <1>p, <1>s, <3>1 DEF Past, Fed
  <2>1. CASE Idles(x)
    <3>1. PICK t \in Seq(Lines) : chan'[x] = chan[x] \o t /\ Plain(t)
      BY <2>1 DEF Idles, Gets
    <3>2. Subs(x)' = Subs(x) /\ Bound(x)' = Bound(x)
      BY <2>1 DEF Idles, Steady
    <3>3. Forgets(chan[x] \o t, Subs(x), Bound(x))
      BY <1>a, <2>0, <3>1, ForgetsMore DEF Plain
    <3> QED
      BY <3>1, <3>2, <3>3
  <2>2. CASE Hears(x)
    <3> DEFINE s == Tail(chan[x])
               l == Head(chan[x])
               F == Filtered[Owner(x)]
    <3>1. PICK t \in Seq(Lines) : chan'[x] = s \o t /\ Plain(t)
      BY <2>2 DEF Hears, Gets
    <3>2. chan[x] # <<>> /\ Bound(x)' = Bound(x)
      BY <2>2 DEF Hears, Steady
    <3>3. /\ Handled(l, Subs(x), Subs(x)', F)
          /\ l.type = "DelRegexp" => \A b \in Subs(x)' : b.id # l.id
      BY <2>2 DEF Hears, Takes, Handled
    <3>4. s \in Seq(Lines)
      BY <1>a, <3>2, TailElems
    <3>5. Forgets(s, Subs(x)', Bound(x))
      BY <1>a, <2>0, <3>2, <3>3, ForgetsHandled
    <3> HIDE DEF s
    <3>6. Forgets(s \o t, Subs(x)', Bound(x))
      BY <3>1, <3>4, <3>5, ForgetsMore DEF Plain
    <3> QED
      BY <3>1, <3>2, <3>6
  <2>3. CASE Shrinks(x)
    BY <2>3 DEF Shrinks
  <2>4. CASE Binds(x)
    <3>1. PICK b \in Binding : /\ Subs(x)' = Subs(x) /\ Told(x, Add(b))
                               /\ b \in Bound(x)' /\ Bound(x) \subseteq Bound(x)'
      BY <2>4 DEF Binds
    <3>2. chan'[x] = chan[x] \o <<Add(b)>>
      BY <1>p, <2>0, <3>1 DEF Told
    <3>3. Forgets(chan[x] \o <<Add(b)>>, Subs(x), Bound(x)')
      BY <1>a, <2>0, <3>1, ForgetsBound
    <3> QED
      BY <3>1, <3>2, <3>3
  <2>5. CASE Unbinds(x)
    <3>1. PICK id \in Nat : /\ Subs(x)' = Subs(x) /\ Told(x, Line("DelRegexp", id, p))
                            /\ Bound(x)' = {b \in Bound(x) : b.id # id}
      BY <1>p, <2>5 DEF Unbinds
    <3>2. PICK l \in Lines : l = Line("DelRegexp", id, p) /\ l.type = "DelRegexp" /\ l.id = id
      BY LinesOK
    <3>3. chan'[x] = chan[x] \o <<l>>
      BY <1>p, <2>0, <3>1, <3>2 DEF Told
    <3>4. Forgets(chan[x] \o <<l>>, Subs(x), {b \in Bound(x) : b.id # id})
      BY <1>a, <2>0, <3>2, ForgetsUnbound
    <3> QED
      BY <3>1, <3>3, <3>4
  <2> QED
    BY <1>2, <2>1, <2>2, <2>3, <2>4, <2>5, Moves
<1> QED
  BY <1>1, <1>2

(* A new connection: the one who connects announces at once, the other    *)
(* when it accepts.                                                        *)
LEMMA SoundNew ==
  ASSUME Safe, AnnOK, [Next]_vars, NEW x \in Made' \ Made
  PROVE  Sound(x)' /\ Past(x)'
<1> USE DEF Safe, Shape
<1>1. PICK b \in App, a \in App, i \in End, c \in End : Connection(b, a, i, c) /\ x \in {i, c}
  BY NewConnection
<1>2. i \in End \ Made /\ c \in End \ Made /\ i # c /\ Peer(i) = c /\ Peer(c) = i /\ a # b
  BY <1>1 DEF Connection
<1>3. /\ Made' = Made \cup {i, c} /\ Owner(i)' = b /\ Owner(c)' = a
      /\ UNCHANGED <<reg, binds, nextId>>
  BY <1>1 DEF Connection
<1>4. SendService(b, i) /\ sock' = [sock EXCEPT ![i] = "open", ![c] = "pending"]
  BY <1>1 DEF Connection
<1>5. /\ \A y \in End : y # c => chan'[y] = chan[y]
      /\ chan'[c] = IF sock'[c] = "closed" THEN chan[c] ELSE chan[c] \o Service(b)
      /\ \A d \in App : d # b => ClientsOf(d)' = ClientsOf(d)
  BY <1>2, <1>4, SendServiceOK
<1>6. /\ chan[i] = <<>> /\ chan[c] = <<>> /\ sock'[c] = "pending" /\ sock'[i] = "open"
  BY <1>2, <1>4 DEF ChanOK, SockOK
<1>7. ASSUME NEW d \in App, NEW y \in {i, c} PROVE DictSubs(reg[d].dict, y) = {} /\ y \notin ClientsOf(d)
  <2>1. y \notin ClientsOf(d)
    BY <1>2, <1>7, EndsOfMade DEF Held, HeldOwn
  <2> QED
    BY <2>1 DEF Tidy
<1>8. Subs(x)' = {}
  BY <1>1, <1>3, <1>7 DEF Subs
<1>9. Plain(<<>>) /\ <<>> \in Seq(Lines) /\ <<>> \o Service(b) = Service(b)
  <2>1. Service(b) \in Seq(Lines)
    BY ServiceOK
  <2> QED
    BY <2>1, NothingAdded, ConcatEmptySeq DEF Plain
<1>10. CASE x = i
  <2>1. chan'[x] = <<>>
    BY <1>2, <1>5, <1>6, <1>10
  <2>2. ~ Fed(x)'
    <3>1. Owner(Peer(x))' = a /\ Peer(x) = c
      BY <1>2, <1>3, <1>10
    <3>2. c \notin ClientsOf(a)'
      BY <1>2, <1>5, <1>7
    <3> QED
      BY <3>1, <3>2 DEF Fed
  <2>3. \A S, A, F : Complete(<<>>, S, A, F)
    BY DEF Complete
  <2> QED
    BY <1>8, <1>9, <2>1, <2>2, <2>3 DEF Sound, Past, Pass, Quiet, Intro, Current
<1>11. CASE x = c
  <2>1. chan'[x] = <<>> \o Service(b) /\ sock'[Peer(x)] # "pending" /\ Owner(Peer(x))' = b
    BY <1>2, <1>3, <1>5, <1>6, <1>11
  <2>2. announced'[Peer(x)] = ListSubs(binds[b])
    BY <1>2, <1>4, <1>11 DEF SendService, AnnOK
  <2>3. Bound(x)' = ListSubs(binds[b])
    BY <1>3, <2>1 DEF Bound
  <2>4. \A F : Complete(<<>> \o Service(b), {}, ListSubs(binds[b]), F)
    BY <1>9, CompleteGreeted
  <2>5. \A F, n : /\ Reaches(<<>> \o Service(b), {}, ListSubs(binds[b]), F)
                  /\ DelIds(<<>> \o Service(b), n)
    BY <1>9, ReachesGreeted
  <2>6. Forgets(<<>> \o Service(b), {}, ListSubs(binds[b]))
    BY <1>9, ForgetsGreeted
  <2>7. Pass(x)' /\ Quiet(x)'
    BY <1>8, <2>1 DEF Pass, Quiet
  <2>8. Intro(x)' /\ Current(x)'
    BY <1>8, <2>1, <2>2, <2>3, <2>4, <2>5 DEF Intro, Current
  <2>9. Past(x)'
    BY <1>8, <2>1, <2>3, <2>6 DEF Past
  <2> QED
    BY <2>7, <2>8, <2>9 DEF Sound
<1> QED
  BY <1>1, <1>10, <1>11
-----------------------------------------------------------------------------
(* readyToSend.  SendService leaves it at 1 and EndRegexp counts it up, so  *)
(* that an end is up once it is 2.                                          *)

Talks(x) == sock[x] \in {"open", "marked"}
ReadyOK == \A x \in End : /\ cli[x].up => cli[x].ready >= 2
                          /\ Talks(x) => cli[x].ready >= 1

ReadyKept(x) ==
  cli'[x].ready = cli[x].ready /\ cli'[x].up = cli[x].up /\ (Talks(x)' => Talks(x))
Renewed(x) == cli'[x] = [NewClient EXCEPT !.ready = 1]
Counts(x) ==
  /\ x \in Made /\ ReceiveEndRegexp(x)
  /\ cli'[x].up /\ cli'[x].ready = cli[x].ready + 1 /\ UNCHANGED sock

LEMMA ReadyMoves ==
  ASSUME Shape, [Next]_vars, NEW x \in End
  PROVE  ReadyKept(x) \/ Renewed(x) \/ Counts(x)
<1> USE DEF Shape
<1> DEFINE Goal == ReadyKept(x) \/ Renewed(x) \/ Counts(x)
<1>a. cli[x] \in Client
  BY DEF CliOK
<1>b. ASSUME cli'[x].ready = cli[x].ready, cli'[x].up = cli[x].up,
             UNCHANGED sock \/ \E t : sock' = Marked(t)
      PROVE  Goal
  BY <1>b DEF Marked, SockOK, Talks, ReadyKept
<1>c. ASSUME UNCHANGED cli, NEW S \in SUBSET Made, CloseSockets(S) PROVE Goal
  <2>1. sock' = [e \in End |-> IF e \in S THEN "closed" ELSE sock[e]]
    BY <1>c, CloseOK
  <2> QED
    BY <1>c, <2>1 DEF Talks, ReadyKept
<1>1. ASSUME NEW b \in App, NEW a \in App, BroadcastReceive(b, a) PROVE Goal
  <2>1. CASE UNCHANGED <<sock, cli>>
    BY <1>b, <2>1
  <2>2. ASSUME NEW k \in {Len(link) + 1}, k =< MaxConn, SendService(b, <<k, "i">>),
               sock' = [sock EXCEPT ![<<k, "i">>] = "open", ![<<k, "a">>] = "pending"]
        PROVE  Goal
    <3> DEFINE i == <<k, "i">>
               c == <<k, "a">>
    <3>1. i \in End /\ c \in End /\ i # c
      BY <2>2, NewEnds
    <3>2. /\ SendService(b, i) /\ sock' = [sock EXCEPT ![i] = "open", ![c] = "pending"]
      BY <2>2
    <3> HIDE DEF i, c
    <3>3. cli'[i] = [NewClient EXCEPT !.ready = 1] /\ \A y \in End : y # i => cli'[y] = cli[y]
      BY <3>1, <3>2, SendServiceOK
    <3>4. x # i => sock'[x] = sock[x] \/ sock'[x] = "pending"
      BY <3>1, <3>2 DEF SockOK
    <3> QED
      BY <3>3, <3>4 DEF Talks, ReadyKept, Renewed
  <2> QED
    BY <1>1, <2>1, <2>2, BroadcastCases
<1>2. ASSUME NEW e \in Made, HandleServer(e) PROVE Goal
  <2>1. PICK a \in App : a = Owner(e) /\ e \in End
    BY EndsOK
  <2>2. \/ UNCHANGED cli /\ sock' = [sock EXCEPT ![e] = "refused"]
        \/ SendService(a, e) /\ sock' = [sock EXCEPT ![e] = "open"]
    BY <1>2, <2>1 DEF HandleServer
  <2>3. CASE UNCHANGED cli /\ sock' = [sock EXCEPT ![e] = "refused"]
    BY <2>1, <2>3 DEF SockOK, Talks, ReadyKept
  <2>4. CASE SendService(a, e) /\ sock' = [sock EXCEPT ![e] = "open"]
    <3>1. cli'[e] = [NewClient EXCEPT !.ready = 1] /\ \A y \in End : y # e => cli'[y] = cli[y]
      BY <2>1, <2>4, SendServiceOK
    <3>2. x # e => sock'[x] = sock[x]
      BY <2>1, <2>4 DEF SockOK
    <3> QED
      BY <3>1, <3>2 DEF Talks, ReadyKept, Renewed
  <2> QED
    BY <2>2, <2>3, <2>4
<1>3. ASSUME NEW e \in Made, ReceiveStartRegexp(e) PROVE Goal
  <2> DEFINE named == [cli EXCEPT ![e].port = Head(chan[e]).id]
  <2>1. /\ cli' = named \/ \E t : cli' = [named EXCEPT ![t].ignore = TRUE]
        /\ UNCHANGED sock \/ \E t : sock' = Marked(t)
    BY <1>3 DEF ReceiveStartRegexp
  <2>2. named[x].up = cli[x].up /\ named[x].ready = cli[x].ready /\ x \in DOMAIN named
    BY <1>a DEF CliOK, Client
  <2>3. named \in [End -> Client]
    <3>1. e \in End /\ Head(chan[e]) \in Lines
      BY <1>3, EndsOK, RestOK DEF ReceiveStartRegexp, Handles
    <3> QED
      BY <3>1, LineFields DEF CliOK, Client
  <2> HIDE DEF named
  <2>4. cli'[x].ready = cli[x].ready /\ cli'[x].up = cli[x].up
    BY <2>1, <2>2, <2>3 DEF Client
  <2> QED
    BY <1>b, <2>1, <2>4
<1>4. ASSUME NEW e \in Made, ReceiveEndRegexp(e) PROVE Goal
  <2>1. cli' = [cli EXCEPT ![e].up = TRUE, ![e].ready = cli[e].ready + 1] /\ UNCHANGED sock
    BY <1>4 DEF ReceiveEndRegexp
  <2>2. CASE x = e
    BY <1>4, <1>a, <2>1, <2>2 DEF CliOK, Client, Counts
  <2>3. CASE x # e
    BY <1>a, <1>b, <2>1, <2>3 DEF CliOK, Client
  <2> QED
    BY <2>2, <2>3
<1>5. ASSUME NEW e \in Made, ReceiveDie(e) PROVE Goal
  <2> DEFINE all == ClientsOf(Owner(e))
  <2>1. /\ sock' = [y \in End |-> IF y \in all /\ sock[y] = "open" THEN "marked" ELSE sock[y]]
        /\ UNCHANGED cli
    BY <1>5 DEF ReceiveDie
  <2> HIDE DEF all
  <2> QED
    BY <2>1 DEF Talks, ReadyKept
<1>6. ASSUME NEW e \in Made, Receive(e),
             ~ ReceiveStartRegexp(e), ~ ReceiveEndRegexp(e), ~ ReceiveDie(e)
      PROVE  Goal
  <2>1. UNCHANGED cli /\ (UNCHANGED sock \/ \E t : sock' = Marked(t))
    BY <1>6 DEF Receive, ReceiveBye, ReceiveError, ReceiveAddRegexp, ReceiveDelRegexp,
                ReceiveMsg, ReceiveIgnored
  <2> QED
    BY <1>b, <2>1
<1>7. ASSUME NEW e \in Made, ReadEnd(e) PROVE Goal
  BY <1>b, <1>7 DEF ReadEnd
<1>8. ASSUME NEW e \in Made, DeleteSocket(e) PROVE Goal
  <2>1. {e} \in SUBSET Made /\ CloseSockets({e}) /\ UNCHANGED cli
    BY <1>8 DEF DeleteSocket
  <2> QED
    BY <1>c, <2>1
<1>9. ASSUME NEW a \in App, Exit(a) PROVE Goal
  <2> DEFINE S == {e \in EndsOf(a) : Open(e)}
  <2>1. S \in SUBSET Made /\ CloseSockets(S) /\ UNCHANGED cli
    BY <1>9, EndsOfMade DEF Exit
  <2> HIDE DEF S
  <2> QED
    BY <1>c, <2>1
<1>10. ASSUME NEW a \in App, IvyStart(a) \/ SocketSendBroadcast(a) \/ IvyStop(a) \/ Call(a)
       PROVE  UNCHANGED <<sock, cli>>
  BY <1>10 DEF IvyStart, SocketSendBroadcast, IvyStop, Call, IvyBindMsg, IvyUnbindMsg,
               IvyChangeMsg, IvySendMsg, IvySendDieMsg
<1>11. ASSUME UNCHANGED vars PROVE UNCHANGED <<sock, cli>>
  BY <1>11 DEF vars
<1>12. UNCHANGED <<sock, cli>> => Goal
  BY <1>b
<1> HIDE DEF Goal
<1>13. Goal
  BY <1>1, <1>2, <1>3, <1>4, <1>5, <1>6, <1>7, <1>8, <1>9, <1>10, <1>11, <1>12 DEF Next
<1> QED
  BY <1>13 DEF Goal

LEMMA ReadyStep ==
  ASSUME Shape, ReadyOK, [Next]_vars
  PROVE  ReadyOK'
<1> SUFFICES ASSUME NEW x \in End
             PROVE  /\ cli'[x].up => cli'[x].ready >= 2
                    /\ Talks(x)' => cli'[x].ready >= 1
  BY DEF ReadyOK
<1>1. cli[x] \in Client /\ cli[x].ready \in Nat
  BY DEF Shape, CliOK, Client
<1>2. CASE ReadyKept(x)
  BY <1>2 DEF ReadyKept, ReadyOK
<1>3. CASE Renewed(x)
  <2>1. cli'[x].ready = 1 /\ cli'[x].up = FALSE
    BY <1>3 DEF Renewed, NewClient
  <2> QED
    BY <2>1
<1>4. CASE Counts(x)
  <2>1. Talks(x)
    BY <1>4 DEF Counts, ReceiveEndRegexp, Handles, Talks
  <2>2. cli[x].ready >= 1
    BY <2>1 DEF ReadyOK
  <2> QED
    BY <1>1, <1>4, <2>2 DEF Counts
<1> QED
  BY <1>2, <1>3, <1>4, ReadyMoves

(* What the registrations of every end have to do with the bindings of its *)
(* peer.                                                                    *)
Synced == /\ Safe /\ BindIds /\ AnnOK /\ Shut /\ ReadyOK
          /\ \A x \in Made : Sound(x)

LEMMA SyncedInit == Init => Synced
<1> SUFFICES ASSUME Init PROVE Synced
  OBVIOUS
<1>1. Made = {}
  BY DEF Init, Made
<1>2. BindIds
  BY DEF Init, BindIds, Tagged
<1>3. AnnOK
  BY DEF Init, AnnOK
<1>4. ReadyOK
  BY DEF Init, ReadyOK, Talks, NewClient
<1> QED
  BY <1>1, <1>2, <1>3, <1>4, SafeInit DEF Synced, Shut

LEMMA SyncedStep == Synced /\ [Next]_vars => Synced'
<1> SUFFICES ASSUME Synced, [Next]_vars PROVE Synced'
  OBVIOUS
<1>1. Safe /\ Shape /\ BindIds /\ AnnOK /\ Shut /\ ReadyOK /\ \A x \in Made : Sound(x)
  BY DEF Synced, Safe
<1>2. Safe' /\ BindIds' /\ AnnOK' /\ Shut' /\ ReadyOK'
  BY <1>1, SafeStep, BindIdsStep, AnnStep, ShutStep, ReadyStep
<1>3. ASSUME NEW x \in Made' PROVE Sound(x)'
  <2>1. CASE x \in Made
    BY <1>1, <2>1, SoundStep
  <2>2. CASE x \notin Made
    BY <1>1, <2>2, SoundNew
  <2> QED
    BY <2>1, <2>2
<1> QED
  BY <1>2, <1>3 DEF Synced

(* A settled end has all that its peer binds and the filter lets pass, and  *)
(* nothing the filter refuses.                                              *)
LEMMA SettledHolds ==
  ASSUME Synced, NEW e \in Made, Settled(e)
  PROVE  /\ Attends(e) /\ Fed(e) /\ chan[e] = <<>>
         /\ Wanted(Owner(e), Bound(e)) \subseteq Subs(e)
         /\ \A b \in Subs(e) : b.re \notin Filtered[Owner(e)]
<1>1. PICK p \in App : p = Owner(Peer(e)) /\ Peer(e) \in Made
  BY EndsOK DEF Synced, Safe, Shape
<1>2. Attends(e) /\ chan[e] = <<>>
  BY DEF Settled, Attends, Open
<1>3. Fed(e)
  <2>1. Open(Peer(e)) /\ Peer(e) \in ClientsOf(p)
    BY <1>1 DEF Settled, Open
  <2>2. status[p] # "exited"
    BY <1>1, <2>1 DEF Synced, Shut
  <2> QED
    BY <1>1, <2>1, <2>2 DEF Fed
<1>4. Reaches(<<>>, Subs(e), Bound(e), Filtered[Owner(e)]) /\ Pass(e)
  BY <1>2, <1>3 DEF Synced, Sound, Current
<1>5. Elems(<<>>) = {}
  BY DEF Elems
<1> QED
  BY <1>2, <1>3, <1>4, <1>5 DEF Reaches, Pass, Wanted

(* CurrentHeld for every number of applications, connections, bindings and  *)
(* changes: a peer that has handled all it was sent has the current text of *)
(* every binding its filter lets pass, however IvyBindMsg, IvyChangeMsg,    *)
(* IvyUnbindMsg and the handshakes of SendService interleave.               *)
THEOREM CurrentAlwaysHeld == Spec => []CurrentHeld
<1>1. Synced => CurrentHeld
  <2> SUFFICES ASSUME Synced, NEW e \in Made, Settled(e)
               PROVE  Wanted(Owner(e), ListSubs(binds[Owner(Peer(e))]))
                        \subseteq DictSubs(reg[Owner(e)].dict, e)
    BY DEF CurrentHeld
  <2> QED
    BY SettledHolds DEF Subs, Bound
<1> QED
  BY <1>1, SyncedInit, SyncedStep, PTL DEF Spec

(* Mirrored, as long as no program calls IvyChangeMsg, for every number of  *)
(* applications, connections and bindings: a peer that has handled all it   *)
(* was sent has exactly the current bindings its filter lets pass.  What    *)
(* was unbound while its AddRegexp was on the way, or before the connection *)
(* was accepted, is not left behind.                                        *)
THEOREM AlwaysMirrored ==
  ASSUME MaxChanges = 0
  PROVE  Spec => []Mirrored
<1> DEFINE IInv == Traced /\ Synced /\ \A x \in Made : Past(x)
<1>1. Init => IInv
  <2>1. Init => Made = {}
    BY DEF Init, Made
  <2> QED
    BY <2>1, TracedInit, SyncedInit
<1>2. IInv /\ [Next]_vars => IInv'
  <2> SUFFICES ASSUME IInv, [Next]_vars PROVE IInv'
    OBVIOUS
  <2>1. Traced' /\ Synced'
    BY TracedStep, SyncedStep
  <2>2. /\ Safe /\ BindIds /\ AnnOK /\ Shut /\ Agree /\ Still
        /\ \A x \in Made : Sound(x) /\ Past(x)
    BY DEF Synced, Traced
  <2>3. ASSUME NEW x \in Made' PROVE Past(x)'
    <3>1. CASE x \in Made
      BY <2>2, <3>1, PastStep
    <3>2. CASE x \notin Made
      BY <2>2, <3>2, SoundNew
    <3> QED
      BY <3>1, <3>2
  <2> QED
    BY <2>1, <2>3
<1>3. IInv => Mirrored
  <2> SUFFICES ASSUME IInv, NEW e \in Made, Settled(e)
               PROVE  DictSubs(reg[Owner(e)].dict, e)
                        = Wanted(Owner(e), ListSubs(binds[Owner(Peer(e))]))
    BY DEF Mirrored
  <2>1. /\ Attends(e) /\ Fed(e) /\ chan[e] = <<>>
        /\ Wanted(Owner(e), Bound(e)) \subseteq Subs(e)
        /\ \A b \in Subs(e) : b.re \notin Filtered[Owner(e)]
    BY SettledHolds
  <2>2. Forgets(<<>>, Subs(e), Bound(e))
    BY <2>1 DEF Past
  <2>3. \A b : ~ Buried(<<>>, b)
    BY DEF Buried
  <2>4. ASSUME NEW b \in Subs(e) PROVE b \in Binding
    <3>1. reg[Owner(e)].dict \in Dictionary(Re, End)
      BY EndsOK DEF Synced, Safe, Shape, RegOK, Registry
    <3> QED
      BY <2>4, <3>1, SubsOK DEF Subs, Binding
  <2>5. Subs(e) \subseteq Wanted(Owner(e), Bound(e))
    BY <2>1, <2>2, <2>3, <2>4 DEF Forgets, Wanted
  <2> QED
    BY <2>1, <2>5 DEF Subs, Bound
<1> HIDE DEF IInv
<1> QED
  BY <1>1, <1>2, <1>3, PTL DEF Spec

(* ReadyComplete for every number of applications, connections, bindings    *)
(* and changes: when an application counts its second readiness (the        *)
(* EndRegexp case of Receive), it has registered exactly what the peer      *)
(* announced and its filter lets pass.  An unbinding that overtakes the     *)
(* handshake, or a line sent before the accept, cannot come between.        *)
THEOREM ReadyIsComplete == Spec => ReadyComplete
<1> DEFINE Step == \A e \in End : cli[e].ready = 1 /\ cli'[e].ready = 2 =>
                     DictSubs(reg[Owner(e)].dict, e) = Wanted(Owner(e), announced[Peer(e)])
<1>1. Synced /\ [Next]_vars => [Step]_vars
  <2> SUFFICES ASSUME Synced, [Next]_vars, NEW e \in End, cli[e].ready = 1, cli'[e].ready = 2
               PROVE  DictSubs(reg[Owner(e)].dict, e) = Wanted(Owner(e), announced[Peer(e)])
    OBVIOUS
  <2> USE DEF Synced, Safe, Shape
  <2>1. Counts(e)
    <3>1. ~ ReadyKept(e)
      BY DEF ReadyKept
    <3>2. ~ Renewed(e)
      BY DEF Renewed, NewClient
    <3> QED
      BY <3>1, <3>2, ReadyMoves
  <2>2. /\ e \in Made /\ sock[e] \in {"open", "marked"} /\ status[Owner(e)] = "running"
        /\ chan[e] # <<>> /\ Head(chan[e]).type = "EndRegexp" /\ ~ cli[e].ignore
    BY <2>1 DEF Counts, ReceiveEndRegexp, Handles
  <2>3. Attends(e)
    BY <2>2 DEF Attends, Open, Held, HeldAll, Live
  <2>4. Waiting(e)
    BY <2>2 DEF ReadyOK, Waiting
  <2>5. /\ Complete(chan[e], Subs(e), announced[Peer(e)], Filtered[Owner(e)])
        /\ \A b \in Subs(e) : b.re \notin Filtered[Owner(e)]
    BY <2>2, <2>3, <2>4 DEF Sound, Intro, Pass
  <2>6. /\ chan[e] \in Seq(Lines) /\ announced[Peer(e)] \subseteq Binding
        /\ reg[Owner(e)].dict \in Dictionary(Re, End)
    BY <2>2, EndsOK DEF ChanOK, AnnOK, RegOK, Registry
  <2>7. 1 \in DOMAIN chan[e] /\ chan[e][1].type = "EndRegexp"
    BY <2>2, <2>6, TailElems, LenProperties
  <2>8. \A b \in Binding : b.re \notin Filtered[Owner(e)] => (b \in announced[Peer(e)] <=> b \in Subs(e))
    <3>1. ~ \E i \in 1 .. 1 - 1 : TRUE
      OBVIOUS
    <3> QED
      BY <2>5, <2>7, <3>1 DEF Complete
  <2>9. ASSUME NEW b \in Subs(e) PROVE b \in Binding
    BY <2>6, <2>9, SubsOK DEF Subs, Binding
  <2>10. Subs(e) = Wanted(Owner(e), announced[Peer(e)])
    BY <2>5, <2>6, <2>8, <2>9 DEF Wanted
  <2> QED
    BY <2>10 DEF Subs
<1> QED
  BY <1>1, SyncedInit, SyncedStep, PTL DEF Spec, ReadyComplete
=============================================================================
