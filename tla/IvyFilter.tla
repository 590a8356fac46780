------------------------------ MODULE IvyFilter -----------------------------
(***************************************************************************)
(* The filter (ivybind.c): an application that declares the first words of *)
(* the messages it sends drops, on AddRegexp, the expressions of its peers *)
(* that begin with another word.                                           *)
(*                                                                         *)
(* A word is a sequence of letters.  An expression is what the filter sees *)
(* of it: whether it begins with ^, the letters that follow (token, empty  *)
(* if another character does) and the character after them, which decides  *)
(* which messages it matches: a blank, a wildcard, or a quantifier that    *)
(* makes the last letter optional.                                         *)
(***************************************************************************)
EXTENDS Naturals, Sequences, FiniteSets, SequencesExt, Sublists

CONSTANTS
  Letters,
  MaxWord,     \* bound: letters of a word
  MaxClasses,  \* bound: length of messages_classes
  MaxAnnounced,  \* bound: expressions of the peers
  Forms,       \* what follows the token: subset of {"blank", "any", "opt"}
  Late         \* words may be added after expressions were received

VARIABLES
  messages_classes,  \* the list of words, newest first
  announced,         \* the expressions the peers announced
  kept               \* those the filter let into the registry

vars == <<messages_classes, announced, kept>>

Words == UNION {[1 .. n -> Letters] : n \in 1 .. MaxWord}
Expressions ==
  [caret : BOOLEAN, token : Words \union {<<>>}, form : Forms]
Classes == {messages_classes[k] : k \in DOMAIN messages_classes}

(* strncmp(word, token, tokenlen) = 0.                                     *)
strncmp0(word, token) == IsPrefix(token, word)

-----------------------------------------------------------------------------
(* IvyAddFilter; IvySetFilter calls it for each of its words.              *)
IvyBindingAddFilter(w) ==
  /\ Len(messages_classes) < MaxClasses
  /\ Late \/ announced = {}
  /\ messages_classes' = <<w>> \o messages_classes
  /\ UNCHANGED <<announced, kept>>

(* Every copy of the word is removed.                                      *)
IvyBindingRemoveFilter(w) ==
  /\ w \in Classes
  /\ messages_classes' =
       Sublist(messages_classes, {k \in DOMAIN messages_classes : messages_classes[k] # w})
  /\ UNCHANGED <<announced, kept>>

(* IvyTerminate.  The registry keeps what it has.                          *)
IvyBindingTerminate ==
  /\ messages_classes' = <<>>
  /\ UNCHANGED <<announced, kept>>

(* Mutant: the word must be the token. *)
IvyBindingFilterEqual(e) ==
  (~e.caret \/ messages_classes = <<>>) \/ e.token = <<>> \/ e.token \in Classes

(* IvyBindingFilter: an expression without ^, or an empty table, or no     *)
(* token: accepted.  Else some word of the table begins with the token.    *)
IvyBindingFilter(e) ==
  \/ ~e.caret \/ messages_classes = <<>>
  \/ e.token = <<>>
  \/ \E w \in Classes : strncmp0(w, e.token)

(* The AddRegexp case of Receive.                                          *)
ReceiveAddRegexp(e) ==
  /\ e \notin announced /\ Cardinality(announced) < MaxAnnounced
  /\ announced' = announced \union {e}
  /\ kept' = IF IvyBindingFilter(e) THEN kept \union {e} ELSE kept
  /\ UNCHANGED messages_classes

(* IvyBindindFilterCheck warns about a message, here its words, unless a   *)
(* word of the table equals it.                                            *)
IvyBindindFilterCheck(message) == \E w \in Classes : <<w>> = message

Init == messages_classes = <<>> /\ announced = {} /\ kept = {}

Next ==
  \/ \E w \in Words : IvyBindingAddFilter(w) \/ IvyBindingRemoveFilter(w)
  \/ IvyBindingTerminate
  \/ \E e \in Expressions : ReceiveAddRegexp(e)

Spec == Init /\ [][Next]_vars

-----------------------------------------------------------------------------
(* The library of expressions, external: whether e matches some message    *)
(* whose first word is w.                                                  *)
Matches(e, w) ==
  \/ ~e.caret \/ e.token = <<>>
  \/ e.form = "blank" /\ w = e.token
  \/ e.form = "any" /\ IsPrefix(e.token, w)
  \/ e.form = "opt" /\ IsPrefix(Front(e.token), w)

(* No expression that a message of a declared word would match is dropped, *)
(* whatever words were removed since it was received.                      *)
NothingMissed ==
  \A e \in announced, w \in Classes : Matches(e, w) => e \in kept

(* A message is warned about unless it begins with a word of the table.    *)
(* Does not hold: the whole message is compared.                           *)
BeginsWithWord ==
  \A w, v \in Words : w \in Classes => IvyBindindFilterCheck(<<w, v>>)
=============================================================================
