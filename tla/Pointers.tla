------------------------------ MODULE Pointers ------------------------------
(***************************************************************************)
(* Text and RFC 6901 pointers, as the converter writes them and as         *)
(* prepare_request reads them.  A text is a sequence of characters, and a  *)
(* JSON value is a record: its type t, its text s if it is a string, its   *)
(* entries e if it is an object.                                           *)
(***************************************************************************)
EXTENDS Integers, Sequences, SequencesExt

(* One character of a text for str.replace, for a pattern whose first      *)
(* character is not in it again: what is written so far, how much of the   *)
(* pattern that ends with, and whether the pattern was met.                *)
ReplaceStep(state, c, old, new) ==
  LET held == state.held + 1
  IN  IF c = old[held] /\ held = Len(old)
      THEN [out |-> SubSeq(state.out, 1, Len(state.out) - state.held) \o new,
            held |-> 0, met |-> TRUE]
      ELSE [out |-> Append(state.out, c),
            held |-> IF c = old[held] THEN held ELSE IF c = old[1] THEN 1 ELSE 0,
            met |-> state.met]

Replaced(text, old, new) ==
  LET state[i \in 0 .. Len(text)] ==
        IF i = 0 THEN [out |-> <<>>, held |-> 0, met |-> FALSE]
        ELSE ReplaceStep(state[i - 1], text[i], old, new)
  IN  state[Len(text)]

(* str.replace: left to right, without looking again at what was inserted. *)
Replace(text, old, new) == Replaced(text, old, new).out

(* The substring test of Python's "in". *)
Occurs(part, text) == Replaced(text, part, part).met

(* str.split on one character. *)
SplitStep(pieces, c, separator) ==
  IF c = separator THEN Append(pieces, <<>>)
  ELSE [pieces EXCEPT ![Len(pieces)] = Append(@, c)]

Split(text, separator) ==
  LET pieces[i \in 0 .. Len(text)] ==
        IF i = 0 THEN <<<<>>>> ELSE SplitStep(pieces[i - 1], text[i], separator)
  IN  pieces[Len(text)]

(* _escape, encode_pointer_token *)
Escape(token) == Replace(Replace(token, <<"~">>, <<"~", "0">>), <<"/">>, <<"~", "1">>)

(* The decoding in _read_pointer, _write_pointer and decode_pointer_token. *)
Unescape(token) == Replace(Replace(token, <<"~", "1">>, <<"/">>), <<"~", "0">>, <<"~">>)

Tokens(pointer) ==
  LET pieces == Tail(Split(pointer, "/")) IN [i \in DOMAIN pieces |-> Unescape(pieces[i])]

(* ------------------------------- Values -------------------------------- *)

Str(text) == [t |-> "string", s |-> text, e |-> <<>>]
Obj(entries) == [t |-> "object", s |-> <<>>, e |-> entries]
Null == [t |-> "null", s |-> <<>>, e |-> <<>>]
List == [t |-> "array", s |-> <<>>, e |-> <<>>]
Absent == [t |-> "absent", s |-> <<>>, e |-> <<>>]

(* The loop of _read_pointer. *)
ReadTokens(document, tokens) ==
  LET current[i \in 0 .. Len(tokens)] ==
        IF i = 0 THEN document
        ELSE IF current[i - 1].t = "object" /\ tokens[i] \in DOMAIN current[i - 1].e
        THEN current[i - 1].e[tokens[i]] ELSE Absent
  IN  current[Len(tokens)]

(* _read_pointer *)
ReadPointer(document, pointer) == ReadTokens(document, Tokens(pointer))

(* current[key] = value *)
SetKey(document, key, value) ==
  Obj([k \in DOMAIN document.e \cup {key} |-> IF k = key THEN value ELSE document.e[k]])

(* What _write_pointer sets the token at a place in. *)
Holder(document, tokens, i) ==
  LET held == ReadTokens(document, SubSeq(tokens, 1, i - 1))
  IN  IF held.t = "object" THEN held ELSE Obj(<<>>)

(* _write_pointer, which makes the objects on the way: the document with   *)
(* the value, from the last token to the first.                            *)
WriteTokens(document, tokens, value) ==
  LET written[k \in 0 .. Len(tokens)] ==
        IF k = 0 THEN value
        ELSE LET i == Len(tokens) + 1 - k
             IN  SetKey(Holder(document, tokens, i), tokens[i], written[k - 1])
  IN  written[Len(tokens)]
=============================================================================
