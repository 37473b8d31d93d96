------------------------------ MODULE JsStrings ------------------------------
(***************************************************************************)
(* The JavaScript string and array built-ins the trigger-mapping code      *)
(* relies on, over strings abstracted as sequences of tokens.              *)
(*                                                                         *)
(* A string is a sequence of tokens: "synotask.work-pool.a" is             *)
(* <<"synotask", ".", "work-pool", ".", "a">>.  The tokens are chosen so   *)
(* that every prefix relation between the literals of the code is visible  *)
(* at token granularity: "synotask.flow" is a prefix of                    *)
(* "synotask.flow-run" because "flow-run" is the two tokens "flow","-run". *)
(* startsWith, includes and split therefore keep their JavaScript meaning. *)
(*                                                                         *)
(* A value typed "string | string[]" (EventResourceValue) is a tagged      *)
(* record, and `undefined` is the model value Undefined.                   *)
(***************************************************************************)
EXTENDS Naturals, Sequences, SequencesExt

CONSTANT Undefined

Dot  == <<".">>
Star == <<"*">>

\* `${x}`: undefined is interpolated as the text "undefined".
Str(x) == IF x = Undefined THEN <<"undefined">> ELSE x

\* `${a}.${b}`
DotJoin(a, b) == Str(a) \o Dot \o Str(b)

\* String.prototype.startsWith
StartsWith(s, p) == IsPrefix(p, s)

\* The first index >= from at which sep occurs in s, 0 when it does not.
IndexOf(s, sep, from) ==
    LET hits == {i \in from..(Len(s) - Len(sep) + 1) :
                    SubSeq(s, i, i + Len(sep) - 1) = sep}
    IN  IF hits = {} THEN 0 ELSE Min(hits)

(***************************************************************************)
(* `const [, x] = s.split(sep)`: the second piece of s cut at the          *)
(* non-overlapping occurrences of sep, or undefined when sep does not      *)
(* occur in s.                                                             *)
(***************************************************************************)
SplitSecond(s, sep) ==
    LET i == IndexOf(s, sep, 1)
        j == IndexOf(s, sep, i + Len(sep))
    IN  IF i = 0 THEN Undefined
        ELSE SubSeq(s, i + Len(sep), IF j = 0 THEN Len(s) ELSE j - 1)

\* String.prototype.split: the pieces of s between occurrences of sep.
RECURSIVE Split(_, _)
Split(s, sep) ==
    LET i == IndexOf(s, sep, 1)
    IN  IF i = 0 THEN <<s>>
        ELSE <<SubSeq(s, 1, i - 1)>> \o Split(SubSeq(s, i + Len(sep), Len(s)), sep)

\* Array.prototype.join
Join(parts, sep) ==
    IF parts = <<>> THEN <<>>
    ELSE FoldLeft(LAMBDA acc, p : acc \o sep \o p, Head(parts), Tail(parts))

\* A "string | string[]" value.
Scalar(s) == [one |-> s]
List(l)   == [many |-> l]

\* asArray: a scalar becomes a singleton list.
AsArray(v) == IF "one" \in DOMAIN v THEN <<v.one>> ELSE v.many

\* Array.prototype.map and Array.prototype.flatMap
MapSeq(s, F(_)) == [i \in DOMAIN s |-> F(s[i])]
FlatMapSeq(s, F(_)) == FlattenSeq(MapSeq(s, F))

\* Array.prototype.every
Every(s, P(_)) == \A i \in DOMAIN s : P(s[i])

\* A plain object with no keys, {}.
EmptyObject == [k \in {} |-> Undefined]

(***************************************************************************)
(* JSON.stringify then JSON.parse of an object: keys whose value is        *)
(* undefined are dropped.                                                  *)
(***************************************************************************)
DropUndefined(obj) ==
    [k \in {k2 \in DOMAIN obj : obj[k2] # Undefined} |-> obj[k]]

=============================================================================
