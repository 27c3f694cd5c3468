----------------------------- MODULE Conditions -----------------------------
(***************************************************************************)
(* Templates and conditions: what evaluate_condition answers for two       *)
(* operands, and which value of the context a path leads to.               *)
(*                                                                         *)
(* A string is the sequence of its characters, which are numbers in their  *)
(* order, the digits 0 to 9 first.  A key of the context and a path are    *)
(* the sequences of the words between their dots.                          *)
(*                                                                         *)
(* Definitions named Bug... are faults put in the place of the definition  *)
(* that follows them, to see that the properties notice.                   *)
(***************************************************************************)
EXTENDS Naturals, Sequences, SequencesExt

CONSTANTS
    Values,      \* operands
    Things,      \* contexts of a run, the dictionaries in them and their values
    Contexts,    \* contexts of a run
    Words,       \* words of keys and paths
    Paths,       \* paths of templates
    Attributes   \* words every Python value has as an attribute

VARIABLE
    asked        \* the operands compared or the path resolved

Operands == [left : Values, right : Values]
Lookups == [path : Paths, context : Contexts]
Asking == asked \in Operands \cup Lookups

Null == [kind |-> "null"]
Num(n) == [kind |-> "num", n |-> n]
Bool(b) == [kind |-> "bool", b |-> b]
Str(s) == [kind |-> "str", s |-> s]
List(l) == [kind |-> "list", l |-> l]

(* The elements of lists are no lists. *)
Plains ==
    {Null} \cup [kind : {"num"}, n : 0..9] \cup [kind : {"bool"}, b : BOOLEAN] \cup [kind : {"str"}, s : Seq(Nat)]
Lists == [kind : {"list"}, l : Seq(Plains)]
ASSUME ValuesAssumption == Values \subseteq Plains \cup Lists

(* What str() makes of a value, a number being one of a single digit; a letter
   stands for each word it writes. *)
Text(v) ==
    CASE v.kind = "str" -> v.s
      [] v.kind = "num" -> <<v.n>>
      [] v.kind = "bool" -> IF v.b THEN <<20>> ELSE <<21>>
      [] v.kind = "null" -> <<22>>
      [] v.kind = "list" -> <<23>>

Spells(s) == s # <<>> /\ \A i \in DOMAIN s : s[i] \in 0..9
Float(s) == LET read[i \in 0..Len(s)] == IF i = 0 THEN 0 ELSE 10 * read[i - 1] + s[i] IN Num(read[Len(s)])

-----------------------------------------------------------------------------
(* Python's ==, < and in.                                                  *)

Counts(v) == v.kind \in {"num", "bool"}
Count(v) == IF v.kind = "num" THEN v.n ELSE IF v.b THEN 1 ELSE 0

SamePlain(v, w) == IF Counts(v) /\ Counts(w) THEN Count(v) = Count(w) ELSE v = w
Comparable(v, w) == (Counts(v) /\ Counts(w)) \/ (v.kind = "str" /\ w.kind = "str")
BothLists(v, w) == v.kind = "list" /\ w.kind = "list"
Both(s, t) == DOMAIN s \cap DOMAIN t

(* How many elements two sequences begin with that are alike. *)
Agree(s, t, alike) ==
    CHOOSE k \in 0..Len(s) : /\ k <= Len(t) /\ 1..k \subseteq alike
                             /\ k = Len(s) \/ k = Len(t) \/ k + 1 \notin alike

(* Elements decide where two sequences part, else the shorter one is less. *)
Earlier(s, t, alike, less) ==
    LET k == Agree(s, t, alike) IN k < Len(t) /\ (k = Len(s) \/ k + 1 \in less)

LessText(s, t) == Earlier(s, t, {i \in Both(s, t) : s[i] = t[i]}, {i \in Both(s, t) : s[i] < t[i]})
LessPlain(v, w) == IF Counts(v) THEN Count(v) < Count(w) ELSE LessText(v.s, w.s)

AlikeIn(l, m) == {i \in Both(l, m) : SamePlain(l[i], m[i])}
LessIn(l, m) == {i \in Both(l, m) : Comparable(l[i], m[i]) /\ LessPlain(l[i], m[i])}

Same(v, w) ==
    IF BothLists(v, w) THEN Len(v.l) = Len(w.l) /\ DOMAIN v.l \subseteq AlikeIn(v.l, w.l) ELSE SamePlain(v, w)
Ordered(v, w) ==
    \/ Comparable(v, w)
    \/ BothLists(v, w) /\ LET k == Agree(v.l, w.l, AlikeIn(v.l, w.l)) IN
          k = Len(v.l) \/ k = Len(w.l) \/ Comparable(v.l[k + 1], w.l[k + 1])
Less(v, w) ==
    IF BothLists(v, w) THEN Earlier(v.l, w.l, AlikeIn(v.l, w.l), LessIn(v.l, w.l)) ELSE LessPlain(v, w)

Within(s, t) == \E i \in 0..Len(t) : i + Len(s) <= Len(t) /\ SubSeq(t, i + 1, i + Len(s)) = s
Member(v, l) == \E i \in DOMAIN l : Same(l[i], v)

-----------------------------------------------------------------------------
(* evaluate_condition.                                                     *)

(* Both operands are converted, the left one first: when the right one is no
   number the left one is by then. *)
BugConverted(v, w) ==
    IF ~Spells(Text(v)) THEN <<v, w>> ELSE <<Float(Text(v)), w>>
Converted(v, w) ==
    IF ~Spells(Text(v)) THEN <<v, w>>
    ELSE <<Float(Text(v)), IF Spells(Text(w)) THEN Float(Text(w)) ELSE w>>

Verdict(b) == IF b THEN "yes" ELSE "no"
Written(v) == IF v = Null THEN <<>> ELSE Text(v)

Orders(op, v, w) ==
    CASE op = ">" -> Less(w, v)
      [] op = ">=" -> ~Less(v, w)
      [] op = "<" -> Less(v, w)
      [] op = "<=" -> ~Less(w, v)

Compare(op, v, w) ==
    CASE op = "==" -> Verdict(Same(v, w))
      [] op = "!=" -> Verdict(~Same(v, w))
      [] OTHER -> IF Ordered(v, w) THEN Verdict(Orders(op, v, w)) ELSE "raises"

Evaluate(op, v, w) ==
    CASE op = "is_null" -> Verdict(v = Null)
      [] op = "is_not_null" -> Verdict(v # Null)
      [] op \in {"==", "!=", ">", ">=", "<", "<="} -> Compare(op, Converted(v, w)[1], Converted(v, w)[2])
      [] op = "contains" -> Verdict(IF v.kind = "list" THEN Member(w, v.l) ELSE Within(Written(w), Written(v)))
      [] op = "starts_with" -> Verdict(IsPrefix(Written(w), Written(v)))
      [] op = "ends_with" -> Verdict(IsSuffix(Written(w), Written(v)))
      [] op = "in" -> Verdict(IF w.kind = "list" THEN Member(v, w.l) ELSE Within(Written(v), Written(w)))
      [] op = "not_in" -> Verdict(IF w.kind = "list" THEN ~Member(v, w.l) ELSE ~Within(Written(v), Written(w)))

-----------------------------------------------------------------------------
(* _resolve_path.  A context is a dictionary, [at |-> keys -> contexts], or a
   value, [is |-> value]. *)

Missing == [is |-> Null]
Attribute == [is |-> Str(<<24>>)]
IsDict(c) == DOMAIN c = {"at"}
Key == Seq(Words) \ {<<>>}
ASSUME ContextsAssumption ==
    /\ Contexts \subseteq Things
    /\ \A c \in Things : IF IsDict(c) THEN DOMAIN c.at \subseteq Key /\ \A k \in DOMAIN c.at : c.at[k] \in Things
                       ELSE c \in [is : Plains \cup Lists]
    /\ Paths \subseteq Key
Matching(path, c) == {k \in DOMAIN c.at : IsPrefix(k, path)}
Rest(path, k) == SubSeq(path, Len(k) + 1, Len(path))

(* The longest key that the path goes on with, and never another. *)
BugChosen(ks) == CHOOSE k \in ks : \A j \in ks : Len(k) <= Len(j)
Chosen(ks) == CHOOSE k \in ks : \A j \in ks : Len(j) <= Len(k)

(* Where the loop is: what is left of the path, and what it has led to. *)
Start(path, c) == [rest |-> path, current |-> c]
Into(at, k) == Start(Rest(at.rest, k), at.current.at[k])
NotFound == Start(<<>>, Missing)

Turn(at) ==
    LET ks == Matching(at.rest, at.current) IN
    IF at.rest = <<>> THEN at
    ELSE IF IsDict(at.current) THEN IF ks = {} THEN NotFound ELSE Into(at, Chosen(ks))
    ELSE IF at.rest[1] \in Attributes THEN Start(Tail(at.rest), Attribute) ELSE NotFound

(* Each turn takes a word or more, so as many turns as there are words are enough. *)
Resolve(path, c) ==
    LET at[n \in 0..Len(path)] == IF n = 0 THEN Start(path, c) ELSE Turn(at[n - 1]) IN at[Len(path)].current

(* render_value: a text is the sequence of its literals and templates.  A lone
   template keeps the type of its value, the others are written into the text;
   what is not found stays as it is written. *)
Template(path) == [kind |-> "template", path |-> path]
Unresolved(path) == <<25, Len(path)>>
Put(part, c) ==
    IF part.kind = "literal" THEN part.s
    ELSE LET v == Resolve(part.path, c) IN
         IF v = Missing THEN Unresolved(part.path) ELSE IF IsDict(v) THEN <<26>> ELSE Text(v.is)

Render(parts, c) ==
    IF Len(parts) = 1 /\ parts[1].kind = "template" THEN Resolve(parts[1].path, c)
    ELSE [is |-> Str(FlattenSeq([i \in DOMAIN parts |-> Put(parts[i], c)]))]

-----------------------------------------------------------------------------
(* Properties.                                                             *)

IsNumber(v) == v.kind = "num" \/ (v.kind = "str" /\ Spells(v.s))
Alike(v, w) == IsNumber(v) = IsNumber(w)

(* Operands that both read as numbers are compared as numbers, however they
   are written; of operands of one sort a comparison and its mirror image say
   the same, exactly one of <, == and > holds when any does, and negations
   and memberships agree with each other. *)
ComparesLikeWithLike ==
    asked \in Operands => LET v == asked.left
                             w == asked.right IN
        /\ IsNumber(v) /\ IsNumber(w) =>
              Evaluate(">", v, w) = Verdict(Float(Text(v)).n > Float(Text(w)).n)
        /\ Alike(v, w) =>
              /\ Evaluate("==", v, w) = Evaluate("==", w, v)
              /\ Evaluate("<", v, w) = Evaluate(">", w, v)
              /\ Evaluate("<=", v, w) = Evaluate(">=", w, v)
        /\ Evaluate("<", v, w) # "raises" =>
              \E op \in {"<", "==", ">"} : \A o \in {"<", "==", ">"} : (Evaluate(o, v, w) = "yes") = (o = op)
        /\ Evaluate("!=", v, w) # Evaluate("==", v, w)
        /\ Evaluate("not_in", v, w) # Evaluate("in", v, w)
        /\ Evaluate("in", v, w) = Evaluate("contains", w, v)

(* Where a path may lead to, word after word, however its words are grouped into
   keys, and all the values it may mean. *)
Ways(at) ==
    IF at.rest = <<>> THEN {at}
    ELSE IF IsDict(at.current) THEN {Into(at, k) : k \in Matching(at.rest, at.current)} ELSE {}
Places(path, c) ==
    LET at[n \in 0..Len(path)] == IF n = 0 THEN {Start(path, c)} ELSE UNION {Ways(p) : p \in at[n - 1]} IN at
Meanings(path, c) == {p.current : p \in Places(path, c)[Len(path)]}

(* Nowhere on the path does one key begin another. *)
Clear(path, c) ==
    \A n \in 0..Len(path) : \A p \in Places(path, c)[n] :
        IsDict(p.current) => \A j, k \in Matching(p.rest, p.current) : j = k

(* A template is replaced by a value its path may mean or by an attribute, also
   when step identifiers have dots; by the longest key's value when it names
   several, and by none where no key begins another only if it has no meaning.
   It is left in the text only then, or when its value is the template's text. *)
FindsTheValue ==
    asked \in Lookups => LET path == asked.path
                             c == asked.context
                             found == Render(<<Template(path)>>, c)
                             twice == Render(<<Template(path), Template(path)>>, c) IN
        /\ found \in Meanings(path, c) \cup {Missing, Attribute}
        /\ Clear(path, c) /\ Meanings(path, c) # {} => found \in Meanings(path, c)
        /\ IsDict(c) /\ path \in DOMAIN c.at => found = c.at[path]
        /\ twice.is.s = Unresolved(path) \o Unresolved(path) <=>
              found = Missing \/ (~IsDict(found) /\ Text(found.is) = Unresolved(path))

=============================================================================
