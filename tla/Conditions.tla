----------------------------- MODULE Conditions -----------------------------
(***************************************************************************)
(* Conditions of a workflow, the `if` of a condition step and the `when`   *)
(* guard of any step: the evaluator of engine/expressions.py, and the      *)
(* grammar it is meant to implement as a reference to compare it with.     *)
(*                                                                         *)
(* A condition is the sequence of its tokens.  A character that no token   *)
(* begins with is the token BAD, or ARITH if it is an arithmetic operator. *)
(***************************************************************************)
EXTENDS Integers, Sequences, FiniteSets

\* The strings that values are made of, in the order in which Python compares
\* them, in lower case and without blanks around them (coerce_bool looks at a word
\* in that form): the last stands for a template that was left as it is.
Words == <<"", "0", "1", "false", "no", "none", "null", "true", "x", "{{ }}">>

\* A value of JSON; n is the number, the index of the word, or 1 for true.
Value == [t : {"null"}, n : {0}] \cup [t : {"bool"}, n : {0, 1}]
         \cup [t : {"num"}, n : {0, 1}] \cup [t : {"text"}, n : DOMAIN Words]

Null == [t |-> "null", n |-> 0]
Number(k) == [t |-> "num", n |-> k]
Bool(b) == [t |-> "bool", n |-> IF b THEN 1 ELSE 0]
Word(w) == [t |-> "text", n |-> CHOOSE k \in DOMAIN Words : Words[k] = w]

\* coerce_bool
Truthy(v) ==
    IF v.t = "text" THEN Words[v.n] \notin {"", "false", "no", "0", "null", "none"} ELSE v.n # 0

\* _to_number, as the set of the number a value is; a boolean is none.
NumberOf(v) ==
    IF v.t = "text"
    THEN {k \in {0, 1} : Words[v.n] = <<"0", "1">>[k + 1]}
    ELSE {k \in {v.n} : v.t = "num"}

\* _stringify, as an index into Words.
Spelling(v) ==
    CASE v.t = "null" -> Word("").n
      [] v.t = "bool" -> Word(IF v.n = 1 THEN "true" ELSE "false").n
      [] v.t = "num" -> Word(<<"0", "1">>[v.n + 1]).n
      [] v.t = "text" -> v.n

Related(op, a, b) ==
    CASE op = "EQ" -> a = b [] op = "NE" -> a # b
      [] op = "GT" -> a > b [] op = "GE" -> a >= b
      [] op = "LT" -> a < b [] op = "LE" -> a <= b

\* _compare: as numbers if both sides are, else as strings.
Compare(op, l, r) ==
    \/ \E a \in NumberOf(l), b \in NumberOf(r) : Related(op, a, b)
    \/ (NumberOf(l) = {} \/ NumberOf(r) = {}) /\ Related(op, Spelling(l), Spelling(r))

Comparators == {"EQ", "NE", "GT", "GE", "LT", "LE"}

Operators == Comparators \cup {"AND", "OR", "NOT", "LP", "RP", "BAD", "ARITH"}

\* v is the literal of LIT; ref what REF refers to.
Token(refs) == [k : Operators \cup {"LIT", "REF"}, v : Value, ref : refs]

----------------------------------------------------------------------------
(* _Parser: recursive descent that evaluates as it reads, both operands of &&
   and || whatever the first one is.  env gives every reference its value, or
   Raises for one that cannot be resolved.  read[<<rule, p, v>>] is what the
   method of a rule leaves when it is called at token p; the loops of && and ||
   are rules too, with the value so far as v. *)

CONSTANT Raises

Got(v, p) == [err |-> "none", val |-> v, pos |-> p]
Failed(err) == [err |-> err, val |-> Null, pos |-> 0]

Peek(ts, p) == IF p <= Len(ts) THEN ts[p].k ELSE "END"

Primary(ts, env, p, read) ==
    CASE Peek(ts, p) = "LP" ->
            LET r == read[<<"or", p + 1, Null>>] IN
            IF r.err # "none" THEN r
            ELSE IF Peek(ts, r.pos) = "RP" THEN Got(r.val, r.pos + 1) ELSE Failed("syntax")
      [] Peek(ts, p) = "LIT" -> Got(ts[p].v, p + 1)
      [] Peek(ts, p) = "REF" ->
            IF env[ts[p].ref] = Raises THEN Failed("raised") ELSE Got(env[ts[p].ref], p + 1)
      [] OTHER -> Failed("syntax")

Comparison(ts, p, read) ==
    LET l == read[<<"primary", p, Null>>] IN
    IF l.err = "none" /\ Peek(ts, l.pos) \in Comparators
    THEN LET r == read[<<"primary", l.pos + 1, Null>>] IN
         IF r.err # "none" THEN r ELSE Got(Bool(Compare(ts[l.pos].k, l.val, r.val)), r.pos)
    ELSE l

Negation(ts, p, read) ==
    IF Peek(ts, p) # "NOT" THEN read[<<"comparison", p, Null>>]
    ELSE LET r == read[<<"not", p + 1, Null>>] IN
         IF r.err # "none" THEN r ELSE Got(Bool(~Truthy(r.val)), r.pos)

\* Mutant of AndRest: the operand after && is read as a whole condition.
AndRestGreedy(ts, p, v, read) ==
    IF Peek(ts, p) # "AND" THEN Got(v, p)
    ELSE LET r == read[<<"or", p + 1, Null>>] IN
         IF r.err # "none" THEN r ELSE Got(Bool(Truthy(v) /\ Truthy(r.val)), r.pos)

AndRest(ts, p, v, read) ==
    IF Peek(ts, p) # "AND" THEN Got(v, p)
    ELSE LET r == read[<<"not", p + 1, Null>>] IN
         IF r.err # "none" THEN r
         ELSE read[<<"andRest", r.pos, Bool(Truthy(v) /\ Truthy(r.val))>>]

OrRest(ts, p, v, read) ==
    IF Peek(ts, p) # "OR" THEN Got(v, p)
    ELSE LET r == read[<<"and", p + 1, Null>>] IN
         IF r.err # "none" THEN r
         ELSE read[<<"orRest", r.pos, Bool(Truthy(v) \/ Truthy(r.val))>>]

\* One operand of a loop, then the loop.
Loop(rest, first, read) ==
    IF first.err # "none" THEN first ELSE read[<<rest, first.pos, first.val>>]

Rules == {"or", "orRest", "and", "andRest", "not", "comparison", "primary"}

Calls(ts) == Rules \X (1..(Len(ts) + 1)) \X Value

Method(ts, env, c, read) ==
    CASE c[1] = "or" -> Loop("orRest", read[<<"and", c[2], Null>>], read)
      [] c[1] = "orRest" -> OrRest(ts, c[2], c[3], read)
      [] c[1] = "and" -> Loop("andRest", read[<<"not", c[2], Null>>], read)
      [] c[1] = "andRest" -> AndRest(ts, c[2], c[3], read)
      [] c[1] = "not" -> Negation(ts, c[2], read)
      [] c[1] = "comparison" -> Comparison(ts, c[2], read)
      [] c[1] = "primary" -> Primary(ts, env, c[2], read)

Reading(ts, env) ==
    LET read[c \in Calls(ts)] == Method(ts, env, c, read)
    IN read[<<"or", 1, Null>>]

\* evaluate_condition
Evaluate(ts, env) ==
    IF ts = << >> \/ \E p \in DOMAIN ts : ts[p].k \in {"BAD", "ARITH"} THEN Failed("syntax")
    ELSE LET r == Reading(ts, env) IN
         IF r.err # "none" THEN r
         ELSE IF r.pos # Len(ts) + 1 THEN Failed("syntax")
         ELSE Got(Bool(Truthy(r.val)), r.pos)

\* validate_condition_syntax: every reference is null.
Parses(ts) == Evaluate(ts, [x \in {ts[p].ref : p \in DOMAIN ts} |-> Null]).err = "none"

----------------------------------------------------------------------------
(* The grammar as the docstring has it: the values that the tokens from i to j
   can have as a phrase of a kind.  || binds less than &&, && less than !, ! less
   than a comparison; comparisons do not chain. *)

Kinds == {"or", "and", "not", "primary"}

Ranges(ts) == Kinds \X (1..(Len(ts) + 1)) \X (0..Len(ts))

\* The places from i to j where one of the tokens ops is.
Places(ts, i, j, ops) == {p \in i..j : ts[p].k \in ops}

Disjunction(ts, i, j, phrases) ==
    phrases[<<"and", i, j>>] \cup
    UNION {{Bool(Truthy(l) \/ Truthy(r)) :
        l \in phrases[<<"or", i, p - 1>>], r \in phrases[<<"and", p + 1, j>>]}
        : p \in Places(ts, i, j, {"OR"})}

Conjunction(ts, i, j, phrases) ==
    phrases[<<"not", i, j>>] \cup
    UNION {{Bool(Truthy(l) /\ Truthy(r)) :
        l \in phrases[<<"and", i, p - 1>>], r \in phrases[<<"not", p + 1, j>>]}
        : p \in Places(ts, i, j, {"AND"})}

Relation(ts, i, j, phrases) ==
    phrases[<<"primary", i, j>>] \cup
    UNION {{Bool(Compare(ts[p].k, l, r)) :
        l \in phrases[<<"primary", i, p - 1>>], r \in phrases[<<"primary", p + 1, j>>]}
        : p \in Places(ts, i, j, Comparators)}

Operand(ts, env, i, j, phrases) ==
    IF i = j
    THEN {ts[p].v : p \in Places(ts, i, j, {"LIT"})} \cup
         {env[ts[p].ref] : p \in Places(ts, i, j, {"REF"})}
    ELSE IF i \in Places(ts, i, j, {"LP"}) /\ j \in Places(ts, i, j, {"RP"})
    THEN phrases[<<"or", i + 1, j - 1>>]
    ELSE {}

Phrases(ts, env, x, phrases) ==
    LET i == x[2]  j == x[3] IN
    CASE x[1] = "or" -> Disjunction(ts, i, j, phrases)
      [] x[1] = "and" -> Conjunction(ts, i, j, phrases)
      [] x[1] = "not" ->
            IF i \in Places(ts, i, j, {"NOT"})
            THEN {Bool(~Truthy(v)) : v \in phrases[<<"not", i + 1, j>>]}
            ELSE Relation(ts, i, j, phrases)
      [] x[1] = "primary" -> Operand(ts, env, i, j, phrases)

Meanings(ts, env) ==
    LET phrases[x \in Ranges(ts)] == Phrases(ts, env, x, phrases)
    IN {Bool(Truthy(v)) : v \in phrases[<<"or", 1, Len(ts)>>]}
=============================================================================
