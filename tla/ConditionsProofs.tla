--------------------------- MODULE ConditionsProofs --------------------------
(***************************************************************************)
(* The evaluator of conditions implements its grammar, for every condition *)
(* and whatever its references resolve to.                                 *)
(*                                                                         *)
(* Both are recursive functions.  What such a function computes is proved  *)
(* by induction over the natural numbers, stated with sets: the smallest   *)
(* of a set of numbers comes from the well-founded order of finite sets.   *)
(***************************************************************************)
EXTENDS Conditions, FiniteSetTheorems, SequenceTheorems, TLAPS

LEMMA SmallestOf ==
    ASSUME NEW T \in SUBSET Nat, T # {}
    PROVE  \E m \in T : \A n \in T : m <= n
<1> DEFINE R == StrictSubsetOrdering(Nat)
           S == FiniteSubsetsOf(Nat)
           U == {0..n : n \in T}
<1>1. IsWellFoundedOn(R, S)
  BY FS_StrictSubsetOrderingWellFounded
<1>2. U \subseteq S /\ U # {}
  <2>1. \A n \in T : 0..n \in SUBSET Nat /\ IsFiniteSet(0..n)
    BY FS_Interval
  <2> QED
    BY <2>1 DEF FiniteSubsetsOf
<1> HIDE DEF R, S, U
<1>3. PICK x \in U : \A y \in U : ~(<<y, x>> \in R)
  BY <1>1, <1>2, WFMin
<1>4. PICK m \in T : x = 0..m
  BY DEF U
<1>5. ASSUME NEW n \in T, n < m PROVE FALSE
  <2>1. 0..n \in U /\ ~(<<0..n, 0..m>> \in R)
    BY <1>3, <1>4 DEF U
  <2>2. m \in Nat /\ n \in Nat
    OBVIOUS
  <2>3. 0..n \subseteq 0..m /\ m \notin 0..n /\ m \in 0..m
    BY <1>5, <2>2
  <2>4. 0..n \in SUBSET Nat /\ 0..m \in SUBSET Nat
    BY <2>2
  <2> QED
    BY <2>1, <2>3, <2>4 DEF R, StrictSubsetOrdering
<1>6. \A n \in T : m <= n
  BY <1>5
<1> QED
  BY <1>6

\* Induction: a set that 0 is in, and every number after one of its own, has
\* all of them.
LEMMA AllNumbers ==
    ASSUME NEW S, 0 \in S, \A n \in Nat : n \in S => n + 1 \in S
    PROVE  Nat \subseteq S
<1> SUFFICES ASSUME Nat \ S # {} PROVE FALSE
  OBVIOUS
<1>1. PICK m \in Nat \ S : \A n \in Nat \ S : m <= n
  BY SmallestOf
<1>2. m # 0 /\ m - 1 \in Nat
  OBVIOUS
<1>3. m - 1 \in S
  BY <1>1, <1>2
<1> QED
  BY <1>1, <1>2, <1>3

----------------------------------------------------------------------------
(* Conditions and what their references resolve to. *)

Condition(ts, refs) == ts \in Seq(Token(refs))

Resolves(ts, env) == \A p \in DOMAIN ts : ts[p].k = "REF" => env[ts[p].ref] \in Value \cup {Raises}

LEMMA ConditionShape ==
    ASSUME NEW refs, NEW ts, Condition(ts, refs)
    PROVE  /\ Len(ts) \in Nat /\ DOMAIN ts = 1..Len(ts)
           /\ \A p \in 1..Len(ts) : ts[p].k \in Operators \cup {"LIT", "REF"} /\ ts[p].v \in Value
<1>1. Len(ts) \in Nat /\ DOMAIN ts = 1..Len(ts) /\ \A p \in 1..Len(ts) : ts[p] \in Token(refs)
  BY LenProperties, ElementOfSeq DEF Condition
<1> QED
  BY <1>1 DEF Token

LEMMA PeekShape ==
    ASSUME NEW refs, NEW ts, Condition(ts, refs), NEW p \in 1..(Len(ts) + 1)
    PROVE  /\ p <= Len(ts) => Peek(ts, p) = ts[p].k /\ p \in 1..Len(ts)
           /\ Peek(ts, p) # "END" => p \in 1..Len(ts) /\ Peek(ts, p) = ts[p].k
           /\ p = Len(ts) + 1 => Peek(ts, p) = "END"
BY ConditionShape DEF Peek

LEMMA BoolShape == Null \in Value /\ \A b : Bool(b) \in Value
BY DEF Bool, Value, Null

----------------------------------------------------------------------------
(* The parser's methods are well defined: a call depends on calls further on,
   or on calls at the same token of a rule that binds more. *)

Level == [primary |-> 0, comparison |-> 1, not |-> 2, andRest |-> 3, and |-> 4, orRest |-> 5,
          or |-> 6]

Rank(ts, c) == 7 * (Len(ts) + 1 - c[2]) + Level[c[1]]

\* A method that does not fail has read something, but for the loops.
Advances(ts, c, r) ==
    r.err = "none" =>
        /\ r.val \in Value /\ r.pos \in c[2]..(Len(ts) + 1)
        /\ c[1] \notin {"andRest", "orRest"} => r.pos > c[2]

Agree(ts, g, h, c) ==
    \A d \in Calls(ts) : Rank(ts, d) < Rank(ts, c) => g[d] = h[d] /\ Advances(ts, d, g[d])

LEMMA CallShape ==
    ASSUME NEW ts, NEW c \in Calls(ts)
    PROVE  \E rule \in Rules, p \in 1..(Len(ts) + 1), v \in Value : c = <<rule, p, v>>
BY DEF Calls

LEMMA RankShape ==
    ASSUME NEW ts, Len(ts) \in Nat, NEW c \in Calls(ts)
    PROVE  Rank(ts, c) \in 0..(7 * Len(ts) + 6)
<1>1. PICK rule \in Rules, p \in 1..(Len(ts) + 1), v \in Value : c = <<rule, p, v>>
  BY CallShape
<1>2. Level[rule] \in 0..6
  BY DEF Rules, Level
<1>3. Rank(ts, c) = 7 * (Len(ts) + 1 - p) + Level[rule]
  BY <1>1 DEF Rank
<1> QED
  BY <1>2, <1>3

LEMMA LaterIsLower ==
    ASSUME NEW L \in Int, NEW p \in Int, NEW q \in Int, NEW a \in 0..6, NEW b \in 0..6,
           q > p \/ (q = p /\ a < b)
    PROVE  7 * (L + 1 - q) + a < 7 * (L + 1 - p) + b
<1>1. CASE q >= p + 1
  BY <1>1
<1>2. CASE q = p /\ a < b
  BY <1>2
<1> QED
  BY <1>1, <1>2

LEMMA RankAt ==
    ASSUME NEW ts, NEW rule \in Rules
    PROVE  /\ Level[rule] \in 0..6
           /\ \A p, v : Rank(ts, <<rule, p, v>>) = 7 * (Len(ts) + 1 - p) + Level[rule]
<1>1. Level[rule] \in 0..6
  BY DEF Rules, Level
<1>2. \A p, v : Rank(ts, <<rule, p, v>>) = 7 * (Len(ts) + 1 - p) + Level[rule]
  BY DEF Rank
<1> QED
  BY <1>1, <1>2

LEMMA RankLater ==
    ASSUME NEW ts, Len(ts) \in Nat, NEW rule \in Rules, NEW p \in 1..(Len(ts) + 1), NEW v,
           NEW r2 \in Rules, NEW q \in 1..(Len(ts) + 1), NEW w,
           q > p \/ (q = p /\ Level[r2] < Level[rule])
    PROVE  Rank(ts, <<r2, q, w>>) < Rank(ts, <<rule, p, v>>)
<1>1. PICK L \in Nat : L = Len(ts)
  OBVIOUS
<1>2. PICK a \in 0..6 : a = Level[r2] /\ Rank(ts, <<r2, q, w>>) = 7 * (L + 1 - q) + a
  BY <1>1, RankAt
<1>3. PICK b \in 0..6 : b = Level[rule] /\ Rank(ts, <<rule, p, v>>) = 7 * (L + 1 - p) + b
  BY <1>1, RankAt
<1>4. 7 * (L + 1 - q) + a < 7 * (L + 1 - p) + b
  <2>1. L \in Int /\ p \in Int /\ q \in Int /\ (q > p \/ (q = p /\ a < b))
    BY <1>1, <1>2, <1>3
  <2> QED
    BY <2>1, LaterIsLower
<1> QED
  BY <1>2, <1>3, <1>4

\* What a lower call leaves, as far as a method looks at it.
Returned(ts, rule, q, r) ==
    r.err = "none" =>
        /\ r.val \in Value /\ r.pos \in q..(Len(ts) + 1)
        /\ rule \notin {"andRest", "orRest"} => r.pos > q

LEMMA AgreeAt ==
    ASSUME NEW ts, Len(ts) \in Nat, NEW g, NEW h, NEW rule \in Rules, NEW p \in 1..(Len(ts) + 1), NEW v,
           Agree(ts, g, h, <<rule, p, v>>)
    PROVE  \A r2 \in Rules, q \in 1..(Len(ts) + 1), w \in Value :
              q > p \/ (q = p /\ Level[r2] < Level[rule]) =>
                  g[<<r2, q, w>>] = h[<<r2, q, w>>] /\ Returned(ts, r2, q, g[<<r2, q, w>>])
<1> SUFFICES ASSUME NEW r2 \in Rules, NEW q \in 1..(Len(ts) + 1), NEW w \in Value,
                    q > p \/ (q = p /\ Level[r2] < Level[rule])
             PROVE  g[<<r2, q, w>>] = h[<<r2, q, w>>] /\ Returned(ts, r2, q, g[<<r2, q, w>>])
  OBVIOUS
<1>1. <<r2, q, w>> \in Calls(ts)
  BY DEF Calls
<1>2. Rank(ts, <<r2, q, w>>) < Rank(ts, <<rule, p, v>>)
  BY RankLater
<1>3. g[<<r2, q, w>>] = h[<<r2, q, w>>] /\ Advances(ts, <<r2, q, w>>, g[<<r2, q, w>>])
  BY <1>1, <1>2 DEF Agree
<1>4. Advances(ts, <<r2, q, w>>, g[<<r2, q, w>>]) <=> Returned(ts, r2, q, g[<<r2, q, w>>])
  BY DEF Advances, Returned
<1> QED
  BY <1>3, <1>4

\* What a method may rely on: the calls further on are the same, and proper.
Later(ts, g, h, p) ==
    \A rule \in Rules, q \in 1..(Len(ts) + 1), w \in Value :
        q > p => g[<<rule, q, w>>] = h[<<rule, q, w>>] /\ Returned(ts, rule, q, g[<<rule, q, w>>])

\* So are those here of the rules that bind more.
Here(ts, g, h, p, level) ==
    \A rule \in Rules :
        Level[rule] < level =>
            g[<<rule, p, Null>>] = h[<<rule, p, Null>>] /\ Returned(ts, rule, p, g[<<rule, p, Null>>])

LEMMA AgreeLater ==
    ASSUME NEW ts, Len(ts) \in Nat, NEW g, NEW h, NEW rule \in Rules, NEW p \in 1..(Len(ts) + 1), NEW v,
           Agree(ts, g, h, <<rule, p, v>>)
    PROVE  Later(ts, g, h, p) /\ Here(ts, g, h, p, Level[rule])
<1>1. Later(ts, g, h, p)
  BY AgreeAt DEF Later
<1>2. Here(ts, g, h, p, Level[rule])
  BY AgreeAt, BoolShape DEF Here
<1> QED
  BY <1>1, <1>2

LEMMA GotShape ==
    /\ \A v, p : Got(v, p).err = "none" /\ Got(v, p).val = v /\ Got(v, p).pos = p
    /\ \A e : Failed(e).err = e
BY DEF Got, Failed

LEMMA MethodOf ==
    \A ts, env, read, p, v :
           /\ Method(ts, env, <<"or", p, v>>, read) = Loop("orRest", read[<<"and", p, Null>>], read)
           /\ Method(ts, env, <<"orRest", p, v>>, read) = OrRest(ts, p, v, read)
           /\ Method(ts, env, <<"and", p, v>>, read) = Loop("andRest", read[<<"not", p, Null>>], read)
           /\ Method(ts, env, <<"andRest", p, v>>, read) = AndRest(ts, p, v, read)
           /\ Method(ts, env, <<"not", p, v>>, read) = Negation(ts, p, read)
           /\ Method(ts, env, <<"comparison", p, v>>, read) = Comparison(ts, p, read)
           /\ Method(ts, env, <<"primary", p, v>>, read) = Primary(ts, env, p, read)
BY DEF Method

\* What a method leaves depends on lower calls only, and advances if they do.
Local(ts, env, c, g, h) ==
    Method(ts, env, c, g) = Method(ts, env, c, h) /\ Advances(ts, c, Method(ts, env, c, g))

LEMMA LocalAt ==
    ASSUME NEW ts, NEW env, NEW rule, NEW p, NEW v, NEW g, NEW h, NEW r,
           Method(ts, env, <<rule, p, v>>, g) = r, Method(ts, env, <<rule, p, v>>, h) = r,
           Returned(ts, rule, p, r)
    PROVE  Local(ts, env, <<rule, p, v>>, g, h)
<1>1. Advances(ts, <<rule, p, v>>, r)
  BY DEF Advances, Returned
<1> QED
  BY <1>1 DEF Local

LEMMA ReturnedLater ==
    ASSUME NEW ts, Len(ts) \in Nat, NEW rule, NEW r2, NEW p \in Nat, NEW q \in Nat, q > p, NEW r,
           Returned(ts, r2, q, r)
    PROVE  Returned(ts, rule, p, r)
BY DEF Returned

LEMMA ReturnedFailed ==
    ASSUME NEW ts, NEW rule, NEW q, NEW r, r.err # "none" PROVE Returned(ts, rule, q, r)
BY DEF Returned

LEMMA ReturnedGot ==
    ASSUME NEW ts, Len(ts) \in Nat, NEW rule, NEW p \in Nat, NEW q \in Nat, q <= Len(ts) + 1,
           NEW w \in Value, q > p
    PROVE  Returned(ts, rule, p, Got(w, q))
BY GotShape DEF Returned

LEMMA ReturnedPlace ==
    ASSUME NEW ts, Len(ts) \in Nat, NEW rule, rule \notin {"andRest", "orRest"}, NEW p \in Nat, NEW r,
           Returned(ts, rule, p, r), r.err = "none"
    PROVE  \E w \in Value, q \in Nat : w = r.val /\ q = r.pos /\ q > p /\ q <= Len(ts) + 1
BY DEF Returned

LEMMA LocalLoop ==
    ASSUME NEW ts, Len(ts) \in Nat, NEW env, NEW g, NEW h, NEW p \in 1..(Len(ts) + 1), NEW v,
           NEW rule \in Rules, NEW part \in Rules \ {"andRest", "orRest"}, NEW rest \in Rules,
           Later(ts, g, h, p), Here(ts, g, h, p, Level[rule]), Level[part] < Level[rule],
           Method(ts, env, <<rule, p, v>>, g) = Loop(rest, g[<<part, p, Null>>], g),
           Method(ts, env, <<rule, p, v>>, h) = Loop(rest, h[<<part, p, Null>>], h)
    PROVE  Local(ts, env, <<rule, p, v>>, g, h)
<1> DEFINE first == g[<<part, p, Null>>]
<1>1. first = h[<<part, p, Null>>] /\ Returned(ts, part, p, first)
  BY DEF Here
<1>2. CASE first.err # "none"
  <2>1. /\ Method(ts, env, <<rule, p, v>>, g) = first
        /\ Method(ts, env, <<rule, p, v>>, h) = first
    BY <1>1, <1>2 DEF Loop
  <2> QED
    BY <1>2, <2>1, LocalAt, ReturnedFailed
<1>3. CASE first.err = "none"
  <2>1. PICK w \in Value, q \in Nat : w = first.val /\ q = first.pos /\ q > p /\ q <= Len(ts) + 1
    BY <1>1, <1>3, ReturnedPlace
  <2>2. q \in 1..(Len(ts) + 1)
    BY <2>1
  <2>3. g[<<rest, q, w>>] = h[<<rest, q, w>>] /\ Returned(ts, rest, q, g[<<rest, q, w>>])
    BY <2>1, <2>2 DEF Later
  <2>4. /\ Method(ts, env, <<rule, p, v>>, g) = g[<<rest, q, w>>]
        /\ Method(ts, env, <<rule, p, v>>, h) = g[<<rest, q, w>>]
    BY <1>1, <1>3, <2>1, <2>3 DEF Loop
  <2>5. Returned(ts, rule, p, g[<<rest, q, w>>])
    BY <2>1, <2>3, ReturnedLater
  <2> QED
    BY <2>4, <2>5, LocalAt
<1> QED
  BY <1>2, <1>3

\* What a loop leaves when its operator is next.
Another(part, rule, p, join, read) ==
    LET r == read[<<part, p + 1, Null>>] IN
    IF r.err # "none" THEN r ELSE read[<<rule, r.pos, join[r.val]>>]

LEMMA LocalAnother ==
    ASSUME NEW ts, Len(ts) \in Nat, NEW env, NEW g, NEW h, NEW p \in 1..Len(ts), NEW v,
           NEW rule \in Rules, NEW part \in Rules \ {"andRest", "orRest"},
           NEW join \in [Value -> Value], Later(ts, g, h, p),
           Method(ts, env, <<rule, p, v>>, g) = Another(part, rule, p, join, g),
           Method(ts, env, <<rule, p, v>>, h) = Another(part, rule, p, join, h)
    PROVE  Local(ts, env, <<rule, p, v>>, g, h)
<1> DEFINE first == g[<<part, p + 1, Null>>]
<1>1. p \in 1..(Len(ts) + 1) /\ p + 1 \in 1..(Len(ts) + 1) /\ p + 1 > p /\ p \in Nat
  OBVIOUS
<1>2. first = h[<<part, p + 1, Null>>] /\ Returned(ts, part, p + 1, first)
  BY <1>1, BoolShape DEF Later
<1>3. CASE first.err # "none"
  <2>1. /\ Method(ts, env, <<rule, p, v>>, g) = first
        /\ Method(ts, env, <<rule, p, v>>, h) = first
    BY <1>2, <1>3 DEF Another
  <2> QED
    BY <1>3, <2>1, LocalAt, ReturnedFailed
<1>4. CASE first.err = "none"
  <2>1. PICK w \in Value, q \in Nat : w = first.val /\ q = first.pos /\ q > p + 1 /\ q <= Len(ts) + 1
    BY <1>1, <1>2, <1>4, ReturnedPlace
  <2>2. q \in 1..(Len(ts) + 1) /\ q > p /\ join[w] \in Value
    BY <1>1, <2>1
  <2>3. g[<<rule, q, join[w]>>] = h[<<rule, q, join[w]>>] /\ Returned(ts, rule, q, g[<<rule, q, join[w]>>])
    BY <1>1, <2>2 DEF Later
  <2>4. /\ Method(ts, env, <<rule, p, v>>, g) = g[<<rule, q, join[w]>>]
        /\ Method(ts, env, <<rule, p, v>>, h) = g[<<rule, q, join[w]>>]
    BY <1>2, <1>4, <2>1, <2>3 DEF Another
  <2>5. Returned(ts, rule, p, g[<<rule, q, join[w]>>])
    BY <1>1, <2>1, <2>2, <2>3, ReturnedLater
  <2> QED
    BY <2>4, <2>5, LocalAt
<1> QED
  BY <1>3, <1>4

Both(v) == [w \in Value |-> Bool(Truthy(v) /\ Truthy(w))]
Either(v) == [w \in Value |-> Bool(Truthy(v) \/ Truthy(w))]

LEMMA LocalRest ==
    ASSUME NEW refs, NEW ts, Condition(ts, refs), NEW env, NEW g, NEW h,
           NEW p \in 1..(Len(ts) + 1), NEW v \in Value,
           NEW rule \in {"orRest", "andRest"}, Later(ts, g, h, p)
    PROVE  Local(ts, env, <<rule, p, v>>, g, h)
<1>1. Len(ts) \in Nat /\ rule \in Rules
  BY ConditionShape DEF Rules
<1>2. Both(v) \in [Value -> Value] /\ Either(v) \in [Value -> Value]
  BY BoolShape DEF Both, Either
<1>3. ASSUME Method(ts, env, <<rule, p, v>>, g) = Got(v, p), Method(ts, env, <<rule, p, v>>, h) = Got(v, p)
      PROVE  Local(ts, env, <<rule, p, v>>, g, h)
  <2>1. Returned(ts, rule, p, Got(v, p))
    BY <1>1, GotShape DEF Returned
  <2> QED
    BY <1>3, <2>1, LocalAt
<1>4. ASSUME NEW part \in {"and", "not"}, p \in 1..Len(ts)
      PROVE  /\ g[<<part, p + 1, Null>>] = h[<<part, p + 1, Null>>]
             /\ g[<<part, p + 1, Null>>].err = "none" => g[<<part, p + 1, Null>>].val \in Value
  <2>1. part \in Rules /\ p + 1 \in 1..(Len(ts) + 1) /\ p + 1 > p
    BY <1>1, <1>4 DEF Rules
  <2> QED
    BY <2>1, BoolShape DEF Later, Returned
<1>5. CASE rule = "orRest"
  <2>1. CASE Peek(ts, p) # "OR"
    <3>1. /\ Method(ts, env, <<rule, p, v>>, g) = OrRest(ts, p, v, g)
          /\ Method(ts, env, <<rule, p, v>>, h) = OrRest(ts, p, v, h)
      BY <1>5, MethodOf
    <3> QED
      BY <1>3, <2>1, <3>1 DEF OrRest
  <2>2. CASE Peek(ts, p) = "OR"
    <3>1. p \in 1..Len(ts)
      BY <2>2, PeekShape
    <3>2. /\ Method(ts, env, <<rule, p, v>>, g) = Another("and", rule, p, Either(v), g)
          /\ Method(ts, env, <<rule, p, v>>, h) = Another("and", rule, p, Either(v), h)
      <4>1. /\ Method(ts, env, <<rule, p, v>>, g) = OrRest(ts, p, v, g)
            /\ Method(ts, env, <<rule, p, v>>, h) = OrRest(ts, p, v, h)
        BY <1>5, MethodOf
      <4> QED
        BY <1>4, <1>5, <2>2, <3>1, <4>1 DEF OrRest, Another, Either
    <3> QED
      BY <1>1, <1>2, <3>1, <3>2, LocalAnother DEF Rules
  <2> QED
    BY <2>1, <2>2
<1>6. CASE rule = "andRest"
  <2>1. CASE Peek(ts, p) # "AND"
    <3>1. /\ Method(ts, env, <<rule, p, v>>, g) = AndRest(ts, p, v, g)
          /\ Method(ts, env, <<rule, p, v>>, h) = AndRest(ts, p, v, h)
      BY <1>6, MethodOf
    <3> QED
      BY <1>3, <2>1, <3>1 DEF AndRest
  <2>2. CASE Peek(ts, p) = "AND"
    <3>1. p \in 1..Len(ts)
      BY <2>2, PeekShape
    <3>2. /\ Method(ts, env, <<rule, p, v>>, g) = Another("not", rule, p, Both(v), g)
          /\ Method(ts, env, <<rule, p, v>>, h) = Another("not", rule, p, Both(v), h)
      <4>1. /\ Method(ts, env, <<rule, p, v>>, g) = AndRest(ts, p, v, g)
            /\ Method(ts, env, <<rule, p, v>>, h) = AndRest(ts, p, v, h)
        BY <1>6, MethodOf
      <4> QED
        BY <1>4, <1>6, <2>2, <3>1, <4>1 DEF AndRest, Another, Both
    <3> QED
      BY <1>1, <1>2, <3>1, <3>2, LocalAnother DEF Rules
  <2> QED
    BY <2>1, <2>2
<1> QED
  BY <1>5, <1>6

LEMMA LocalNegation ==
    ASSUME NEW refs, NEW ts, Condition(ts, refs), NEW env, NEW g, NEW h,
           NEW p \in 1..(Len(ts) + 1), NEW v, Later(ts, g, h, p), Here(ts, g, h, p, Level["not"])
    PROVE  Local(ts, env, <<"not", p, v>>, g, h)
<1>1. Len(ts) \in Nat /\ p \in Nat /\ "not" \in Rules /\ "comparison" \in Rules
      /\ Level["comparison"] < Level["not"]
  BY ConditionShape DEF Rules, Level
<1>2. /\ Method(ts, env, <<"not", p, v>>, g) = Negation(ts, p, g)
      /\ Method(ts, env, <<"not", p, v>>, h) = Negation(ts, p, h)
  BY MethodOf
<1>3. CASE Peek(ts, p) # "NOT"
  <2> DEFINE r == g[<<"comparison", p, Null>>]
  <2>1. r = h[<<"comparison", p, Null>>] /\ Returned(ts, "comparison", p, r)
    BY <1>1 DEF Here
  <2>2. Returned(ts, "not", p, r)
    BY <2>1 DEF Returned
  <2>3. /\ Method(ts, env, <<"not", p, v>>, g) = r
        /\ Method(ts, env, <<"not", p, v>>, h) = r
    BY <1>2, <1>3, <2>1 DEF Negation
  <2> QED
    BY <2>2, <2>3, LocalAt
<1>4. CASE Peek(ts, p) = "NOT"
  <2> DEFINE r == g[<<"not", p + 1, Null>>]
  <2>1. p + 1 \in 1..(Len(ts) + 1) /\ p + 1 > p
    BY <1>1, <1>4, PeekShape
  <2>2. r = h[<<"not", p + 1, Null>>] /\ Returned(ts, "not", p + 1, r)
    BY <1>1, <2>1, BoolShape DEF Later
  <2>3. CASE r.err # "none"
    <3>1. /\ Method(ts, env, <<"not", p, v>>, g) = r
          /\ Method(ts, env, <<"not", p, v>>, h) = r
      BY <1>2, <1>4, <2>2, <2>3 DEF Negation
    <3> QED
      BY <2>3, <3>1, LocalAt, ReturnedFailed
  <2>4. CASE r.err = "none"
    <3>1. PICK w \in Value, q \in Nat : w = r.val /\ q = r.pos /\ q > p + 1 /\ q <= Len(ts) + 1
      BY <1>1, <2>1, <2>2, <2>4, ReturnedPlace
    <3>2. Bool(~Truthy(w)) \in Value /\ q > p
      BY <1>1, <3>1, BoolShape
    <3>3. /\ Method(ts, env, <<"not", p, v>>, g) = Got(Bool(~Truthy(w)), q)
          /\ Method(ts, env, <<"not", p, v>>, h) = Got(Bool(~Truthy(w)), q)
      BY <1>2, <1>4, <2>2, <2>4, <3>1 DEF Negation
    <3> QED
      BY <1>1, <3>1, <3>2, <3>3, ReturnedGot, LocalAt
  <2> QED
    BY <2>3, <2>4
<1> QED
  BY <1>3, <1>4

LEMMA LocalComparison ==
    ASSUME NEW refs, NEW ts, Condition(ts, refs), NEW env, NEW g, NEW h,
           NEW p \in 1..(Len(ts) + 1), NEW v, Later(ts, g, h, p), Here(ts, g, h, p, Level["comparison"])
    PROVE  Local(ts, env, <<"comparison", p, v>>, g, h)
<1>1. Len(ts) \in Nat /\ p \in Nat /\ "comparison" \in Rules /\ "primary" \in Rules
      /\ Level["primary"] < Level["comparison"]
  BY ConditionShape DEF Rules, Level
<1>2. /\ Method(ts, env, <<"comparison", p, v>>, g) = Comparison(ts, p, g)
      /\ Method(ts, env, <<"comparison", p, v>>, h) = Comparison(ts, p, h)
  BY MethodOf
<1> DEFINE l == g[<<"primary", p, Null>>]
<1>3. l = h[<<"primary", p, Null>>] /\ Returned(ts, "primary", p, l)
  BY <1>1 DEF Here
<1>4. CASE ~(l.err = "none" /\ Peek(ts, l.pos) \in Comparators)
  <2>1. /\ Method(ts, env, <<"comparison", p, v>>, g) = l
        /\ Method(ts, env, <<"comparison", p, v>>, h) = l
    BY <1>2, <1>3, <1>4 DEF Comparison
  <2>2. Returned(ts, "comparison", p, l)
    BY <1>3 DEF Returned
  <2> QED
    BY <2>1, <2>2, LocalAt
<1>5. CASE l.err = "none" /\ Peek(ts, l.pos) \in Comparators
  <2>1. PICK a \in Value, m \in Nat : a = l.val /\ m = l.pos /\ m > p /\ m <= Len(ts) + 1
    BY <1>1, <1>3, <1>5, ReturnedPlace
  <2>2. m \in 1..(Len(ts) + 1) /\ Peek(ts, m) # "END"
    BY <1>1, <1>5, <2>1 DEF Comparators
  <2>3. m + 1 \in 1..(Len(ts) + 1) /\ m + 1 > p
    BY <1>1, <2>1, <2>2, PeekShape
  <2> DEFINE r == g[<<"primary", m + 1, Null>>]
  <2>4. r = h[<<"primary", m + 1, Null>>] /\ Returned(ts, "primary", m + 1, r)
    BY <1>1, <2>3, BoolShape DEF Later
  <2>5. CASE r.err # "none"
    <3>1. /\ Method(ts, env, <<"comparison", p, v>>, g) = r
          /\ Method(ts, env, <<"comparison", p, v>>, h) = r
      BY <1>2, <1>3, <1>5, <2>1, <2>4, <2>5 DEF Comparison
    <3> QED
      BY <2>5, <3>1, LocalAt, ReturnedFailed
  <2>6. CASE r.err = "none"
    <3>0. PICK next \in Nat : next = m + 1
      OBVIOUS
    <3>1. PICK b \in Value, q \in Nat : b = r.val /\ q = r.pos /\ q > m + 1 /\ q <= Len(ts) + 1
      BY <1>1, <2>4, <2>6, <3>0, ReturnedPlace
    <3>2. Bool(Compare(ts[m].k, a, b)) \in Value /\ q > p
      BY <1>1, <2>1, <3>1, BoolShape
    <3>3. /\ Method(ts, env, <<"comparison", p, v>>, g) = Got(Bool(Compare(ts[m].k, a, b)), q)
          /\ Method(ts, env, <<"comparison", p, v>>, h) = Got(Bool(Compare(ts[m].k, a, b)), q)
      BY <1>2, <1>3, <1>5, <2>1, <2>4, <2>6, <3>1 DEF Comparison
    <3> QED
      BY <1>1, <3>1, <3>2, <3>3, ReturnedGot, LocalAt
  <2> QED
    BY <2>5, <2>6
<1> QED
  BY <1>4, <1>5

LEMMA LocalPrimary ==
    ASSUME NEW refs, NEW ts, Condition(ts, refs), NEW env, Resolves(ts, env), NEW g, NEW h,
           NEW p \in 1..(Len(ts) + 1), NEW v, Later(ts, g, h, p)
    PROVE  Local(ts, env, <<"primary", p, v>>, g, h)
<1>1. Len(ts) \in Nat /\ p \in Nat /\ "primary" \in Rules /\ "or" \in Rules
  BY ConditionShape DEF Rules
<1>2. /\ Method(ts, env, <<"primary", p, v>>, g) = Primary(ts, env, p, g)
      /\ Method(ts, env, <<"primary", p, v>>, h) = Primary(ts, env, p, h)
  BY MethodOf
<1>3. \A r : /\ Primary(ts, env, p, g) = r /\ Primary(ts, env, p, h) = r
              /\ Returned(ts, "primary", p, r)
              => Local(ts, env, <<"primary", p, v>>, g, h)
  BY <1>2, LocalAt
<1>4. ASSUME NEW e, e # "none" PROVE Returned(ts, "primary", p, Failed(e))
  BY <1>4, GotShape, ReturnedFailed
<1>5. \A w \in Value, q \in Nat : q > p /\ q <= Len(ts) + 1 => Returned(ts, "primary", p, Got(w, q))
  BY <1>1, ReturnedGot
<1>6. CASE Peek(ts, p) = "LP"
  <2> DEFINE r == g[<<"or", p + 1, Null>>]
  <2>1. p + 1 \in 1..(Len(ts) + 1) /\ p + 1 > p
    BY <1>1, <1>6, PeekShape
  <2>2. r = h[<<"or", p + 1, Null>>] /\ Returned(ts, "or", p + 1, r)
    BY <1>1, <2>1, BoolShape DEF Later
  <2>3. CASE r.err # "none"
    <3>1. Primary(ts, env, p, g) = r /\ Primary(ts, env, p, h) = r
      BY <1>6, <2>2, <2>3 DEF Primary
    <3> QED
      BY <1>3, <2>3, <3>1, ReturnedFailed
  <2>4. CASE r.err = "none"
    <3>1. PICK w \in Value, q \in Nat : w = r.val /\ q = r.pos /\ q > p + 1 /\ q <= Len(ts) + 1
      BY <1>1, <2>1, <2>2, <2>4, ReturnedPlace
    <3>2. CASE Peek(ts, q) = "RP"
      <4>1. q + 1 \in Nat /\ q + 1 > p /\ q + 1 <= Len(ts) + 1
        <5>1. q \in 1..(Len(ts) + 1) /\ q > p
          BY <1>1, <3>1
        <5>2. q \in 1..Len(ts)
          BY <3>2, <5>1, PeekShape
        <5> QED
          BY <1>1, <5>1, <5>2
      <4>2. Primary(ts, env, p, g) = Got(w, q + 1)
        BY <1>6, <2>4, <3>1, <3>2 DEF Primary
      <4>3. Primary(ts, env, p, h) = Got(w, q + 1)
        BY <1>6, <2>2, <2>4, <3>1, <3>2 DEF Primary
      <4> QED
        BY <1>3, <1>5, <4>1, <4>2, <4>3
    <3>3. CASE Peek(ts, q) # "RP"
      <4>1. Primary(ts, env, p, g) = Failed("syntax") /\ Primary(ts, env, p, h) = Failed("syntax")
        BY <1>6, <2>2, <2>4, <3>1, <3>3 DEF Primary
      <4> QED
        BY <1>3, <1>4, <4>1
    <3> QED
      BY <3>2, <3>3
  <2> QED
    BY <2>3, <2>4
<1>7. CASE Peek(ts, p) = "LIT"
  <2>1. p \in 1..Len(ts) /\ ts[p].v \in Value
    BY <1>7, PeekShape, ConditionShape
  <2>2. p + 1 \in Nat /\ p + 1 > p /\ p + 1 <= Len(ts) + 1
    BY <1>1, <2>1
  <2> QED
    <3>1. Primary(ts, env, p, g) = Got(ts[p].v, p + 1) /\ Primary(ts, env, p, h) = Got(ts[p].v, p + 1)
      BY <1>7 DEF Primary
    <3> QED
      BY <1>3, <1>5, <2>1, <2>2, <3>1
<1>8. CASE Peek(ts, p) = "REF"
  <2>1. p \in 1..Len(ts) /\ ts[p].k = "REF"
    BY <1>8, PeekShape
  <2>2. p + 1 \in Nat /\ p + 1 > p /\ p + 1 <= Len(ts) + 1
    BY <1>1, <2>1
  <2>3. env[ts[p].ref] \in Value \cup {Raises}
    BY <2>1, ConditionShape DEF Resolves
  <2>4. CASE env[ts[p].ref] = Raises
    <3>1. Primary(ts, env, p, g) = Failed("raised") /\ Primary(ts, env, p, h) = Failed("raised")
      BY <1>8, <2>4 DEF Primary
    <3> QED
      BY <1>3, <1>4, <3>1
  <2>5. CASE env[ts[p].ref] # Raises
    <3>1. PICK w \in Value : w = env[ts[p].ref]
      BY <2>3, <2>5
    <3>2. Primary(ts, env, p, g) = Got(w, p + 1) /\ Primary(ts, env, p, h) = Got(w, p + 1)
      BY <1>8, <2>5, <3>1 DEF Primary
    <3> QED
      BY <1>3, <1>5, <2>2, <3>2
  <2> QED
    BY <2>4, <2>5
<1>9. CASE Peek(ts, p) \notin {"LP", "LIT", "REF"}
  <2>1. Primary(ts, env, p, g) = Failed("syntax") /\ Primary(ts, env, p, h) = Failed("syntax")
    BY <1>9 DEF Primary
  <2> QED
    BY <1>3, <1>4, <2>1
<1> QED
  BY <1>6, <1>7, <1>8, <1>9

LEMMA MethodLocal ==
    ASSUME NEW refs, NEW ts, Condition(ts, refs), NEW env, Resolves(ts, env), NEW g, NEW h,
           NEW c \in Calls(ts), Agree(ts, g, h, c)
    PROVE  Local(ts, env, c, g, h)
<1>1. PICK rule \in Rules, p \in 1..(Len(ts) + 1), v \in Value : c = <<rule, p, v>>
  BY CallShape
<1>2. Len(ts) \in Nat
  BY ConditionShape
<1>3. Later(ts, g, h, p) /\ Here(ts, g, h, p, Level[rule])
  BY <1>1, <1>2, AgreeLater
<1>4. CASE rule = "or"
  <2>1. /\ "or" \in Rules /\ "orRest" \in Rules /\ "and" \in Rules \ {"andRest", "orRest"}
        /\ Level["and"] < Level["or"]
    BY DEF Rules, Level
  <2>2. \A f : Method(ts, env, <<"or", p, v>>, f) = Loop("orRest", f[<<"and", p, Null>>], f)
    BY MethodOf
  <2> QED
    BY <1>1, <1>2, <1>3, <1>4, <2>1, <2>2, LocalLoop
<1>5. CASE rule = "and"
  <2>1. /\ "and" \in Rules /\ "andRest" \in Rules /\ "not" \in Rules \ {"andRest", "orRest"}
        /\ Level["not"] < Level["and"]
    BY DEF Rules, Level
  <2>2. \A f : Method(ts, env, <<"and", p, v>>, f) = Loop("andRest", f[<<"not", p, Null>>], f)
    BY MethodOf
  <2> QED
    BY <1>1, <1>2, <1>3, <1>5, <2>1, <2>2, LocalLoop
<1>6. CASE rule \in {"orRest", "andRest"}
  BY <1>1, <1>3, <1>6, LocalRest
<1>7. CASE rule = "not"
  BY <1>1, <1>3, <1>7, LocalNegation
<1>8. CASE rule = "comparison"
  BY <1>1, <1>3, <1>8, LocalComparison
<1>9. CASE rule = "primary"
  BY <1>1, <1>3, <1>9, LocalPrimary
<1> QED
  BY <1>4, <1>5, <1>6, <1>7, <1>8, <1>9 DEF Rules

\* Solved by g: the equations of the calls below rank n.
SolvedBelow(ts, env, n, g) ==
    \A c \in Calls(ts) : Rank(ts, c) < n => g[c] = Method(ts, env, c, g) /\ Advances(ts, c, g[c])

\* All of them, as the parser leaves them.
Reader(ts, env, g) ==
    \A c \in Calls(ts) : g[c] = Method(ts, env, c, g) /\ Advances(ts, c, g[c])

LEMMA SolvedStep ==
    ASSUME NEW refs, NEW ts, Condition(ts, refs), NEW env, Resolves(ts, env), NEW n \in Nat,
           NEW g, SolvedBelow(ts, env, n, g)
    PROVE  \E h : SolvedBelow(ts, env, n + 1, h)
<1> DEFINE h == [c \in Calls(ts) |-> IF Rank(ts, c) = n THEN Method(ts, env, c, g) ELSE g[c]]
<1>1. \A c \in Calls(ts) : Rank(ts, c) \in Nat
  BY ConditionShape, RankShape
<1> SUFFICES ASSUME NEW c \in Calls(ts), Rank(ts, c) < n + 1
             PROVE  h[c] = Method(ts, env, c, h) /\ Advances(ts, c, h[c])
  BY DEF SolvedBelow
<1>2. Agree(ts, g, h, c)
  <2> SUFFICES ASSUME NEW d \in Calls(ts), Rank(ts, d) < Rank(ts, c)
               PROVE  g[d] = h[d] /\ Advances(ts, d, g[d])
    BY DEF Agree
  <2>1. Rank(ts, d) < n /\ Rank(ts, d) # n
    BY <1>1
  <2> QED
    BY <2>1 DEF SolvedBelow
<1>3. Local(ts, env, c, g, h)
  BY <1>2, MethodLocal
<1>4. CASE Rank(ts, c) = n
  <2>1. h[c] = Method(ts, env, c, g)
    BY <1>4
  <2> HIDE DEF h
  <2> QED
    BY <1>3, <2>1 DEF Local
<1>5. CASE Rank(ts, c) < n
  <2>1. h[c] = g[c] /\ g[c] = Method(ts, env, c, g)
    BY <1>1, <1>5 DEF SolvedBelow
  <2> HIDE DEF h
  <2> QED
    BY <1>3, <2>1 DEF Local
<1> QED
  BY <1>1, <1>4, <1>5

LEMMA SolvedExists ==
    ASSUME NEW refs, NEW ts, Condition(ts, refs), NEW env, Resolves(ts, env), NEW n \in Nat
    PROVE  \E g : SolvedBelow(ts, env, n, g)
<1> DEFINE S == {k \in Nat : \E g : SolvedBelow(ts, env, k, g)}
<1>1. 0 \in S
  <2>1. \A c \in Calls(ts) : Rank(ts, c) \in Nat
    BY ConditionShape, RankShape
  <2>2. \A g : SolvedBelow(ts, env, 0, g)
    BY <2>1 DEF SolvedBelow
  <2> QED
    BY <2>2
<1>2. ASSUME NEW k \in Nat, k \in S PROVE k + 1 \in S
  <2>1. PICK g : SolvedBelow(ts, env, k, g)
    BY <1>2
  <2>2. \E h : SolvedBelow(ts, env, k + 1, h)
    BY <2>1, SolvedStep
  <2> QED
    BY <2>2
<1> HIDE DEF S
<1>3. Nat \subseteq S
  BY <1>1, <1>2, AllNumbers
<1> QED
  BY <1>3 DEF S

LEMMA ReaderExists ==
    ASSUME NEW refs, NEW ts, Condition(ts, refs), NEW env, Resolves(ts, env)
    PROVE  \E g : Reader(ts, env, g) /\ g = [c \in Calls(ts) |-> Method(ts, env, c, g)]
<1>1. /\ Len(ts) \in Nat
      /\ \A c \in Calls(ts) : Rank(ts, c) < 7 * Len(ts) + 7
  <2>1. Len(ts) \in Nat
    BY ConditionShape
  <2>2. \A c \in Calls(ts) : Rank(ts, c) \in 0..(7 * Len(ts) + 6)
    BY <2>1, RankShape
  <2> QED
    BY <2>1, <2>2
<1>2. PICK f : SolvedBelow(ts, env, 7 * Len(ts) + 7, f)
  BY <1>1, SolvedExists
<1>3. Reader(ts, env, f)
  BY <1>1, <1>2 DEF SolvedBelow, Reader
<1> DEFINE g == [c \in Calls(ts) |-> f[c]]
<1>4. \A c \in Calls(ts) : g[c] = f[c] /\ Agree(ts, f, g, c)
  BY <1>3 DEF Reader, Agree
<1>5. \A c \in Calls(ts) : Local(ts, env, c, f, g)
  BY <1>4, MethodLocal
<1> HIDE DEF g
<1>6. \A c \in Calls(ts) : g[c] = Method(ts, env, c, g) /\ Advances(ts, c, g[c])
  BY <1>3, <1>4, <1>5 DEF Reader, Local
<1>7. g = [c \in Calls(ts) |-> Method(ts, env, c, g)]
  BY <1>6 DEF g
<1> QED
  BY <1>6, <1>7 DEF Reader

\* The equations have one solution.
LEMMA ReaderUnique ==
    ASSUME NEW refs, NEW ts, Condition(ts, refs), NEW env, Resolves(ts, env), NEW g, Reader(ts, env, g),
           NEW h, \A c \in Calls(ts) : h[c] = Method(ts, env, c, h)
    PROVE  Reader(ts, env, h)
<1> DEFINE S == {k \in Nat : \A c \in Calls(ts) : Rank(ts, c) < k => g[c] = h[c]}
<1>1. \A c \in Calls(ts) : Rank(ts, c) \in Nat
  BY ConditionShape, RankShape
<1>2. 0 \in S
  BY <1>1
<1>3. ASSUME NEW k \in Nat, k \in S PROVE k + 1 \in S
  <2> SUFFICES ASSUME NEW c \in Calls(ts), Rank(ts, c) < k + 1 PROVE g[c] = h[c]
    OBVIOUS
  <2>1. Agree(ts, g, h, c)
    BY <1>1, <1>3 DEF Agree, Reader
  <2>2. Local(ts, env, c, g, h)
    BY <2>1, MethodLocal
  <2> QED
    BY <2>2 DEF Local, Reader
<1> HIDE DEF S
<1>4. Nat \subseteq S
  BY <1>2, <1>3, AllNumbers
<1>5. ASSUME NEW c \in Calls(ts) PROVE g[c] = h[c]
  <2>1. Rank(ts, c) \in Nat /\ Rank(ts, c) + 1 \in S
    BY <1>1, <1>4
  <2> QED
    BY <2>1 DEF S
<1> QED
  BY <1>5 DEF Reader

LEMMA ReadingShape ==
    ASSUME NEW refs, NEW ts, Condition(ts, refs), NEW env, Resolves(ts, env)
    PROVE  \E read : Reader(ts, env, read) /\ Reading(ts, env) = read[<<"or", 1, Null>>]
<1> DEFINE f == CHOOSE g : g = [c \in Calls(ts) |-> Method(ts, env, c, g)]
<1>1. PICK g : Reader(ts, env, g) /\ g = [c \in Calls(ts) |-> Method(ts, env, c, g)]
  BY ReaderExists
<1>2. f = [c \in Calls(ts) |-> Method(ts, env, c, f)]
  BY <1>1
<1>3. Reading(ts, env) = f[<<"or", 1, Null>>]
  BY DEF Reading
<1> HIDE DEF f
<1>4. \A c \in Calls(ts) : f[c] = Method(ts, env, c, f)
  BY <1>2
<1>5. Reader(ts, env, f)
  BY <1>1, <1>4, ReaderUnique
<1> QED
  BY <1>3, <1>5

----------------------------------------------------------------------------
(* The phrases of a range are well defined: they are made of those of ranges
   that are narrower, or of the same one as a kind that binds more. *)

Depth == [primary |-> 0, not |-> 1, and |-> 2, or |-> 3]

RangeRank(x) == 4 * (IF x[3] < x[2] THEN 0 ELSE x[3] - x[2] + 1) + Depth[x[1]]

\* P has the narrower ranges, and this one as the kinds beneath a depth.
Inner(ts, P, i, j) ==
    \A kind \in Kinds, a \in 1..(Len(ts) + 1), b \in 0..Len(ts) : b - a < j - i => <<kind, a, b>> \in P

Beneath(P, i, j, depth) == \A kind \in Kinds : Depth[kind] < depth => <<kind, i, j>> \in P

\* What a range of a kind is made of is in P.
Lower(ts, P, kind, i, j) == (i <= j => Inner(ts, P, i, j)) /\ Beneath(P, i, j, Depth[kind])

LEMMA RangeRankAt ==
    /\ \A kind \in Kinds : Depth[kind] \in 0..3
    /\ \A kind, i, j : RangeRank(<<kind, i, j>>) =
          4 * (IF j < i THEN 0 ELSE j - i + 1) + Depth[kind]
<1>1. \A kind \in Kinds : Depth[kind] \in 0..3
  BY DEF Depth, Kinds
<1>2. \A kind, i, j : RangeRank(<<kind, i, j>>) =
          4 * (IF j < i THEN 0 ELSE j - i + 1) + Depth[kind]
  BY DEF RangeRank
<1> QED
  BY <1>1, <1>2

LEMMA RangeShape ==
    ASSUME NEW ts, NEW x \in Ranges(ts)
    PROVE  \E kind \in Kinds, i \in 1..(Len(ts) + 1), j \in 0..Len(ts) : x = <<kind, i, j>>
BY DEF Ranges

LEMMA RangeRankNat ==
    ASSUME NEW ts, Len(ts) \in Nat, NEW x \in Ranges(ts)
    PROVE  RangeRank(x) \in 0..(4 * Len(ts) + 3)
<1>1. PICK kind \in Kinds, i \in 1..(Len(ts) + 1), j \in 0..Len(ts) : x = <<kind, i, j>>
  BY RangeShape
<1> DEFINE w == IF j < i THEN 0 ELSE j - i + 1
<1>2. w \in 0..Len(ts)
  OBVIOUS
<1>3. PICK d \in 0..3 : d = Depth[kind]
  BY RangeRankAt
<1>4. RangeRank(x) = 4 * w + d
  BY <1>1, <1>3, RangeRankAt
<1> HIDE DEF w
<1> QED
  BY <1>2, <1>3, <1>4

LEMMA NarrowerIsLower ==
    ASSUME NEW ts, Len(ts) \in Nat, NEW P,
           NEW kind \in Kinds, NEW i \in 1..(Len(ts) + 1), NEW j \in 0..Len(ts),
           \A y \in Ranges(ts) : RangeRank(y) < RangeRank(<<kind, i, j>>) => y \in P
    PROVE  Lower(ts, P, kind, i, j)
<1> DEFINE W(a, b) == IF b < a THEN 0 ELSE b - a + 1
<1>1. PICK d \in 0..3 : d = Depth[kind] /\ RangeRank(<<kind, i, j>>) = 4 * W(i, j) + d
  BY RangeRankAt
<1>2. ASSUME i <= j, NEW k2 \in Kinds, NEW a \in 1..(Len(ts) + 1), NEW b \in 0..Len(ts), b - a < j - i
      PROVE  <<k2, a, b>> \in P
  <2>1. PICK e \in 0..3 : RangeRank(<<k2, a, b>>) = 4 * W(a, b) + e
    BY RangeRankAt
  <2>2. W(a, b) \in Nat /\ W(i, j) \in Nat /\ W(a, b) < W(i, j)
    BY <1>2
  <2> HIDE DEF W
  <2>3. RangeRank(<<k2, a, b>>) < RangeRank(<<kind, i, j>>)
    <3>1. PICK narrow \in Nat, wide \in Nat : narrow = W(a, b) /\ wide = W(i, j)
      BY <2>2
    <3>2. narrow < wide
      BY <2>2, <3>1
    <3>3. 4 * narrow + e < 4 * wide + d
      BY <3>2
    <3> QED
      BY <1>1, <2>1, <3>1, <3>3
  <2> QED
    BY <2>3 DEF Ranges
<1>3. ASSUME NEW k2 \in Kinds, Depth[k2] < Depth[kind] PROVE <<k2, i, j>> \in P
  <2>1. PICK e \in 0..3 : e = Depth[k2] /\ RangeRank(<<k2, i, j>>) = 4 * W(i, j) + e
    BY RangeRankAt
  <2>2. W(i, j) \in Nat
    OBVIOUS
  <2> HIDE DEF W
  <2>3. RangeRank(<<k2, i, j>>) < RangeRank(<<kind, i, j>>)
    BY <1>1, <1>3, <2>1, <2>2
  <2> QED
    BY <2>3 DEF Ranges
<1>4. i <= j => Inner(ts, P, i, j)
  BY <1>2 DEF Inner
<1> QED
  BY <1>3, <1>4 DEF Beneath, Lower

LEMMA RangeInduction ==
    ASSUME NEW ts, Len(ts) \in Nat, NEW P,
           \A kind \in Kinds, i \in 1..(Len(ts) + 1), j \in 0..Len(ts) :
              Lower(ts, P, kind, i, j) => <<kind, i, j>> \in P
    PROVE  Ranges(ts) \subseteq P
<1> DEFINE S == {k \in Nat : \A x \in Ranges(ts) : RangeRank(x) < k => x \in P}
<1>1. \A x \in Ranges(ts) : RangeRank(x) \in Nat
  BY RangeRankNat
<1>2. 0 \in S
  BY <1>1
<1>3. ASSUME NEW k \in Nat, k \in S PROVE k + 1 \in S
  <2> SUFFICES ASSUME NEW x \in Ranges(ts), RangeRank(x) < k + 1 PROVE x \in P
    OBVIOUS
  <2>1. PICK kind \in Kinds, i \in 1..(Len(ts) + 1), j \in 0..Len(ts) : x = <<kind, i, j>>
    BY RangeShape
  <2>2. \A y \in Ranges(ts) : RangeRank(y) < RangeRank(<<kind, i, j>>) => y \in P
    BY <1>1, <1>3, <2>1
  <2>3. Lower(ts, P, kind, i, j)
    BY <2>2, NarrowerIsLower
  <2> QED
    BY <2>1, <2>3
<1> HIDE DEF S
<1>4. Nat \subseteq S
  BY <1>2, <1>3, AllNumbers
<1>5. ASSUME NEW x \in Ranges(ts) PROVE x \in P
  <2>1. RangeRank(x) \in Nat /\ RangeRank(x) + 1 \in S
    BY <1>1, <1>4
  <2> QED
    BY <2>1 DEF S
<1> QED
  BY <1>5

LEMMA PlacesShape ==
    ASSUME NEW ts, Len(ts) \in Nat, NEW i \in 1..(Len(ts) + 1), NEW j \in 0..Len(ts), NEW ops,
           NEW p \in Places(ts, i, j, ops)
    PROVE  /\ i <= j /\ p \in i..j /\ p \in 1..Len(ts) /\ ts[p].k \in ops
           /\ p - 1 \in 0..Len(ts) /\ p + 1 \in 1..(Len(ts) + 1)
           /\ (p - 1) - i < j - i /\ j - (p + 1) < j - i
BY DEF Places

\* The parts on both sides of a place are the same in g and h.
Joint(ts, g, h, i, j, ops, left, right) ==
    \A p \in Places(ts, i, j, ops) :
        g[<<left, i, p - 1>>] = h[<<left, i, p - 1>>] /\ g[<<right, p + 1, j>>] = h[<<right, p + 1, j>>]

LEMMA JointLocal ==
    ASSUME NEW ts, Len(ts) \in Nat, NEW g, NEW h, NEW P, \A x \in P : g[x] = h[x],
           NEW i \in 1..(Len(ts) + 1), NEW j \in 0..Len(ts), i <= j => Inner(ts, P, i, j)
    PROVE  \A ops : \A left, right \in Kinds : Joint(ts, g, h, i, j, ops, left, right)
<1> SUFFICES ASSUME NEW ops, NEW left \in Kinds, NEW right \in Kinds, NEW p \in Places(ts, i, j, ops)
             PROVE  /\ g[<<left, i, p - 1>>] = h[<<left, i, p - 1>>]
                    /\ g[<<right, p + 1, j>>] = h[<<right, p + 1, j>>]
  BY DEF Joint
<1>1. <<left, i, p - 1>> \in P
  BY PlacesShape DEF Inner
<1>2. <<right, p + 1, j>> \in P
  BY PlacesShape DEF Inner
<1> QED
  BY <1>1, <1>2

\* Two functions that are the same on P.
Same(P, g, h) == \A x \in P : g[x] = h[x]

LEMMA PhraseLocal ==
    ASSUME NEW refs, NEW ts, Condition(ts, refs), NEW env, NEW g, NEW h, NEW P, Same(P, g, h),
           NEW kind \in Kinds, NEW i \in 1..(Len(ts) + 1), NEW j \in 0..Len(ts),
           Lower(ts, P, kind, i, j)
    PROVE  Phrases(ts, env, <<kind, i, j>>, g) = Phrases(ts, env, <<kind, i, j>>, h)
<1>1. /\ Len(ts) \in Nat /\ \A x \in P : g[x] = h[x]
      /\ (i <= j => Inner(ts, P, i, j)) /\ Beneath(P, i, j, Depth[kind])
  BY ConditionShape DEF Same, Lower
<1>2. {"primary", "not", "and", "or"} \subseteq Kinds
  BY DEF Kinds
<1>3. /\ Depth["primary"] < Depth["not"] /\ Depth["not"] < Depth["and"] /\ Depth["and"] < Depth["or"]
  BY DEF Depth
<1>4. CASE kind = "or"
  <2>1. g[<<"and", i, j>>] = h[<<"and", i, j>>]
    BY <1>1, <1>2, <1>3, <1>4 DEF Beneath
  <2>2. Joint(ts, g, h, i, j, {"OR"}, "or", "and")
    BY <1>1, <1>2, JointLocal
  <2>3. Disjunction(ts, i, j, g) = Disjunction(ts, i, j, h)
    <3> DEFINE F(f, p) == {Bool(Truthy(l) \/ Truthy(r)) : l \in f[<<"or", i, p - 1>>], r \in f[<<"and", p + 1, j>>]}
    <3>1. \A f : Disjunction(ts, i, j, f) =
                    f[<<"and", i, j>>] \cup UNION {F(f, p) : p \in Places(ts, i, j, {"OR"})}
      BY DEF Disjunction
    <3>2. \A p \in Places(ts, i, j, {"OR"}) : F(g, p) = F(h, p)
      BY <2>2 DEF Joint
    <3> HIDE DEF F
    <3>3. {F(g, p) : p \in Places(ts, i, j, {"OR"})} = {F(h, p) : p \in Places(ts, i, j, {"OR"})}
      BY <3>2
    <3> QED
      BY <2>1, <3>1, <3>3
  <2> QED
    BY <1>4, <2>3 DEF Phrases
<1>5. CASE kind = "and"
  <2>1. g[<<"not", i, j>>] = h[<<"not", i, j>>]
    BY <1>1, <1>2, <1>3, <1>5 DEF Beneath
  <2>2. Joint(ts, g, h, i, j, {"AND"}, "and", "not")
    BY <1>1, <1>2, JointLocal
  <2>3. Conjunction(ts, i, j, g) = Conjunction(ts, i, j, h)
    <3> DEFINE F(f, p) == {Bool(Truthy(l) /\ Truthy(r)) : l \in f[<<"and", i, p - 1>>], r \in f[<<"not", p + 1, j>>]}
    <3>1. \A f : Conjunction(ts, i, j, f) =
                    f[<<"not", i, j>>] \cup UNION {F(f, p) : p \in Places(ts, i, j, {"AND"})}
      BY DEF Conjunction
    <3>2. \A p \in Places(ts, i, j, {"AND"}) : F(g, p) = F(h, p)
      BY <2>2 DEF Joint
    <3> HIDE DEF F
    <3>3. {F(g, p) : p \in Places(ts, i, j, {"AND"})} = {F(h, p) : p \in Places(ts, i, j, {"AND"})}
      BY <3>2
    <3> QED
      BY <2>1, <3>1, <3>3
  <2> QED
    BY <1>5, <2>3 DEF Phrases
<1>6. CASE kind = "not"
  <2>1. g[<<"primary", i, j>>] = h[<<"primary", i, j>>]
    BY <1>1, <1>2, <1>3, <1>6 DEF Beneath
  <2>2. Joint(ts, g, h, i, j, Comparators, "primary", "primary")
    BY <1>1, <1>2, JointLocal
  <2>3. Relation(ts, i, j, g) = Relation(ts, i, j, h)
    <3> DEFINE F(f, p) == {Bool(Compare(ts[p].k, l, r)) : l \in f[<<"primary", i, p - 1>>], r \in f[<<"primary", p + 1, j>>]}
    <3>1. \A f : Relation(ts, i, j, f) =
                    f[<<"primary", i, j>>] \cup UNION {F(f, p) : p \in Places(ts, i, j, Comparators)}
      BY DEF Relation
    <3>2. \A p \in Places(ts, i, j, Comparators) : F(g, p) = F(h, p)
      BY <2>2 DEF Joint
    <3> HIDE DEF F
    <3>3. {F(g, p) : p \in Places(ts, i, j, Comparators)} = {F(h, p) : p \in Places(ts, i, j, Comparators)}
      BY <3>2
    <3> QED
      BY <2>1, <3>1, <3>3
  <2>4. i \in Places(ts, i, j, {"NOT"}) => g[<<"not", i + 1, j>>] = h[<<"not", i + 1, j>>]
    <3>1. Joint(ts, g, h, i, j, {"NOT"}, "not", "not")
      BY <1>1, <1>2, JointLocal
    <3> QED
      BY <3>1 DEF Joint
  <2> QED
    BY <1>6, <2>3, <2>4 DEF Phrases
<1>7. CASE kind = "primary"
  <2>1. ASSUME i # j, i \in Places(ts, i, j, {"LP"})
        PROVE  g[<<"or", i + 1, j - 1>>] = h[<<"or", i + 1, j - 1>>]
    <3>1. i <= j /\ i + 1 \in 1..(Len(ts) + 1) /\ j - 1 \in 0..Len(ts) /\ (j - 1) - (i + 1) < j - i
      BY <1>1, <2>1, PlacesShape
    <3> QED
      BY <1>1, <1>2, <3>1 DEF Inner
  <2>2. Operand(ts, env, i, j, g) = Operand(ts, env, i, j, h)
    BY <2>1 DEF Operand
  <2> QED
    BY <1>7, <2>2 DEF Phrases
<1> QED
  BY <1>4, <1>5, <1>6, <1>7 DEF Kinds

Grammar(ts, env, f) == \A x \in Ranges(ts) : f[x] = Phrases(ts, env, x, f)

GrammarBelow(ts, env, n, f) ==
    \A x \in Ranges(ts) : RangeRank(x) < n => f[x] = Phrases(ts, env, x, f)

LEMMA GrammarStep ==
    ASSUME NEW refs, NEW ts, Condition(ts, refs), NEW env, NEW n \in Nat,
           NEW g, GrammarBelow(ts, env, n, g)
    PROVE  \E h : GrammarBelow(ts, env, n + 1, h)
<1> DEFINE h == [x \in Ranges(ts) |-> IF RangeRank(x) = n THEN Phrases(ts, env, x, g) ELSE g[x]]
           P == {x \in Ranges(ts) : RangeRank(x) < n}
<1>1. Len(ts) \in Nat /\ \A x \in Ranges(ts) : RangeRank(x) \in Nat
  BY ConditionShape, RangeRankNat
<1>2. Same(P, g, h)
  BY <1>1 DEF Same
<1> SUFFICES ASSUME NEW x \in Ranges(ts), RangeRank(x) < n + 1 PROVE h[x] = Phrases(ts, env, x, h)
  BY DEF GrammarBelow
<1>3. PICK kind \in Kinds, i \in 1..(Len(ts) + 1), j \in 0..Len(ts) : x = <<kind, i, j>>
  BY RangeShape
<1>4. \A y \in Ranges(ts) : RangeRank(y) < RangeRank(<<kind, i, j>>) => y \in P
  BY <1>1, <1>3
<1>5. h[x] = IF RangeRank(x) = n THEN Phrases(ts, env, x, g) ELSE g[x]
  OBVIOUS
<1>6. RangeRank(x) # n => g[x] = Phrases(ts, env, x, g)
  BY <1>1 DEF GrammarBelow
<1> HIDE DEF h, P
<1>7. Lower(ts, P, kind, i, j)
  BY <1>1, <1>4, NarrowerIsLower
<1>8. Phrases(ts, env, <<kind, i, j>>, g) = Phrases(ts, env, <<kind, i, j>>, h)
  BY <1>2, <1>7, PhraseLocal
<1> QED
  BY <1>3, <1>5, <1>6, <1>8

LEMMA GrammarExists ==
    ASSUME NEW refs, NEW ts, Condition(ts, refs), NEW env
    PROVE  \E f : f = [x \in Ranges(ts) |-> Phrases(ts, env, x, f)]
<1> DEFINE S == {k \in Nat : \E g : GrammarBelow(ts, env, k, g)}
<1>1. Len(ts) \in Nat /\ \A x \in Ranges(ts) : RangeRank(x) \in 0..(4 * Len(ts) + 3)
  BY ConditionShape, RangeRankNat
<1>2. 0 \in S
  <2>1. \A g : GrammarBelow(ts, env, 0, g)
    BY <1>1 DEF GrammarBelow
  <2> QED
    BY <2>1
<1>3. ASSUME NEW k \in Nat, k \in S PROVE k + 1 \in S
  <2>1. PICK g : GrammarBelow(ts, env, k, g)
    BY <1>3
  <2>2. \E h : GrammarBelow(ts, env, k + 1, h)
    BY <2>1, GrammarStep
  <2> QED
    BY <2>2
<1> HIDE DEF S
<1>4. Nat \subseteq S
  BY <1>2, <1>3, AllNumbers
<1>5. 4 * Len(ts) + 4 \in S
  BY <1>1, <1>4
<1>6. PICK g : GrammarBelow(ts, env, 4 * Len(ts) + 4, g)
  BY <1>5 DEF S
<1>7. Grammar(ts, env, g)
  BY <1>1, <1>6 DEF GrammarBelow, Grammar
<1> DEFINE f == [x \in Ranges(ts) |-> g[x]]
<1>8. Same(Ranges(ts), g, f)
  BY DEF Same
<1>9. ASSUME NEW x \in Ranges(ts) PROVE f[x] = Phrases(ts, env, x, f)
  <2>1. PICK kind \in Kinds, i \in 1..(Len(ts) + 1), j \in 0..Len(ts) : x = <<kind, i, j>>
    BY RangeShape
  <2>2. Lower(ts, Ranges(ts), kind, i, j)
    BY <1>1, <2>1, NarrowerIsLower
  <2> HIDE DEF f
  <2>3. Phrases(ts, env, <<kind, i, j>>, g) = Phrases(ts, env, <<kind, i, j>>, f)
    BY <1>8, <2>2, PhraseLocal
  <2> QED
    BY <1>7, <1>8, <2>1, <2>3 DEF Grammar, Same
<1>10. f = [x \in Ranges(ts) |-> f[x]]
  OBVIOUS
<1> HIDE DEF f
<1>11. f = [x \in Ranges(ts) |-> Phrases(ts, env, x, f)]
  BY <1>9, <1>10
<1> QED
  BY <1>11

LEMMA MeaningsShape ==
    ASSUME NEW refs, NEW ts, Condition(ts, refs), NEW env
    PROVE  \E f : /\ Grammar(ts, env, f)
                  /\ Meanings(ts, env) = {Bool(Truthy(v)) : v \in f[<<"or", 1, Len(ts)>>]}
<1> DEFINE f == CHOOSE g : g = [x \in Ranges(ts) |-> Phrases(ts, env, x, g)]
<1>1. f = [x \in Ranges(ts) |-> Phrases(ts, env, x, f)]
  BY GrammarExists
<1>2. Meanings(ts, env) = {Bool(Truthy(v)) : v \in f[<<"or", 1, Len(ts)>>]}
  BY DEF Meanings
<1> HIDE DEF f
<1>3. Grammar(ts, env, f)
  BY <1>1 DEF Grammar
<1> QED
  BY <1>2, <1>3

----------------------------------------------------------------------------
(* What the parser has read is a phrase of the grammar. *)

\* P has the calls further on, and those here of the rules that bind more.
LaterIn(ts, P, p) ==
    \A rule \in Rules, q \in 1..(Len(ts) + 1), w \in Value : q > p => <<rule, q, w>> \in P

HereIn(P, p, level) == \A rule \in Rules : Level[rule] < level => <<rule, p, Null>> \in P

LEMMA CallInduction ==
    ASSUME NEW ts, Len(ts) \in Nat, NEW P,
           \A rule \in Rules, p \in 1..(Len(ts) + 1), v \in Value :
              LaterIn(ts, P, p) /\ HereIn(P, p, Level[rule]) => <<rule, p, v>> \in P
    PROVE  Calls(ts) \subseteq P
<1> DEFINE S == {k \in Nat : \A c \in Calls(ts) : Rank(ts, c) < k => c \in P}
<1>1. \A c \in Calls(ts) : Rank(ts, c) \in Nat
  BY RankShape
<1>2. 0 \in S
  BY <1>1
<1>3. ASSUME NEW k \in Nat, k \in S PROVE k + 1 \in S
  <2> SUFFICES ASSUME NEW c \in Calls(ts), Rank(ts, c) < k + 1 PROVE c \in P
    OBVIOUS
  <2>1. PICK rule \in Rules, p \in 1..(Len(ts) + 1), v \in Value : c = <<rule, p, v>>
    BY CallShape
  <2>2. ASSUME NEW r2 \in Rules, NEW q \in 1..(Len(ts) + 1), NEW w \in Value,
               q > p \/ (q = p /\ Level[r2] < Level[rule])
        PROVE  <<r2, q, w>> \in P
    <3>1. <<r2, q, w>> \in Calls(ts)
      BY DEF Calls
    <3>2. Rank(ts, <<r2, q, w>>) < Rank(ts, c)
      BY <2>1, <2>2, RankLater
    <3>3. Rank(ts, <<r2, q, w>>) < k
      BY <1>1, <3>1, <3>2
    <3> QED
      BY <1>3, <3>1, <3>3
  <2>3. LaterIn(ts, P, p) /\ HereIn(P, p, Level[rule])
    BY <2>2, BoolShape DEF LaterIn, HereIn
  <2> QED
    BY <2>1, <2>3
<1> HIDE DEF S
<1>4. Nat \subseteq S
  BY <1>2, <1>3, AllNumbers
<1>5. ASSUME NEW c \in Calls(ts) PROVE c \in P
  <2>1. Rank(ts, c) \in Nat /\ Rank(ts, c) + 1 \in S
    BY <1>1, <1>4
  <2> QED
    BY <2>1 DEF S
<1> QED
  BY <1>5

LEMMA ReaderAt ==
    ASSUME NEW ts, NEW env, NEW read, Reader(ts, env, read)
    PROVE  \A p \in 1..(Len(ts) + 1), v \in Value :
              /\ \A rule \in Rules : Returned(ts, rule, p, read[<<rule, p, v>>])
              /\ read[<<"or", p, v>>] = Loop("orRest", read[<<"and", p, Null>>], read)
              /\ read[<<"orRest", p, v>>] = OrRest(ts, p, v, read)
              /\ read[<<"and", p, v>>] = Loop("andRest", read[<<"not", p, Null>>], read)
              /\ read[<<"andRest", p, v>>] = AndRest(ts, p, v, read)
              /\ read[<<"not", p, v>>] = Negation(ts, p, read)
              /\ read[<<"comparison", p, v>>] = Comparison(ts, p, read)
              /\ read[<<"primary", p, v>>] = Primary(ts, env, p, read)
<1> SUFFICES ASSUME NEW p \in 1..(Len(ts) + 1), NEW v \in Value
             PROVE  /\ \A rule \in Rules : Returned(ts, rule, p, read[<<rule, p, v>>])
                    /\ read[<<"or", p, v>>] = Loop("orRest", read[<<"and", p, Null>>], read)
                    /\ read[<<"orRest", p, v>>] = OrRest(ts, p, v, read)
                    /\ read[<<"and", p, v>>] = Loop("andRest", read[<<"not", p, Null>>], read)
                    /\ read[<<"andRest", p, v>>] = AndRest(ts, p, v, read)
                    /\ read[<<"not", p, v>>] = Negation(ts, p, read)
                    /\ read[<<"comparison", p, v>>] = Comparison(ts, p, read)
                    /\ read[<<"primary", p, v>>] = Primary(ts, env, p, read)
  OBVIOUS
<1>1. \A rule \in Rules : <<rule, p, v>> \in Calls(ts)
  BY DEF Calls
<1>2. \A rule \in Rules : /\ read[<<rule, p, v>>] = Method(ts, env, <<rule, p, v>>, read)
                          /\ Advances(ts, <<rule, p, v>>, read[<<rule, p, v>>])
  BY <1>1 DEF Reader
<1>3. \A rule : Advances(ts, <<rule, p, v>>, read[<<rule, p, v>>]) <=>
                    Returned(ts, rule, p, read[<<rule, p, v>>])
  BY DEF Advances, Returned
<1>4. {"or", "orRest", "and", "andRest", "not", "comparison", "primary"} \subseteq Rules
  BY DEF Rules
<1>5. \A rule \in Rules : Returned(ts, rule, p, read[<<rule, p, v>>])
  BY <1>2, <1>3
<1>6. /\ Method(ts, env, <<"or", p, v>>, read) = Loop("orRest", read[<<"and", p, Null>>], read)
      /\ Method(ts, env, <<"orRest", p, v>>, read) = OrRest(ts, p, v, read)
      /\ Method(ts, env, <<"and", p, v>>, read) = Loop("andRest", read[<<"not", p, Null>>], read)
      /\ Method(ts, env, <<"andRest", p, v>>, read) = AndRest(ts, p, v, read)
      /\ Method(ts, env, <<"not", p, v>>, read) = Negation(ts, p, read)
      /\ Method(ts, env, <<"comparison", p, v>>, read) = Comparison(ts, p, read)
      /\ Method(ts, env, <<"primary", p, v>>, read) = Primary(ts, env, p, read)
  BY MethodOf
<1> QED
  BY <1>2, <1>4, <1>5, <1>6

LEMMA ReaderReturns ==
    ASSUME NEW ts, NEW env, NEW read, Reader(ts, env, read)
    PROVE  \A rule \in Rules, p \in 1..(Len(ts) + 1), v \in Value :
              Returned(ts, rule, p, read[<<rule, p, v>>])
BY ReaderAt

LEMMA ReaderOr ==
    ASSUME NEW ts, NEW env, NEW read, Reader(ts, env, read)
    PROVE  \A p \in 1..(Len(ts) + 1), v \in Value :
              read[<<"or", p, v>>] = Loop("orRest", read[<<"and", p, Null>>], read)
<1> SUFFICES ASSUME NEW p \in 1..(Len(ts) + 1), NEW v \in Value
             PROVE  read[<<"or", p, v>>] = Loop("orRest", read[<<"and", p, Null>>], read)
  OBVIOUS
<1>1. <<"or", p, v>> \in Calls(ts)
  BY DEF Calls, Rules
<1>2. read[<<"or", p, v>>] = Method(ts, env, <<"or", p, v>>, read)
  BY <1>1 DEF Reader
<1> QED
  BY <1>2, MethodOf

LEMMA ReaderAnd ==
    ASSUME NEW ts, NEW env, NEW read, Reader(ts, env, read)
    PROVE  \A p \in 1..(Len(ts) + 1), v \in Value :
              read[<<"and", p, v>>] = Loop("andRest", read[<<"not", p, Null>>], read)
<1> SUFFICES ASSUME NEW p \in 1..(Len(ts) + 1), NEW v \in Value
             PROVE  read[<<"and", p, v>>] = Loop("andRest", read[<<"not", p, Null>>], read)
  OBVIOUS
<1>1. <<"and", p, v>> \in Calls(ts)
  BY DEF Calls, Rules
<1>2. read[<<"and", p, v>>] = Method(ts, env, <<"and", p, v>>, read)
  BY <1>1 DEF Reader
<1> QED
  BY <1>2, MethodOf

LEMMA ReaderOrRest ==
    ASSUME NEW ts, NEW env, NEW read, Reader(ts, env, read)
    PROVE  \A p \in 1..(Len(ts) + 1), v \in Value : read[<<"orRest", p, v>>] = OrRest(ts, p, v, read)
BY ReaderAt

LEMMA ReaderPrimary ==
    ASSUME NEW ts, NEW env, NEW read, Reader(ts, env, read)
    PROVE  \A p \in 1..(Len(ts) + 1), v \in Value :
              read[<<"primary", p, v>>] = Primary(ts, env, p, read)
BY ReaderAt

LEMMA GrammarAt ==
    ASSUME NEW ts, NEW env, NEW f, Grammar(ts, env, f)
    PROVE  \A i \in 1..(Len(ts) + 1), j \in 0..Len(ts) :
              /\ f[<<"or", i, j>>] = Disjunction(ts, i, j, f)
              /\ f[<<"and", i, j>>] = Conjunction(ts, i, j, f)
              /\ f[<<"not", i, j>>] = IF i \in Places(ts, i, j, {"NOT"})
                                     THEN {Bool(~Truthy(v)) : v \in f[<<"not", i + 1, j>>]}
                                     ELSE Relation(ts, i, j, f)
              /\ f[<<"primary", i, j>>] = Operand(ts, env, i, j, f)
<1> SUFFICES ASSUME NEW i \in 1..(Len(ts) + 1), NEW j \in 0..Len(ts)
             PROVE  /\ f[<<"or", i, j>>] = Disjunction(ts, i, j, f)
                    /\ f[<<"and", i, j>>] = Conjunction(ts, i, j, f)
                    /\ f[<<"not", i, j>>] = IF i \in Places(ts, i, j, {"NOT"})
                                           THEN {Bool(~Truthy(v)) : v \in f[<<"not", i + 1, j>>]}
                                           ELSE Relation(ts, i, j, f)
                    /\ f[<<"primary", i, j>>] = Operand(ts, env, i, j, f)
  OBVIOUS
<1>1. \A kind \in Kinds : f[<<kind, i, j>>] = Phrases(ts, env, <<kind, i, j>>, f)
  BY DEF Grammar, Ranges
<1>2. {"or", "and", "not", "primary"} \subseteq Kinds
  BY DEF Kinds
<1>3. /\ Phrases(ts, env, <<"or", i, j>>, f) = Disjunction(ts, i, j, f)
      /\ Phrases(ts, env, <<"and", i, j>>, f) = Conjunction(ts, i, j, f)
      /\ Phrases(ts, env, <<"primary", i, j>>, f) = Operand(ts, env, i, j, f)
  BY DEF Phrases
<1>4. Phrases(ts, env, <<"not", i, j>>, f) =
          IF i \in Places(ts, i, j, {"NOT"})
          THEN {Bool(~Truthy(v)) : v \in f[<<"not", i + 1, j>>]}
          ELSE Relation(ts, i, j, f)
  BY DEF Phrases
<1> QED
  BY <1>1, <1>2, <1>3, <1>4

\* What a method leaves is a phrase of a kind from p on.
Phrase(f, kind, p, r) == r.err = "none" => r.val \in f[<<kind, p, r.pos - 1>>]

\* A loop that is called with a phrase that ends before p leaves a longer one.
Continues(f, kind, p, v, r) ==
    r.err = "none" =>
        \A i \in 1..(p - 1) : v \in f[<<kind, i, p - 1>>] => r.val \in f[<<kind, i, r.pos - 1>>]

Sound(f, read, c) ==
    /\ c[1] = "primary" => Phrase(f, "primary", c[2], read[c])
    /\ c[1] \in {"comparison", "not"} => Phrase(f, "not", c[2], read[c])
    /\ c[1] = "and" => Phrase(f, "and", c[2], read[c])
    /\ c[1] = "or" => Phrase(f, "or", c[2], read[c])
    /\ c[1] = "andRest" => Continues(f, "and", c[2], c[3], read[c])
    /\ c[1] = "orRest" => Continues(f, "or", c[2], c[3], read[c])

LEMMA SoundAt ==
    \A f, read, p, v :
        /\ Sound(f, read, <<"primary", p, v>>) <=> Phrase(f, "primary", p, read[<<"primary", p, v>>])
        /\ Sound(f, read, <<"comparison", p, v>>) <=> Phrase(f, "not", p, read[<<"comparison", p, v>>])
        /\ Sound(f, read, <<"not", p, v>>) <=> Phrase(f, "not", p, read[<<"not", p, v>>])
        /\ Sound(f, read, <<"and", p, v>>) <=> Phrase(f, "and", p, read[<<"and", p, v>>])
        /\ Sound(f, read, <<"or", p, v>>) <=> Phrase(f, "or", p, read[<<"or", p, v>>])
        /\ Sound(f, read, <<"andRest", p, v>>) <=> Continues(f, "and", p, v, read[<<"andRest", p, v>>])
        /\ Sound(f, read, <<"orRest", p, v>>) <=> Continues(f, "or", p, v, read[<<"orRest", p, v>>])
BY DEF Sound

\* Longer phrases, from a place where they are joined.
LEMMA JoinPhrases ==
    ASSUME NEW ts, Len(ts) \in Nat, NEW env, NEW f, Grammar(ts, env, f),
           NEW i \in 1..(Len(ts) + 1), NEW j \in 0..Len(ts)
    PROVE  /\ f[<<"not", i, j>>] \subseteq f[<<"and", i, j>>]
           /\ f[<<"and", i, j>>] \subseteq f[<<"or", i, j>>]
           /\ ~(i <= j /\ ts[i].k = "NOT") => f[<<"primary", i, j>>] \subseteq f[<<"not", i, j>>]
           /\ \A p \in i..j : ts[p].k = "OR" =>
                 \A l \in f[<<"or", i, p - 1>>], r \in f[<<"and", p + 1, j>>] :
                    Bool(Truthy(l) \/ Truthy(r)) \in f[<<"or", i, j>>]
           /\ \A p \in i..j : ts[p].k = "AND" =>
                 \A l \in f[<<"and", i, p - 1>>], r \in f[<<"not", p + 1, j>>] :
                    Bool(Truthy(l) /\ Truthy(r)) \in f[<<"and", i, j>>]
           /\ \A p \in i..j : ts[p].k \in Comparators /\ ts[i].k # "NOT" =>
                 \A l \in f[<<"primary", i, p - 1>>], r \in f[<<"primary", p + 1, j>>] :
                    Bool(Compare(ts[p].k, l, r)) \in f[<<"not", i, j>>]
           /\ i <= j /\ ts[i].k = "NOT" =>
                 \A v \in f[<<"not", i + 1, j>>] : Bool(~Truthy(v)) \in f[<<"not", i, j>>]
<1>1. /\ f[<<"or", i, j>>] = Disjunction(ts, i, j, f)
      /\ f[<<"and", i, j>>] = Conjunction(ts, i, j, f)
      /\ f[<<"not", i, j>>] = IF i \in Places(ts, i, j, {"NOT"})
                             THEN {Bool(~Truthy(v)) : v \in f[<<"not", i + 1, j>>]}
                             ELSE Relation(ts, i, j, f)
  BY GrammarAt
<1>2. i \in Places(ts, i, j, {"NOT"}) <=> i <= j /\ ts[i].k = "NOT"
  BY DEF Places
<1>3. \A p, ops : p \in Places(ts, i, j, ops) <=> p \in i..j /\ ts[p].k \in ops
  BY DEF Places
<1>4. f[<<"not", i, j>>] \subseteq f[<<"and", i, j>>]
  BY <1>1 DEF Conjunction
<1>5. f[<<"and", i, j>>] \subseteq f[<<"or", i, j>>]
  BY <1>1 DEF Disjunction
<1>6. ~(i <= j /\ ts[i].k = "NOT") => f[<<"primary", i, j>>] \subseteq f[<<"not", i, j>>]
  BY <1>1, <1>2 DEF Relation
<1>7. ASSUME NEW p \in i..j, ts[p].k = "OR", NEW l \in f[<<"or", i, p - 1>>], NEW r \in f[<<"and", p + 1, j>>]
      PROVE  Bool(Truthy(l) \/ Truthy(r)) \in f[<<"or", i, j>>]
  <2>1. p \in Places(ts, i, j, {"OR"})
    BY <1>3, <1>7
  <2> DEFINE F(q) == {Bool(Truthy(a) \/ Truthy(b)) : a \in f[<<"or", i, q - 1>>], b \in f[<<"and", q + 1, j>>]}
  <2>2. Bool(Truthy(l) \/ Truthy(r)) \in F(p)
    BY <1>7
  <2>3. Disjunction(ts, i, j, f) = f[<<"and", i, j>>] \cup UNION {F(q) : q \in Places(ts, i, j, {"OR"})}
    BY DEF Disjunction
  <2> HIDE DEF F
  <2> QED
    BY <1>1, <2>1, <2>2, <2>3
<1>8. ASSUME NEW p \in i..j, ts[p].k = "AND", NEW l \in f[<<"and", i, p - 1>>], NEW r \in f[<<"not", p + 1, j>>]
      PROVE  Bool(Truthy(l) /\ Truthy(r)) \in f[<<"and", i, j>>]
  <2>1. p \in Places(ts, i, j, {"AND"})
    BY <1>3, <1>8
  <2> DEFINE F(q) == {Bool(Truthy(a) /\ Truthy(b)) : a \in f[<<"and", i, q - 1>>], b \in f[<<"not", q + 1, j>>]}
  <2>2. Bool(Truthy(l) /\ Truthy(r)) \in F(p)
    BY <1>8
  <2>3. Conjunction(ts, i, j, f) = f[<<"not", i, j>>] \cup UNION {F(q) : q \in Places(ts, i, j, {"AND"})}
    BY DEF Conjunction
  <2> HIDE DEF F
  <2> QED
    BY <1>1, <2>1, <2>2, <2>3
<1>9. ASSUME NEW p \in i..j, ts[p].k \in Comparators, ts[i].k # "NOT",
             NEW l \in f[<<"primary", i, p - 1>>], NEW r \in f[<<"primary", p + 1, j>>]
      PROVE  Bool(Compare(ts[p].k, l, r)) \in f[<<"not", i, j>>]
  <2>1. p \in Places(ts, i, j, Comparators)
    BY <1>3, <1>9
  <2> DEFINE F(q) == {Bool(Compare(ts[q].k, a, b)) : a \in f[<<"primary", i, q - 1>>], b \in f[<<"primary", q + 1, j>>]}
  <2>2. Bool(Compare(ts[p].k, l, r)) \in F(p)
    BY <1>9
  <2>3. Relation(ts, i, j, f) = f[<<"primary", i, j>>] \cup UNION {F(q) : q \in Places(ts, i, j, Comparators)}
    BY DEF Relation
  <2> HIDE DEF F
  <2>4. Bool(Compare(ts[p].k, l, r)) \in Relation(ts, i, j, f)
    BY <2>1, <2>2, <2>3
  <2> QED
    BY <1>1, <1>2, <1>9, <2>4
<1>10. ASSUME i <= j, ts[i].k = "NOT", NEW v \in f[<<"not", i + 1, j>>]
       PROVE  Bool(~Truthy(v)) \in f[<<"not", i, j>>]
  BY <1>1, <1>2, <1>10
<1> QED
  BY <1>4, <1>5, <1>6, <1>7, <1>8, <1>9, <1>10

LEMMA SoundLoop ==
    ASSUME NEW ts, Len(ts) \in Nat, NEW f, NEW read, NEW p \in 1..(Len(ts) + 1),
           NEW first, NEW rest, NEW part, NEW kind,
           first.err = "none" => first.val \in Value /\ first.pos \in 1..(Len(ts) + 1) /\ first.pos > p,
           Phrase(f, part, p, first),
           \A j \in 0..Len(ts) : f[<<part, p, j>>] \subseteq f[<<kind, p, j>>],
           \A q \in 1..(Len(ts) + 1), w \in Value : q > p => Continues(f, kind, q, w, read[<<rest, q, w>>])
    PROVE  Phrase(f, kind, p, Loop(rest, first, read))
<1>1. CASE first.err # "none"
  BY <1>1 DEF Loop, Phrase
<1>2. CASE first.err = "none"
  <2>1. PICK w \in Value, q \in 1..(Len(ts) + 1) : w = first.val /\ q = first.pos /\ q > p
    BY <1>2
  <2>2. Loop(rest, first, read) = read[<<rest, q, w>>]
    BY <1>2, <2>1 DEF Loop
  <2>3. q - 1 \in 0..Len(ts) /\ p \in 1..(q - 1)
    BY <2>1
  <2>4. w \in f[<<kind, p, q - 1>>]
    BY <1>2, <2>1, <2>3 DEF Phrase
  <2> QED
    BY <2>1, <2>2, <2>3, <2>4 DEF Continues, Phrase
<1> QED
  BY <1>1, <1>2

SoundLater(ts, f, read, p) ==
    \A rule \in Rules, q \in 1..(Len(ts) + 1), w \in Value : q > p => Sound(f, read, <<rule, q, w>>)

LEMMA SoundOrRest ==
    ASSUME NEW refs, NEW ts, Condition(ts, refs), NEW env, NEW f, Grammar(ts, env, f),
           NEW read, Reader(ts, env, read), NEW p \in 1..(Len(ts) + 1), NEW v \in Value,
           SoundLater(ts, f, read, p)
    PROVE  Continues(f, "or", p, v, read[<<"orRest", p, v>>])
<1>1. Len(ts) \in Nat /\ p \in Nat /\ "and" \in Rules /\ "orRest" \in Rules
  BY ConditionShape DEF Rules
<1>2. read[<<"orRest", p, v>>] = OrRest(ts, p, v, read)
  BY ReaderAt
<1>3. CASE Peek(ts, p) # "OR"
  <2>1. read[<<"orRest", p, v>>] = Got(v, p)
    BY <1>2, <1>3 DEF OrRest
  <2> QED
    BY <2>1, GotShape DEF Continues
<1>4. CASE Peek(ts, p) = "OR"
  <2> DEFINE r == read[<<"and", p + 1, Null>>]
  <2>1. p \in 1..Len(ts) /\ ts[p].k = "OR"
    BY <1>4, PeekShape
  <2>2. p + 1 \in 1..(Len(ts) + 1) /\ p + 1 > p
    BY <1>1, <2>1
  <2>3. CASE r.err # "none"
    BY <1>2, <1>4, <2>3 DEF OrRest, Continues
  <2>4. CASE r.err = "none"
    <3>1. Returned(ts, "and", p + 1, r)
      BY <1>1, <2>2, BoolShape, ReaderAt
    <3>2. PICK w \in Value, q \in Nat : w = r.val /\ q = r.pos /\ q > p + 1 /\ q <= Len(ts) + 1
      BY <1>1, <2>2, <2>4, <3>1, ReturnedPlace
    <3>3. q \in 1..(Len(ts) + 1) /\ q > p /\ q - 1 \in 0..Len(ts) /\ p \in 1..(q - 1)
      BY <1>1, <3>2
    <3>4. PICK u \in Value : u = Bool(Truthy(v) \/ Truthy(w))
      BY BoolShape
    <3>5. read[<<"orRest", p, v>>] = read[<<"orRest", q, u>>]
      BY <1>2, <1>4, <2>4, <3>2, <3>4 DEF OrRest
    <3>6. Continues(f, "or", q, u, read[<<"orRest", q, u>>])
      BY <1>1, <3>3, SoundAt DEF SoundLater
    <3>7. w \in f[<<"and", p + 1, q - 1>>]
      <4>1. Phrase(f, "and", p + 1, r)
        BY <1>1, <2>2, BoolShape, SoundAt DEF SoundLater
      <4> QED
        BY <2>4, <3>2, <4>1 DEF Phrase
    <3>8. ASSUME NEW i \in 1..(p - 1), v \in f[<<"or", i, p - 1>>]
          PROVE  u \in f[<<"or", i, q - 1>>]
      <4>1. i \in 1..(Len(ts) + 1) /\ p \in i..(q - 1)
        BY <1>1, <3>3
      <4>2. \A l \in f[<<"or", i, p - 1>>], b \in f[<<"and", p + 1, q - 1>>] :
                Bool(Truthy(l) \/ Truthy(b)) \in f[<<"or", i, q - 1>>]
        <5>1. PICK j \in 0..Len(ts) : j = q - 1
          BY <3>3
        <5>2. \A m \in i..j : ts[m].k = "OR" =>
                 \A l \in f[<<"or", i, m - 1>>], b \in f[<<"and", m + 1, j>>] :
                    Bool(Truthy(l) \/ Truthy(b)) \in f[<<"or", i, j>>]
          BY <1>1, <4>1, JoinPhrases
        <5> QED
          BY <2>1, <4>1, <5>1, <5>2
      <4> QED
        BY <3>4, <3>7, <3>8, <4>2
    <3>9. ASSUME NEW i \in 1..(p - 1) PROVE i \in 1..(q - 1)
      BY <1>1, <3>3
    <3> QED
      BY <3>5, <3>6, <3>8, <3>9 DEF Continues
  <2> QED
    BY <2>3, <2>4
<1> QED
  BY <1>3, <1>4

LEMMA SoundAndRest ==
    ASSUME NEW refs, NEW ts, Condition(ts, refs), NEW env, NEW f, Grammar(ts, env, f),
           NEW read, Reader(ts, env, read), NEW p \in 1..(Len(ts) + 1), NEW v \in Value,
           SoundLater(ts, f, read, p)
    PROVE  Continues(f, "and", p, v, read[<<"andRest", p, v>>])
<1>1. Len(ts) \in Nat /\ p \in Nat /\ "not" \in Rules /\ "andRest" \in Rules
  BY ConditionShape DEF Rules
<1>2. read[<<"andRest", p, v>>] = AndRest(ts, p, v, read)
  BY ReaderAt
<1>3. CASE Peek(ts, p) # "AND"
  <2>1. read[<<"andRest", p, v>>] = Got(v, p)
    BY <1>2, <1>3 DEF AndRest
  <2> QED
    BY <2>1, GotShape DEF Continues
<1>4. CASE Peek(ts, p) = "AND"
  <2> DEFINE r == read[<<"not", p + 1, Null>>]
  <2>1. p \in 1..Len(ts) /\ ts[p].k = "AND"
    BY <1>4, PeekShape
  <2>2. p + 1 \in 1..(Len(ts) + 1) /\ p + 1 > p
    BY <1>1, <2>1
  <2>3. CASE r.err # "none"
    BY <1>2, <1>4, <2>3 DEF AndRest, Continues
  <2>4. CASE r.err = "none"
    <3>1. Returned(ts, "not", p + 1, r)
      BY <1>1, <2>2, BoolShape, ReaderAt
    <3>2. PICK w \in Value, q \in Nat : w = r.val /\ q = r.pos /\ q > p + 1 /\ q <= Len(ts) + 1
      BY <1>1, <2>2, <2>4, <3>1, ReturnedPlace
    <3>3. q \in 1..(Len(ts) + 1) /\ q > p /\ q - 1 \in 0..Len(ts) /\ p \in 1..(q - 1)
      BY <1>1, <3>2
    <3>4. PICK u \in Value : u = Bool(Truthy(v) /\ Truthy(w))
      BY BoolShape
    <3>5. read[<<"andRest", p, v>>] = read[<<"andRest", q, u>>]
      BY <1>2, <1>4, <2>4, <3>2, <3>4 DEF AndRest
    <3>6. Continues(f, "and", q, u, read[<<"andRest", q, u>>])
      BY <1>1, <3>3, SoundAt DEF SoundLater
    <3>7. w \in f[<<"not", p + 1, q - 1>>]
      <4>1. Phrase(f, "not", p + 1, r)
        BY <1>1, <2>2, BoolShape, SoundAt DEF SoundLater
      <4> QED
        BY <2>4, <3>2, <4>1 DEF Phrase
    <3>8. ASSUME NEW i \in 1..(p - 1), v \in f[<<"and", i, p - 1>>]
          PROVE  u \in f[<<"and", i, q - 1>>]
      <4>1. i \in 1..(Len(ts) + 1) /\ p \in i..(q - 1)
        BY <1>1, <3>3
      <4>2. \A l \in f[<<"and", i, p - 1>>], b \in f[<<"not", p + 1, q - 1>>] :
                Bool(Truthy(l) /\ Truthy(b)) \in f[<<"and", i, q - 1>>]
        <5>1. PICK j \in 0..Len(ts) : j = q - 1
          BY <3>3
        <5>2. \A m \in i..j : ts[m].k = "AND" =>
                 \A l \in f[<<"and", i, m - 1>>], b \in f[<<"not", m + 1, j>>] :
                    Bool(Truthy(l) /\ Truthy(b)) \in f[<<"and", i, j>>]
          BY <1>1, <4>1, JoinPhrases
        <5> QED
          BY <2>1, <4>1, <5>1, <5>2
      <4> QED
        BY <3>4, <3>7, <3>8, <4>2
    <3>9. ASSUME NEW i \in 1..(p - 1) PROVE i \in 1..(q - 1)
      BY <1>1, <3>3
    <3> QED
      BY <3>5, <3>6, <3>8, <3>9 DEF Continues
  <2> QED
    BY <2>3, <2>4
<1> QED
  BY <1>3, <1>4

LEMMA SoundNegation ==
    ASSUME NEW refs, NEW ts, Condition(ts, refs), NEW env, NEW f, Grammar(ts, env, f),
           NEW read, Reader(ts, env, read), NEW p \in 1..(Len(ts) + 1), NEW v \in Value,
           SoundLater(ts, f, read, p), Phrase(f, "not", p, read[<<"comparison", p, Null>>])
    PROVE  Phrase(f, "not", p, read[<<"not", p, v>>])
<1>1. Len(ts) \in Nat /\ p \in Nat /\ "not" \in Rules
  BY ConditionShape DEF Rules
<1>2. read[<<"not", p, v>>] = Negation(ts, p, read)
  BY ReaderAt
<1>3. CASE Peek(ts, p) # "NOT"
  BY <1>2, <1>3 DEF Negation
<1>4. CASE Peek(ts, p) = "NOT"
  <2> DEFINE r == read[<<"not", p + 1, Null>>]
  <2>1. p \in 1..Len(ts) /\ ts[p].k = "NOT"
    BY <1>4, PeekShape
  <2>2. p + 1 \in 1..(Len(ts) + 1) /\ p + 1 > p
    BY <1>1, <2>1
  <2>3. CASE r.err # "none"
    BY <1>2, <1>4, <2>3 DEF Negation, Phrase
  <2>4. CASE r.err = "none"
    <3>1. Returned(ts, "not", p + 1, r)
      BY <1>1, <2>2, BoolShape, ReaderAt
    <3>2. PICK w \in Value, q \in Nat : w = r.val /\ q = r.pos /\ q > p + 1 /\ q <= Len(ts) + 1
      BY <1>1, <2>2, <2>4, <3>1, ReturnedPlace
    <3>3. q - 1 \in 0..Len(ts) /\ p <= q - 1
      BY <1>1, <3>2
    <3>4. w \in f[<<"not", p + 1, q - 1>>]
      <4>1. Phrase(f, "not", p + 1, r)
        BY <1>1, <2>2, BoolShape, SoundAt DEF SoundLater
      <4> QED
        BY <2>4, <3>2, <4>1 DEF Phrase
    <3>5. Bool(~Truthy(w)) \in f[<<"not", p, q - 1>>]
      BY <1>1, <2>1, <3>3, <3>4, JoinPhrases
    <3>6. read[<<"not", p, v>>] = Got(Bool(~Truthy(w)), q)
      BY <1>2, <1>4, <2>4, <3>2 DEF Negation
    <3> QED
      BY <3>5, <3>6, GotShape DEF Phrase
  <2> QED
    BY <2>3, <2>4
<1> QED
  BY <1>3, <1>4

LEMMA SoundComparison ==
    ASSUME NEW refs, NEW ts, Condition(ts, refs), NEW env, NEW f, Grammar(ts, env, f),
           NEW read, Reader(ts, env, read), NEW p \in 1..(Len(ts) + 1), NEW v \in Value,
           SoundLater(ts, f, read, p), Phrase(f, "primary", p, read[<<"primary", p, Null>>])
    PROVE  Phrase(f, "not", p, read[<<"comparison", p, v>>])
<1>1. Len(ts) \in Nat /\ p \in Nat /\ "primary" \in Rules
  BY ConditionShape DEF Rules
<1>2. read[<<"comparison", p, v>>] = Comparison(ts, p, read)
  BY ReaderAt
<1> DEFINE l == read[<<"primary", p, Null>>]
<1>3. CASE l.err # "none"
  BY <1>2, <1>3 DEF Comparison, Phrase
<1>4. CASE l.err = "none"
  <2>0. Null \in Value
    BY BoolShape
  <2>1. Returned(ts, "primary", p, l) /\ l = Primary(ts, env, p, read)
    BY <1>1, <2>0, ReaderReturns, ReaderPrimary
  <2>2. PICK a \in Value, m \in Nat : a = l.val /\ m = l.pos /\ m > p /\ m <= Len(ts) + 1
    BY <1>1, <1>4, <2>1, ReturnedPlace
  <2>3. m \in 1..(Len(ts) + 1) /\ m - 1 \in 0..Len(ts) /\ p <= m - 1 /\ p <= Len(ts)
    BY <1>1, <2>2
  <2>4. a \in f[<<"primary", p, m - 1>>]
    BY <1>4, <2>2 DEF Phrase
  <2>5. ts[p].k # "NOT"
    <3>1. Peek(ts, p) # "NOT"
      BY <1>4, <2>1, GotShape DEF Primary
    <3> QED
      BY <2>3, <3>1, PeekShape
  <2>6. CASE Peek(ts, m) \notin Comparators
    <3>1. read[<<"comparison", p, v>>] = l
      BY <1>2, <2>2, <2>6 DEF Comparison
    <3>2. a \in f[<<"not", p, m - 1>>]
      BY <1>1, <2>3, <2>4, <2>5, JoinPhrases
    <3> QED
      BY <2>2, <3>1, <3>2 DEF Phrase
  <2>7. CASE Peek(ts, m) \in Comparators
    <3>1. Peek(ts, m) # "END"
      BY <2>7 DEF Comparators
    <3>2. m \in 1..Len(ts) /\ ts[m].k \in Comparators
      BY <2>3, <2>7, <3>1, PeekShape
    <3>3. m + 1 \in 1..(Len(ts) + 1) /\ m + 1 > p
      BY <1>1, <2>2, <3>2
    <3> DEFINE r == read[<<"primary", m + 1, Null>>]
    <3>4. CASE r.err # "none"
      BY <1>2, <1>4, <2>2, <2>7, <3>4 DEF Comparison, Phrase
    <3>5. CASE r.err = "none"
      <4>1. Returned(ts, "primary", m + 1, r)
        BY <1>1, <3>3, BoolShape, ReaderAt
      <4>2. PICK b \in Value, q \in Nat : b = r.val /\ q = r.pos /\ q > m + 1 /\ q <= Len(ts) + 1
        BY <1>1, <3>3, <3>5, <4>1, ReturnedPlace
      <4>3. b \in f[<<"primary", m + 1, q - 1>>]
        <5>1. Phrase(f, "primary", m + 1, r)
          BY <1>1, <3>3, BoolShape, SoundAt DEF SoundLater
        <5> QED
          BY <3>5, <4>2, <5>1 DEF Phrase
      <4>4. q - 1 \in 0..Len(ts) /\ m \in p..(q - 1)
        <5>1. q \in Nat /\ m \in Nat /\ p \in Nat /\ q > m + 1 /\ m > p /\ q <= Len(ts) + 1
          BY <1>1, <2>2, <4>2
        <5> HIDE DEF r, l
        <5> QED
          BY <1>1, <5>1
      <4>5. Bool(Compare(ts[m].k, a, b)) \in f[<<"not", p, q - 1>>]
        BY <1>1, <2>4, <2>5, <3>2, <4>3, <4>4, JoinPhrases
      <4>6. read[<<"comparison", p, v>>] = Got(Bool(Compare(ts[m].k, a, b)), q)
        BY <1>2, <1>4, <2>2, <2>7, <3>5, <4>2 DEF Comparison
      <4> QED
        BY <4>5, <4>6, GotShape DEF Phrase
    <3> QED
      BY <3>4, <3>5
  <2> QED
    BY <2>6, <2>7
<1> QED
  BY <1>3, <1>4

OperandAt(ts, env, f, i, j) ==
    /\ i = j => f[<<"primary", i, j>>] =
          IF ts[i].k = "LIT" THEN {ts[i].v}
          ELSE IF ts[i].k = "REF" THEN {env[ts[i].ref]} ELSE {}
    /\ i # j => f[<<"primary", i, j>>] =
          IF ts[i].k = "LP" /\ ts[j].k = "RP" THEN f[<<"or", i + 1, j - 1>>] ELSE {}

LEMMA OperandOf ==
    ASSUME NEW ts, Len(ts) \in Nat, NEW env, NEW f, Grammar(ts, env, f),
           NEW i \in 1..Len(ts), NEW j \in 1..Len(ts), i <= j
    PROVE  OperandAt(ts, env, f, i, j)
<1> SUFFICES
           /\ i = j => f[<<"primary", i, j>>] =
                 IF ts[i].k = "LIT" THEN {ts[i].v}
                 ELSE IF ts[i].k = "REF" THEN {env[ts[i].ref]} ELSE {}
           /\ i # j => f[<<"primary", i, j>>] =
                 IF ts[i].k = "LP" /\ ts[j].k = "RP" THEN f[<<"or", i + 1, j - 1>>] ELSE {}
  BY DEF OperandAt
<1>1. f[<<"primary", i, j>>] = Operand(ts, env, i, j, f)
  <2>1. i \in 1..(Len(ts) + 1) /\ j \in 0..Len(ts)
    OBVIOUS
  <2> QED
    BY <2>1, GrammarAt
<1>2. \A p, ops : p \in Places(ts, i, j, ops) <=> p \in i..j /\ ts[p].k \in ops
  BY DEF Places
<1>3. CASE i # j
  <2>1. Operand(ts, env, i, j, f) =
          IF ts[i].k = "LP" /\ ts[j].k = "RP" THEN f[<<"or", i + 1, j - 1>>] ELSE {}
    BY <1>2, <1>3 DEF Operand
  <2> QED
    BY <1>1, <1>3, <2>1
<1>4. CASE i = j
  <2>1. \A op : Places(ts, i, j, {op}) = IF ts[i].k = op THEN {i} ELSE {}
    BY <1>4 DEF Places
  <2>2. Operand(ts, env, i, j, f) =
          {ts[p].v : p \in Places(ts, i, j, {"LIT"})} \cup {env[ts[p].ref] : p \in Places(ts, i, j, {"REF"})}
    BY <1>4 DEF Operand
  <2>3. CASE ts[i].k = "LIT"
    <3>1. Places(ts, i, j, {"LIT"}) = {i} /\ Places(ts, i, j, {"REF"}) = {}
      BY <2>1, <2>3
    <3> QED
      BY <1>1, <1>4, <2>2, <2>3, <3>1
  <2>4. CASE ts[i].k = "REF"
    <3>1. Places(ts, i, j, {"LIT"}) = {} /\ Places(ts, i, j, {"REF"}) = {i}
      BY <2>1, <2>4
    <3> QED
      BY <1>1, <1>4, <2>2, <2>4, <3>1
  <2>5. CASE ts[i].k \notin {"LIT", "REF"}
    <3>1. Places(ts, i, j, {"LIT"}) = {} /\ Places(ts, i, j, {"REF"}) = {}
      BY <2>1, <2>5
    <3> QED
      BY <1>1, <1>4, <2>2, <2>5, <3>1
  <2> QED
    BY <2>3, <2>4, <2>5
<1> QED
  BY <1>3, <1>4

LEMMA SoundPrimary ==
    ASSUME NEW refs, NEW ts, Condition(ts, refs), NEW env, NEW f, Grammar(ts, env, f),
           NEW read, Reader(ts, env, read), NEW p \in 1..(Len(ts) + 1), NEW v \in Value,
           SoundLater(ts, f, read, p)
    PROVE  Phrase(f, "primary", p, read[<<"primary", p, v>>])
<1>1. Len(ts) \in Nat /\ p \in Nat /\ "or" \in Rules
  BY ConditionShape DEF Rules
<1>2. read[<<"primary", p, v>>] = Primary(ts, env, p, read)
  BY ReaderAt
<1>3. CASE Peek(ts, p) = "LP"
  <2> DEFINE r == read[<<"or", p + 1, Null>>]
  <2>1. p \in 1..Len(ts) /\ ts[p].k = "LP"
    BY <1>3, PeekShape
  <2>2. p + 1 \in 1..(Len(ts) + 1) /\ p + 1 > p
    BY <1>1, <2>1
  <2>3. CASE r.err # "none"
    BY <1>2, <1>3, <2>3 DEF Primary, Phrase
  <2>4. CASE r.err = "none"
    <3>1. Returned(ts, "or", p + 1, r)
      BY <1>1, <2>2, BoolShape, ReaderAt
    <3>2. PICK w \in Value, q \in Nat : w = r.val /\ q = r.pos /\ q > p + 1 /\ q <= Len(ts) + 1
      BY <1>1, <2>2, <2>4, <3>1, ReturnedPlace
    <3>3. q \in 1..(Len(ts) + 1) /\ p < q /\ p # q
      BY <1>1, <3>2
    <3>4. w \in f[<<"or", p + 1, q - 1>>]
      <4>1. Phrase(f, "or", p + 1, r)
        BY <1>1, <2>2, BoolShape, SoundAt DEF SoundLater
      <4> QED
        BY <2>4, <3>2, <4>1 DEF Phrase
    <3>5. CASE Peek(ts, q) = "RP"
      <4>1. q \in 1..Len(ts) /\ ts[q].k = "RP"
        BY <3>3, <3>5, PeekShape
      <4>2. w \in f[<<"primary", p, q>>]
        <5>1. OperandAt(ts, env, f, p, q)
          BY <1>1, <2>1, <3>3, <4>1, OperandOf
        <5> QED
          BY <2>1, <3>3, <3>4, <4>1, <5>1 DEF OperandAt
      <4>3. read[<<"primary", p, v>>] = Got(w, q + 1) /\ (q + 1) - 1 = q
        BY <1>2, <1>3, <2>4, <3>2, <3>5 DEF Primary
      <4> QED
        BY <4>2, <4>3, GotShape DEF Phrase
    <3>6. CASE Peek(ts, q) # "RP"
      BY <1>2, <1>3, <2>4, <3>2, <3>6, GotShape DEF Primary, Phrase
    <3> QED
      BY <3>5, <3>6
  <2> QED
    BY <2>3, <2>4
<1>4. CASE Peek(ts, p) = "LIT"
  <2>1. p \in 1..Len(ts) /\ ts[p].k = "LIT" /\ p <= p
    BY <1>1, <1>4, PeekShape
  <2>2. ts[p].v \in f[<<"primary", p, p>>]
    <3>1. OperandAt(ts, env, f, p, p)
      BY <1>1, <2>1, OperandOf
    <3> QED
      BY <2>1, <3>1 DEF OperandAt
  <2>3. read[<<"primary", p, v>>] = Got(ts[p].v, p + 1) /\ (p + 1) - 1 = p
    BY <1>1, <1>2, <1>4 DEF Primary
  <2> QED
    BY <2>2, <2>3, GotShape DEF Phrase
<1>5. CASE Peek(ts, p) = "REF"
  <2>1. p \in 1..Len(ts) /\ ts[p].k = "REF" /\ p <= p
    BY <1>1, <1>5, PeekShape
  <2>2. env[ts[p].ref] \in f[<<"primary", p, p>>]
    <3>1. OperandAt(ts, env, f, p, p)
      BY <1>1, <2>1, OperandOf
    <3> QED
      BY <2>1, <3>1 DEF OperandAt
  <2>3. CASE env[ts[p].ref] = Raises
    BY <1>2, <1>5, <2>3, GotShape DEF Primary, Phrase
  <2>4. CASE env[ts[p].ref] # Raises
    <3>1. read[<<"primary", p, v>>] = Got(env[ts[p].ref], p + 1) /\ (p + 1) - 1 = p
      BY <1>1, <1>2, <1>5, <2>4 DEF Primary
    <3> QED
      BY <2>2, <3>1, GotShape DEF Phrase
  <2> QED
    BY <2>3, <2>4
<1>6. CASE Peek(ts, p) \notin {"LP", "LIT", "REF"}
  BY <1>2, <1>6, GotShape DEF Primary, Phrase
<1> QED
  BY <1>3, <1>4, <1>5, <1>6

LEMMA ReaderIsSound ==
    ASSUME NEW refs, NEW ts, Condition(ts, refs), NEW env, NEW f, Grammar(ts, env, f),
           NEW read, Reader(ts, env, read)
    PROVE  \A c \in Calls(ts) : Sound(f, read, c)
<1> DEFINE P == {c \in Calls(ts) : Sound(f, read, c)}
<1>1. Len(ts) \in Nat
  BY ConditionShape
<1>2. ASSUME NEW rule \in Rules, NEW p \in 1..(Len(ts) + 1), NEW v \in Value,
             LaterIn(ts, P, p), HereIn(P, p, Level[rule])
      PROVE  Sound(f, read, <<rule, p, v>>)
  <2>1. SoundLater(ts, f, read, p)
    BY <1>2 DEF LaterIn, SoundLater
  <2>2. \A r2 \in Rules : Level[r2] < Level[rule] => Sound(f, read, <<r2, p, Null>>)
    BY <1>2 DEF HereIn
  <2> HIDE DEF P
  <2>3. /\ {"and", "not", "comparison", "primary", "andRest", "orRest"} \subseteq Rules
        /\ Level["primary"] < Level["comparison"] /\ Level["comparison"] < Level["not"]
        /\ Level["not"] < Level["and"] /\ Level["and"] < Level["or"]
    BY DEF Rules, Level
  <2>4. CASE rule = "or"
    <3> DEFINE first == read[<<"and", p, Null>>]
    <3>1. read[<<"or", p, v>>] = Loop("orRest", first, read) /\ Returned(ts, "and", p, first)
      BY <2>3, BoolShape, ReaderAt
    <3>2. Phrase(f, "and", p, first)
      BY <2>2, <2>3, <2>4, SoundAt
    <3>3. first.err = "none" => first.val \in Value /\ first.pos \in 1..(Len(ts) + 1) /\ first.pos > p
      BY <1>1, <3>1 DEF Returned
    <3>4. \A j \in 0..Len(ts) : f[<<"and", p, j>>] \subseteq f[<<"or", p, j>>]
      BY <1>1, JoinPhrases
    <3>5. \A q \in 1..(Len(ts) + 1), w \in Value :
            q > p => Continues(f, "or", q, w, read[<<"orRest", q, w>>])
      BY <2>1, <2>3, SoundAt DEF SoundLater
    <3> HIDE DEF first
    <3>6. Phrase(f, "or", p, Loop("orRest", first, read))
      BY <1>1, <3>2, <3>3, <3>4, <3>5, SoundLoop
    <3> QED
      BY <2>4, <3>1, <3>6, SoundAt
  <2>5. CASE rule = "and"
    <3> DEFINE first == read[<<"not", p, Null>>]
    <3>1. read[<<"and", p, v>>] = Loop("andRest", first, read) /\ Returned(ts, "not", p, first)
      BY <2>3, BoolShape, ReaderAt
    <3>2. Phrase(f, "not", p, first)
      BY <2>2, <2>3, <2>5, SoundAt
    <3>3. first.err = "none" => first.val \in Value /\ first.pos \in 1..(Len(ts) + 1) /\ first.pos > p
      BY <1>1, <3>1 DEF Returned
    <3>4. \A j \in 0..Len(ts) : f[<<"not", p, j>>] \subseteq f[<<"and", p, j>>]
      BY <1>1, JoinPhrases
    <3>5. \A q \in 1..(Len(ts) + 1), w \in Value :
            q > p => Continues(f, "and", q, w, read[<<"andRest", q, w>>])
      BY <2>1, <2>3, SoundAt DEF SoundLater
    <3> HIDE DEF first
    <3>6. Phrase(f, "and", p, Loop("andRest", first, read))
      BY <1>1, <3>2, <3>3, <3>4, <3>5, SoundLoop
    <3> QED
      BY <2>5, <3>1, <3>6, SoundAt
  <2>6. CASE rule = "not"
    <3>1. Phrase(f, "not", p, read[<<"comparison", p, Null>>])
      BY <2>2, <2>3, <2>6, SoundAt
    <3> QED
      BY <2>1, <2>6, <3>1, SoundAt, SoundNegation
  <2>7. CASE rule = "comparison"
    <3>1. Phrase(f, "primary", p, read[<<"primary", p, Null>>])
      BY <2>2, <2>3, <2>7, SoundAt
    <3> QED
      BY <2>1, <2>7, <3>1, SoundAt, SoundComparison
  <2>8. CASE rule = "primary"
    BY <2>1, <2>8, SoundAt, SoundPrimary
  <2>9. CASE rule = "orRest"
    BY <2>1, <2>9, SoundAt, SoundOrRest
  <2>10. CASE rule = "andRest"
    BY <2>1, <2>10, SoundAt, SoundAndRest
  <2> QED
    BY <2>4, <2>5, <2>6, <2>7, <2>8, <2>9, <2>10 DEF Rules
<1>3. \A rule \in Rules, p \in 1..(Len(ts) + 1), v \in Value : <<rule, p, v>> \in Calls(ts)
  BY DEF Calls
<1>4. \A rule \in Rules, p \in 1..(Len(ts) + 1), v \in Value :
        LaterIn(ts, P, p) /\ HereIn(P, p, Level[rule]) => <<rule, p, v>> \in P
  BY <1>2, <1>3
<1> HIDE DEF P
<1>5. Calls(ts) \subseteq P
  BY <1>1, <1>4, CallInduction
<1> QED
  BY <1>5 DEF P

----------------------------------------------------------------------------
(* What is a phrase of the grammar, the parser reads. *)

Clean(ts, i, j) == i <= j /\ \A p \in i..j : ts[p].k \notin {"BAD", "ARITH"}

\* The method of a kind that is called at i reads the phrase up to j, the loops
\* included, if what follows does not go on.
Reads(ts, read, kind, i, j, w) ==
    /\ w \in Value /\ Clean(ts, i, j)
    /\ kind = "primary" => read[<<"primary", i, Null>>] = Got(w, j + 1)
    /\ kind = "not" /\ Peek(ts, j + 1) \notin Comparators => read[<<"not", i, Null>>] = Got(w, j + 1)
    /\ kind = "and" /\ Peek(ts, j + 1) \notin Comparators =>
          read[<<"and", i, Null>>] = read[<<"andRest", j + 1, w>>]
    /\ kind = "or" /\ Peek(ts, j + 1) \notin Comparators \cup {"AND"} =>
          read[<<"or", i, Null>>] = read[<<"orRest", j + 1, w>>]

AllRead(ts, f, read, kind, i, j) == \A w \in f[<<kind, i, j>>] : Reads(ts, read, kind, i, j, w)

ReadInside(ts, f, read, i, j) ==
    \A kind \in Kinds, a \in 1..(Len(ts) + 1), b \in 0..Len(ts) :
        b - a < j - i => AllRead(ts, f, read, kind, a, b)

LEMMA CleanJoin ==
    ASSUME NEW refs, NEW ts, Condition(ts, refs), NEW i \in 1..(Len(ts) + 1), NEW j \in 0..Len(ts),
           NEW p \in i..j, ts[p].k \notin {"BAD", "ARITH"}, Clean(ts, i, p - 1), Clean(ts, p + 1, j)
    PROVE  Clean(ts, i, j)
<1>1. Len(ts) \in Nat
  BY ConditionShape
<1>2. \A m \in i..j : m = p \/ m \in i..(p - 1) \/ m \in (p + 1)..j
  BY <1>1
<1>3. i <= j
  BY <1>1
<1> QED
  BY <1>2, <1>3 DEF Clean

\* A place inside a range, and what completeness of the narrower ranges says of
\* the phrases on its both sides.
LEMMA SidesRead ==
    ASSUME NEW refs, NEW ts, Condition(ts, refs), NEW f, NEW read,
           NEW i \in 1..(Len(ts) + 1), NEW j \in 0..Len(ts), ReadInside(ts, f, read, i, j),
           NEW p \in i..j, ts[p].k \notin {"BAD", "ARITH"}, NEW left \in Kinds, NEW right \in Kinds,
           NEW l \in f[<<left, i, p - 1>>], NEW r \in f[<<right, p + 1, j>>]
    PROVE  /\ p \in 1..Len(ts) /\ p + 1 \in 1..(Len(ts) + 1) /\ p + 1 <= j /\ (p - 1) + 1 = p
           /\ j + 1 \in 1..(Len(ts) + 1) /\ Peek(ts, p) = ts[p].k
           /\ l \in Value /\ r \in Value /\ Clean(ts, i, j)
           /\ Reads(ts, read, left, i, p - 1, l) /\ Reads(ts, read, right, p + 1, j, r)
<1>1. Len(ts) \in Nat
  BY ConditionShape
<1>2. /\ p - 1 \in 0..Len(ts) /\ p + 1 \in 1..(Len(ts) + 1) /\ p \in 1..Len(ts)
      /\ (p - 1) - i < j - i /\ j - (p + 1) < j - i /\ (p - 1) + 1 = p /\ j + 1 \in 1..(Len(ts) + 1)
  BY <1>1
<1>3. AllRead(ts, f, read, left, i, p - 1) /\ AllRead(ts, f, read, right, p + 1, j)
  BY <1>2 DEF ReadInside
<1>4. Reads(ts, read, left, i, p - 1, l) /\ Reads(ts, read, right, p + 1, j, r)
  BY <1>3 DEF AllRead
<1>5. l \in Value /\ r \in Value /\ Clean(ts, i, p - 1) /\ Clean(ts, p + 1, j)
  BY <1>4 DEF Reads
<1>6. Clean(ts, i, j) /\ p + 1 <= j
  BY <1>5, CleanJoin DEF Clean
<1>7. Peek(ts, p) = ts[p].k
  BY <1>1, <1>2, PeekShape
<1> QED
  BY <1>2, <1>4, <1>5, <1>6, <1>7

\* How a phrase is made.
Split(ts, f, i, j) ==
    /\ \A w \in f[<<"or", i, j>>] :
          \/ w \in f[<<"and", i, j>>]
          \/ \E p \in i..j : ts[p].k = "OR" /\
                \E l \in f[<<"or", i, p - 1>>], r \in f[<<"and", p + 1, j>>] :
                   w = Bool(Truthy(l) \/ Truthy(r))
    /\ \A w \in f[<<"and", i, j>>] :
          \/ w \in f[<<"not", i, j>>]
          \/ \E p \in i..j : ts[p].k = "AND" /\
                \E l \in f[<<"and", i, p - 1>>], r \in f[<<"not", p + 1, j>>] :
                   w = Bool(Truthy(l) /\ Truthy(r))
    /\ \A w \in f[<<"not", i, j>>] :
          \/ /\ i \in i..j /\ ts[i].k = "NOT"
             /\ \E u \in f[<<"not", i + 1, j>>] : w = Bool(~Truthy(u))
          \/ /\ ~(i \in i..j /\ ts[i].k = "NOT")
             /\ \/ w \in f[<<"primary", i, j>>]
                \/ \E p \in i..j : ts[p].k \in Comparators /\
                      \E l \in f[<<"primary", i, p - 1>>], r \in f[<<"primary", p + 1, j>>] :
                         w = Bool(Compare(ts[p].k, l, r))

LEMMA SplitPhrases ==
    ASSUME NEW ts, NEW env, NEW f, Grammar(ts, env, f), NEW i \in 1..(Len(ts) + 1), NEW j \in 0..Len(ts)
    PROVE  Split(ts, f, i, j)
<1>1. /\ f[<<"or", i, j>>] = Disjunction(ts, i, j, f)
      /\ f[<<"and", i, j>>] = Conjunction(ts, i, j, f)
      /\ f[<<"not", i, j>>] = IF i \in Places(ts, i, j, {"NOT"})
                             THEN {Bool(~Truthy(v)) : v \in f[<<"not", i + 1, j>>]}
                             ELSE Relation(ts, i, j, f)
  BY GrammarAt
<1>2. \A p, ops : p \in Places(ts, i, j, ops) <=> p \in i..j /\ ts[p].k \in ops
  BY DEF Places
<1>3. ASSUME NEW w \in Disjunction(ts, i, j, f), w \notin f[<<"and", i, j>>]
      PROVE  \E p \in i..j : ts[p].k = "OR" /\
                \E l \in f[<<"or", i, p - 1>>], r \in f[<<"and", p + 1, j>>] :
                   w = Bool(Truthy(l) \/ Truthy(r))
  <2> DEFINE F(q) == {Bool(Truthy(l) \/ Truthy(r)) : l \in f[<<"or", i, q - 1>>], r \in f[<<"and", q + 1, j>>]}
  <2>1. Disjunction(ts, i, j, f) = f[<<"and", i, j>>] \cup UNION {F(q) : q \in Places(ts, i, j, {"OR"})}
    BY DEF Disjunction
  <2> HIDE DEF F
  <2>2. PICK p \in Places(ts, i, j, {"OR"}) : w \in F(p)
    BY <1>3, <2>1
  <2>3. \E l \in f[<<"or", i, p - 1>>], r \in f[<<"and", p + 1, j>>] : w = Bool(Truthy(l) \/ Truthy(r))
    BY <2>2 DEF F
  <2>4. p \in i..j /\ ts[p].k = "OR"
    BY <1>2, <2>2
  <2> QED
    BY <2>3, <2>4
<1>4. ASSUME NEW w \in Conjunction(ts, i, j, f), w \notin f[<<"not", i, j>>]
      PROVE  \E p \in i..j : ts[p].k = "AND" /\
                \E l \in f[<<"and", i, p - 1>>], r \in f[<<"not", p + 1, j>>] :
                   w = Bool(Truthy(l) /\ Truthy(r))
  <2> DEFINE F(q) == {Bool(Truthy(l) /\ Truthy(r)) : l \in f[<<"and", i, q - 1>>], r \in f[<<"not", q + 1, j>>]}
  <2>1. Conjunction(ts, i, j, f) = f[<<"not", i, j>>] \cup UNION {F(q) : q \in Places(ts, i, j, {"AND"})}
    BY DEF Conjunction
  <2> HIDE DEF F
  <2>2. PICK p \in Places(ts, i, j, {"AND"}) : w \in F(p)
    BY <1>4, <2>1
  <2>3. \E l \in f[<<"and", i, p - 1>>], r \in f[<<"not", p + 1, j>>] : w = Bool(Truthy(l) /\ Truthy(r))
    BY <2>2 DEF F
  <2>4. p \in i..j /\ ts[p].k = "AND"
    BY <1>2, <2>2
  <2> QED
    BY <2>3, <2>4
<1>5. ASSUME NEW w \in Relation(ts, i, j, f), w \notin f[<<"primary", i, j>>]
      PROVE  \E p \in i..j : ts[p].k \in Comparators /\
                \E l \in f[<<"primary", i, p - 1>>], r \in f[<<"primary", p + 1, j>>] :
                   w = Bool(Compare(ts[p].k, l, r))
  <2> DEFINE F(q) == {Bool(Compare(ts[q].k, l, r)) : l \in f[<<"primary", i, q - 1>>], r \in f[<<"primary", q + 1, j>>]}
  <2>1. Relation(ts, i, j, f) = f[<<"primary", i, j>>] \cup UNION {F(q) : q \in Places(ts, i, j, Comparators)}
    BY DEF Relation
  <2> HIDE DEF F
  <2>2. PICK p \in Places(ts, i, j, Comparators) : w \in F(p)
    BY <1>5, <2>1
  <2>3. \E l \in f[<<"primary", i, p - 1>>], r \in f[<<"primary", p + 1, j>>] : w = Bool(Compare(ts[p].k, l, r))
    BY <2>2 DEF F
  <2>4. p \in i..j /\ ts[p].k \in Comparators
    BY <1>2, <2>2
  <2> QED
    BY <2>3, <2>4
<1>6. i \in Places(ts, i, j, {"NOT"}) <=> i \in i..j /\ ts[i].k = "NOT"
  BY <1>2
<1>7. \A w \in f[<<"or", i, j>>] :
          \/ w \in f[<<"and", i, j>>]
          \/ \E p \in i..j : ts[p].k = "OR" /\
                \E l \in f[<<"or", i, p - 1>>], r \in f[<<"and", p + 1, j>>] :
                   w = Bool(Truthy(l) \/ Truthy(r))
  BY <1>1, <1>3
<1>8. \A w \in f[<<"and", i, j>>] :
          \/ w \in f[<<"not", i, j>>]
          \/ \E p \in i..j : ts[p].k = "AND" /\
                \E l \in f[<<"and", i, p - 1>>], r \in f[<<"not", p + 1, j>>] :
                   w = Bool(Truthy(l) /\ Truthy(r))
  BY <1>1, <1>4
<1>9. \A w \in f[<<"not", i, j>>] :
          \/ /\ i \in i..j /\ ts[i].k = "NOT"
             /\ \E u \in f[<<"not", i + 1, j>>] : w = Bool(~Truthy(u))
          \/ /\ ~(i \in i..j /\ ts[i].k = "NOT")
             /\ \/ w \in f[<<"primary", i, j>>]
                \/ \E p \in i..j : ts[p].k \in Comparators /\
                      \E l \in f[<<"primary", i, p - 1>>], r \in f[<<"primary", p + 1, j>>] :
                         w = Bool(Compare(ts[p].k, l, r))
  <2>1. CASE i \in i..j /\ ts[i].k = "NOT"
    <3>1. f[<<"not", i, j>>] = {Bool(~Truthy(v)) : v \in f[<<"not", i + 1, j>>]}
      BY <1>1, <1>6, <2>1
    <3> QED
      BY <2>1, <3>1
  <2>2. CASE ~(i \in i..j /\ ts[i].k = "NOT")
    <3>1. f[<<"not", i, j>>] = Relation(ts, i, j, f)
      BY <1>1, <1>6, <2>2
    <3>2. \A w \in f[<<"not", i, j>>] :
            \/ w \in f[<<"primary", i, j>>]
            \/ \E p \in i..j : ts[p].k \in Comparators /\
                  \E l \in f[<<"primary", i, p - 1>>], r \in f[<<"primary", p + 1, j>>] :
                     w = Bool(Compare(ts[p].k, l, r))
      BY <1>5, <3>1
    <3> QED
      BY <2>2, <3>2
  <2> QED
    BY <2>1, <2>2
<1> QED
  BY <1>7, <1>8, <1>9 DEF Split

LEMMA LoopEnds ==
    ASSUME NEW ts, NEW env, NEW read, Reader(ts, env, read),
           NEW p \in 1..(Len(ts) + 1), NEW v \in Value
    PROVE  /\ Peek(ts, p) # "AND" => read[<<"andRest", p, v>>] = Got(v, p)
           /\ Peek(ts, p) # "OR" => read[<<"orRest", p, v>>] = Got(v, p)
<1>1. read[<<"andRest", p, v>>] = AndRest(ts, p, v, read) /\ read[<<"orRest", p, v>>] = OrRest(ts, p, v, read)
  BY ReaderAt
<1> QED
  BY <1>1 DEF AndRest, OrRest

LEMMA CompleteAnd ==
    ASSUME NEW refs, NEW ts, Condition(ts, refs), NEW env, NEW f, Grammar(ts, env, f),
           NEW read, Reader(ts, env, read), NEW i \in 1..(Len(ts) + 1), NEW j \in 0..Len(ts),
           ReadInside(ts, f, read, i, j), AllRead(ts, f, read, "not", i, j)
    PROVE  AllRead(ts, f, read, "and", i, j)
<1> SUFFICES ASSUME NEW w \in f[<<"and", i, j>>] PROVE Reads(ts, read, "and", i, j, w)
  BY DEF AllRead
<1>1. {"and", "not"} \subseteq Kinds /\ Len(ts) \in Nat
  BY ConditionShape DEF Kinds
<1>2. CASE w \in f[<<"not", i, j>>]
  <2>1. Reads(ts, read, "not", i, j, w)
    BY <1>2 DEF AllRead
  <2>2. w \in Value /\ Clean(ts, i, j)
    BY <2>1 DEF Reads
  <2>3. j + 1 \in 1..(Len(ts) + 1)
    BY <1>1
  <2>4. ASSUME Peek(ts, j + 1) \notin Comparators
        PROVE  read[<<"and", i, Null>>] = read[<<"andRest", j + 1, w>>]
    <3>1. read[<<"and", i, Null>>] = Loop("andRest", read[<<"not", i, Null>>], read)
      BY BoolShape, ReaderAt
    <3>2. read[<<"not", i, Null>>] = Got(w, j + 1)
      BY <2>1, <2>4 DEF Reads
    <3> QED
      BY <3>1, <3>2, GotShape DEF Loop
  <2> QED
    BY <2>2, <2>4 DEF Reads
<1>3. CASE \E p \in i..j : ts[p].k = "AND" /\
              \E l \in f[<<"and", i, p - 1>>], r \in f[<<"not", p + 1, j>>] : w = Bool(Truthy(l) /\ Truthy(r))
  <2>1. PICK p \in i..j : ts[p].k = "AND" /\
          \E l \in f[<<"and", i, p - 1>>], r \in f[<<"not", p + 1, j>>] : w = Bool(Truthy(l) /\ Truthy(r))
    BY <1>3
  <2>2. PICK l \in f[<<"and", i, p - 1>>], r \in f[<<"not", p + 1, j>>] : w = Bool(Truthy(l) /\ Truthy(r))
    BY <2>1
  <2>3. /\ p \in 1..Len(ts) /\ p + 1 \in 1..(Len(ts) + 1) /\ p + 1 <= j /\ (p - 1) + 1 = p
        /\ j + 1 \in 1..(Len(ts) + 1) /\ Peek(ts, p) = ts[p].k
        /\ l \in Value /\ r \in Value /\ Clean(ts, i, j)
        /\ Reads(ts, read, "and", i, p - 1, l) /\ Reads(ts, read, "not", p + 1, j, r)
    BY <1>1, <2>1, <2>2, SidesRead
  <2>4. w \in Value
    BY <2>2, BoolShape
  <2>5. ASSUME Peek(ts, j + 1) \notin Comparators
        PROVE  read[<<"and", i, Null>>] = read[<<"andRest", j + 1, w>>]
    <3>1. read[<<"and", i, Null>>] = read[<<"andRest", p, l>>]
      <4>1. Peek(ts, p) = "AND" /\ "AND" \notin Comparators
        BY <2>1, <2>3 DEF Comparators
      <4> QED
        BY <2>3, <4>1 DEF Reads
    <3>2. read[<<"andRest", p, l>>] = AndRest(ts, p, l, read)
      <4>1. p \in 1..(Len(ts) + 1)
        BY <1>1, <2>3
      <4>2. l \in Value
        BY <2>3
      <4> QED
        BY <4>1, <4>2, ReaderAt
    <3>3. read[<<"not", p + 1, Null>>] = Got(r, j + 1)
      BY <2>3, <2>5 DEF Reads
    <3>4. AndRest(ts, p, l, read) = read[<<"andRest", j + 1, w>>]
      <4>1. Peek(ts, p) = "AND"
        BY <2>1, <2>3
      <4>2. Got(r, j + 1).err = "none" /\ Got(r, j + 1).val = r /\ Got(r, j + 1).pos = j + 1
        BY GotShape
      <4> QED
        BY <2>2, <3>3, <4>1, <4>2 DEF AndRest
    <3> QED
      BY <3>1, <3>2, <3>4
  <2> QED
    BY <2>3, <2>4, <2>5 DEF Reads
<1>4. \/ w \in f[<<"not", i, j>>]
      \/ \E p \in i..j : ts[p].k = "AND" /\
            \E l \in f[<<"and", i, p - 1>>], r \in f[<<"not", p + 1, j>>] :
               w = Bool(Truthy(l) /\ Truthy(r))
  <2>1. \A u \in f[<<"and", i, j>>] :
          \/ u \in f[<<"not", i, j>>]
          \/ \E p \in i..j : ts[p].k = "AND" /\
                \E l \in f[<<"and", i, p - 1>>], r \in f[<<"not", p + 1, j>>] :
                   u = Bool(Truthy(l) /\ Truthy(r))
    <3>1. Split(ts, f, i, j)
      BY SplitPhrases
    <3> QED
      BY <3>1 DEF Split
  <2> QED
    BY <2>1
<1> QED
  BY <1>2, <1>3, <1>4

LEMMA CompleteOr ==
    ASSUME NEW refs, NEW ts, Condition(ts, refs), NEW env, NEW f, Grammar(ts, env, f),
           NEW read, Reader(ts, env, read), NEW i \in 1..(Len(ts) + 1), NEW j \in 0..Len(ts),
           ReadInside(ts, f, read, i, j), AllRead(ts, f, read, "and", i, j)
    PROVE  AllRead(ts, f, read, "or", i, j)
<1> SUFFICES ASSUME NEW w \in f[<<"or", i, j>>] PROVE Reads(ts, read, "or", i, j, w)
  BY DEF AllRead
<1>1. {"or", "and"} \subseteq Kinds /\ Len(ts) \in Nat
  BY ConditionShape DEF Kinds
<1>2. CASE w \in f[<<"and", i, j>>]
  <2>1. Reads(ts, read, "and", i, j, w)
    BY <1>2 DEF AllRead
  <2>2. w \in Value /\ Clean(ts, i, j)
    BY <2>1 DEF Reads
  <2>3. j + 1 \in 1..(Len(ts) + 1)
    BY <1>1
  <2>4. ASSUME Peek(ts, j + 1) \notin Comparators \cup {"AND"}
        PROVE  read[<<"or", i, Null>>] = read[<<"orRest", j + 1, w>>]
    <3>1. read[<<"or", i, Null>>] = Loop("orRest", read[<<"and", i, Null>>], read)
      BY BoolShape, ReaderAt
    <3>2. read[<<"and", i, Null>>] = Got(w, j + 1)
      <4>1. read[<<"and", i, Null>>] = read[<<"andRest", j + 1, w>>]
        BY <2>1, <2>4 DEF Reads
      <4> QED
        <5>1. w \in Value /\ Peek(ts, j + 1) # "AND"
          BY <2>2, <2>4
        <5>2. read[<<"andRest", j + 1, w>>] = Got(w, j + 1)
          BY <2>3, <5>1, LoopEnds
        <5> QED
          BY <4>1, <5>2
    <3> QED
      BY <3>1, <3>2, GotShape DEF Loop
  <2> QED
    BY <2>2, <2>4 DEF Reads
<1>3. CASE \E p \in i..j : ts[p].k = "OR" /\
              \E l \in f[<<"or", i, p - 1>>], r \in f[<<"and", p + 1, j>>] : w = Bool(Truthy(l) \/ Truthy(r))
  <2>1. PICK p \in i..j : ts[p].k = "OR" /\
          \E l \in f[<<"or", i, p - 1>>], r \in f[<<"and", p + 1, j>>] : w = Bool(Truthy(l) \/ Truthy(r))
    BY <1>3
  <2>2. PICK l \in f[<<"or", i, p - 1>>], r \in f[<<"and", p + 1, j>>] : w = Bool(Truthy(l) \/ Truthy(r))
    BY <2>1
  <2>3. /\ p \in 1..Len(ts) /\ p + 1 \in 1..(Len(ts) + 1) /\ p + 1 <= j /\ (p - 1) + 1 = p
        /\ j + 1 \in 1..(Len(ts) + 1) /\ Peek(ts, p) = ts[p].k
        /\ l \in Value /\ r \in Value /\ Clean(ts, i, j)
        /\ Reads(ts, read, "or", i, p - 1, l) /\ Reads(ts, read, "and", p + 1, j, r)
    BY <1>1, <2>1, <2>2, SidesRead
  <2>4. w \in Value
    BY <2>2, BoolShape
  <2>5. ASSUME Peek(ts, j + 1) \notin Comparators \cup {"AND"}
        PROVE  read[<<"or", i, Null>>] = read[<<"orRest", j + 1, w>>]
    <3>1. read[<<"or", i, Null>>] = read[<<"orRest", p, l>>]
      <4>1. Peek(ts, p) = "OR" /\ "OR" \notin Comparators \cup {"AND"}
        BY <2>1, <2>3 DEF Comparators
      <4> QED
        BY <2>3, <4>1 DEF Reads
    <3>2. read[<<"orRest", p, l>>] = OrRest(ts, p, l, read)
      <4>1. p \in 1..(Len(ts) + 1)
        BY <1>1, <2>3
      <4>2. l \in Value
        BY <2>3
      <4> QED
        BY <4>1, <4>2, ReaderAt
    <3>3. read[<<"and", p + 1, Null>>] = Got(r, j + 1)
      <4>1. read[<<"and", p + 1, Null>>] = read[<<"andRest", j + 1, r>>]
        BY <2>3, <2>5 DEF Reads
      <4> QED
        <5>1. r \in Value /\ Peek(ts, j + 1) # "AND" /\ j + 1 \in 1..(Len(ts) + 1)
          BY <2>3, <2>5
        <5>2. read[<<"andRest", j + 1, r>>] = Got(r, j + 1)
          BY <5>1, LoopEnds
        <5> QED
          BY <4>1, <5>2
    <3>4. OrRest(ts, p, l, read) = read[<<"orRest", j + 1, w>>]
      <4>1. Peek(ts, p) = "OR"
        BY <2>1, <2>3
      <4>2. Got(r, j + 1).err = "none" /\ Got(r, j + 1).val = r /\ Got(r, j + 1).pos = j + 1
        BY GotShape
      <4> QED
        BY <2>2, <3>3, <4>1, <4>2 DEF OrRest
    <3> QED
      BY <3>1, <3>2, <3>4
  <2> QED
    BY <2>3, <2>4, <2>5 DEF Reads
<1>4. \/ w \in f[<<"and", i, j>>]
      \/ \E p \in i..j : ts[p].k = "OR" /\
            \E l \in f[<<"or", i, p - 1>>], r \in f[<<"and", p + 1, j>>] :
               w = Bool(Truthy(l) \/ Truthy(r))
  <2>1. \A u \in f[<<"or", i, j>>] :
          \/ u \in f[<<"and", i, j>>]
          \/ \E p \in i..j : ts[p].k = "OR" /\
                \E l \in f[<<"or", i, p - 1>>], r \in f[<<"and", p + 1, j>>] :
                   u = Bool(Truthy(l) \/ Truthy(r))
    <3>1. Split(ts, f, i, j)
      BY SplitPhrases
    <3> QED
      BY <3>1 DEF Split
  <2> QED
    BY <2>1
<1> QED
  BY <1>2, <1>3, <1>4

LEMMA CompleteNot ==
    ASSUME NEW refs, NEW ts, Condition(ts, refs), NEW env, NEW f, Grammar(ts, env, f),
           NEW read, Reader(ts, env, read), NEW i \in 1..(Len(ts) + 1), NEW j \in 0..Len(ts),
           ReadInside(ts, f, read, i, j), AllRead(ts, f, read, "primary", i, j)
    PROVE  AllRead(ts, f, read, "not", i, j)
<1> SUFFICES ASSUME NEW w \in f[<<"not", i, j>>] PROVE Reads(ts, read, "not", i, j, w)
  BY DEF AllRead
<1>1. {"not", "primary"} \subseteq Kinds /\ Len(ts) \in Nat /\ j + 1 \in 1..(Len(ts) + 1)
  BY ConditionShape DEF Kinds
<1>2. read[<<"not", i, Null>>] = Negation(ts, i, read)
  BY BoolShape, ReaderAt
<1>3. read[<<"comparison", i, Null>>] = Comparison(ts, i, read)
  BY BoolShape, ReaderAt
<1>4. CASE /\ i \in i..j /\ ts[i].k = "NOT"
           /\ \E u \in f[<<"not", i + 1, j>>] : w = Bool(~Truthy(u))
  <2>1. PICK u \in f[<<"not", i + 1, j>>] : w = Bool(~Truthy(u))
    BY <1>4
  <2>2. i \in 1..Len(ts) /\ i + 1 \in 1..(Len(ts) + 1) /\ j - (i + 1) < j - i
    BY <1>1, <1>4
  <2>3. Reads(ts, read, "not", i + 1, j, u)
    BY <1>1, <2>2 DEF ReadInside, AllRead
  <2>4. u \in Value /\ Clean(ts, i + 1, j)
    BY <2>3 DEF Reads
  <2>5. Clean(ts, i, j)
    <3>1. \A m \in i..j : m = i \/ m \in (i + 1)..j
      BY <1>1
    <3>2. i <= j
      BY <1>1, <1>4
    <3> QED
      BY <1>4, <2>4, <3>1, <3>2 DEF Clean
  <2>6. Peek(ts, i) = "NOT"
    BY <1>4, <2>2, <1>1, PeekShape
  <2>7. ASSUME Peek(ts, j + 1) \notin Comparators PROVE read[<<"not", i, Null>>] = Got(w, j + 1)
    <3>1. read[<<"not", i + 1, Null>>] = Got(u, j + 1)
      BY <2>3, <2>7 DEF Reads
    <3> QED
      BY <1>2, <2>1, <2>6, <3>1, GotShape DEF Negation
  <2>8. w \in Value
    BY <2>1, BoolShape
  <2> QED
    BY <2>5, <2>7, <2>8 DEF Reads
<1>5. ASSUME ~(i \in i..j /\ ts[i].k = "NOT"), w \in Value, Clean(ts, i, j),
             Peek(ts, j + 1) \notin Comparators => read[<<"comparison", i, Null>>] = Got(w, j + 1)
      PROVE  Reads(ts, read, "not", i, j, w)
  <2>1. i \in i..j /\ i <= Len(ts)
    BY <1>1, <1>5 DEF Clean
  <2>2. Peek(ts, i) # "NOT"
    BY <1>5, <2>1, PeekShape
  <2>3. read[<<"not", i, Null>>] = read[<<"comparison", i, Null>>]
    BY <1>2, <2>2 DEF Negation
  <2> QED
    BY <1>5, <2>3 DEF Reads
<1>6. CASE ~(i \in i..j /\ ts[i].k = "NOT") /\ w \in f[<<"primary", i, j>>]
  <2>1. Reads(ts, read, "primary", i, j, w)
    BY <1>6 DEF AllRead
  <2>2. w \in Value /\ Clean(ts, i, j) /\ read[<<"primary", i, Null>>] = Got(w, j + 1)
    BY <2>1 DEF Reads
  <2>3. Peek(ts, j + 1) \notin Comparators => read[<<"comparison", i, Null>>] = Got(w, j + 1)
    BY <1>3, <2>2, GotShape DEF Comparison
  <2> QED
    BY <1>5, <1>6, <2>2, <2>3
<1>7. CASE /\ ~(i \in i..j /\ ts[i].k = "NOT")
           /\ \E p \in i..j : ts[p].k \in Comparators /\
                 \E l \in f[<<"primary", i, p - 1>>], r \in f[<<"primary", p + 1, j>>] :
                    w = Bool(Compare(ts[p].k, l, r))
  <2>1. PICK p \in i..j : ts[p].k \in Comparators /\
          \E l \in f[<<"primary", i, p - 1>>], r \in f[<<"primary", p + 1, j>>] :
             w = Bool(Compare(ts[p].k, l, r))
    BY <1>7
  <2>2. PICK l \in f[<<"primary", i, p - 1>>], r \in f[<<"primary", p + 1, j>>] :
          w = Bool(Compare(ts[p].k, l, r))
    BY <2>1
  <2>3. ts[p].k \notin {"BAD", "ARITH"}
    BY <2>1 DEF Comparators
  <2>4. /\ p \in 1..Len(ts) /\ p + 1 \in 1..(Len(ts) + 1) /\ p + 1 <= j /\ (p - 1) + 1 = p
        /\ j + 1 \in 1..(Len(ts) + 1) /\ Peek(ts, p) = ts[p].k
        /\ l \in Value /\ r \in Value /\ Clean(ts, i, j)
        /\ Reads(ts, read, "primary", i, p - 1, l) /\ Reads(ts, read, "primary", p + 1, j, r)
    BY <1>1, <2>2, <2>3, SidesRead
  <2>5. read[<<"primary", i, Null>>] = Got(l, p) /\ read[<<"primary", p + 1, Null>>] = Got(r, j + 1)
    BY <2>4 DEF Reads
  <2>6. Comparison(ts, i, read) = Got(w, j + 1)
    BY <2>1, <2>2, <2>4, <2>5, GotShape DEF Comparison
  <2>7. w \in Value
    BY <2>2, BoolShape
  <2> QED
    BY <1>3, <1>5, <1>7, <2>4, <2>6, <2>7
<1>8. \/ /\ i \in i..j /\ ts[i].k = "NOT"
         /\ \E u \in f[<<"not", i + 1, j>>] : w = Bool(~Truthy(u))
      \/ /\ ~(i \in i..j /\ ts[i].k = "NOT")
         /\ \/ w \in f[<<"primary", i, j>>]
            \/ \E p \in i..j : ts[p].k \in Comparators /\
                  \E l \in f[<<"primary", i, p - 1>>], r \in f[<<"primary", p + 1, j>>] :
                     w = Bool(Compare(ts[p].k, l, r))
  <2>1. \A v \in f[<<"not", i, j>>] :
          \/ /\ i \in i..j /\ ts[i].k = "NOT"
             /\ \E u \in f[<<"not", i + 1, j>>] : v = Bool(~Truthy(u))
          \/ /\ ~(i \in i..j /\ ts[i].k = "NOT")
             /\ \/ v \in f[<<"primary", i, j>>]
                \/ \E p \in i..j : ts[p].k \in Comparators /\
                      \E l \in f[<<"primary", i, p - 1>>], r \in f[<<"primary", p + 1, j>>] :
                         v = Bool(Compare(ts[p].k, l, r))
    <3>1. Split(ts, f, i, j)
      BY SplitPhrases
    <3> QED
      BY <3>1 DEF Split
  <2> QED
    BY <2>1
<1> QED
  BY <1>4, <1>6, <1>7, <1>8

\* No reference of the condition raises.
NeverRaises(ts, env) == \A p \in DOMAIN ts : ts[p].k = "REF" => env[ts[p].ref] \in Value

LEMMA CompletePrimary ==
    ASSUME Raises \notin Value,
           NEW refs, NEW ts, Condition(ts, refs), NEW env, NeverRaises(ts, env), NEW f, Grammar(ts, env, f),
           NEW read, Reader(ts, env, read), NEW i \in 1..(Len(ts) + 1), NEW j \in 0..Len(ts),
           i <= j => ReadInside(ts, f, read, i, j)
    PROVE  AllRead(ts, f, read, "primary", i, j)
<1> SUFFICES ASSUME NEW w \in f[<<"primary", i, j>>] PROVE Reads(ts, read, "primary", i, j, w)
  BY DEF AllRead
<1>1. Len(ts) \in Nat /\ "or" \in Kinds
  BY ConditionShape DEF Kinds
<1>2. i <= j
  <2>1. w \in Operand(ts, env, i, j, f)
    BY GrammarAt
  <2>2. i \in 1..(Len(ts) + 1) /\ j \in 0..Len(ts)
    OBVIOUS
  <2>3. i # j => i \in Places(ts, i, j, {"LP"})
    BY <2>1 DEF Operand
  <2> QED
    BY <1>1, <2>2, <2>3 DEF Places
<1>3. i \in 1..Len(ts) /\ j \in 1..Len(ts) /\ Peek(ts, i) = ts[i].k /\ Peek(ts, j) = ts[j].k
  BY <1>1, <1>2 DEF Peek
<1>4. OperandAt(ts, env, f, i, j)
  BY <1>1, <1>2, <1>3, OperandOf
<1>5. read[<<"primary", i, Null>>] = Primary(ts, env, i, read)
  BY BoolShape, ReaderPrimary
<1>6. CASE i = j
  <2>1. ts[i].k \in {"LIT", "REF"} /\ w = IF ts[i].k = "LIT" THEN ts[i].v ELSE env[ts[i].ref]
    BY <1>4, <1>6 DEF OperandAt
  <2>2. Clean(ts, i, j)
    <3>1. \A m \in i..j : m = i
      BY <1>6
    <3> QED
      BY <1>2, <2>1, <3>1 DEF Clean
  <2>3. CASE ts[i].k = "LIT"
    <3>1. w = ts[i].v /\ w \in Value
      BY <1>3, <2>1, <2>3, ConditionShape
    <3>2. Primary(ts, env, i, read) = Got(w, i + 1)
      BY <1>3, <2>3, <3>1 DEF Primary
    <3> QED
      BY <1>5, <1>6, <2>2, <3>1, <3>2 DEF Reads
  <2>4. CASE ts[i].k = "REF"
    <3>1. w = env[ts[i].ref] /\ w \in Value
      BY <1>3, <2>1, <2>4, ConditionShape DEF NeverRaises
    <3>2. Primary(ts, env, i, read) = Got(w, i + 1)
      BY <1>3, <2>4, <3>1 DEF Primary
    <3> QED
      BY <1>5, <1>6, <2>2, <3>1, <3>2 DEF Reads
  <2> QED
    BY <2>1, <2>3, <2>4
<1>7. CASE i # j
  <2>1. ts[i].k = "LP" /\ ts[j].k = "RP" /\ w \in f[<<"or", i + 1, j - 1>>]
    BY <1>4, <1>7 DEF OperandAt
  <2>2. /\ i + 1 \in 1..(Len(ts) + 1) /\ j - 1 \in 0..Len(ts) /\ (j - 1) - (i + 1) < j - i
        /\ (j - 1) + 1 = j /\ j \in 1..(Len(ts) + 1)
    BY <1>1, <1>3
  <2>3. AllRead(ts, f, read, "or", i + 1, j - 1)
    BY <1>1, <1>2, <2>2 DEF ReadInside
  <2>4. Reads(ts, read, "or", i + 1, j - 1, w)
    BY <2>1, <2>3 DEF AllRead
  <2>5. w \in Value /\ Clean(ts, i + 1, j - 1)
    BY <2>4 DEF Reads
  <2>6. Clean(ts, i, j)
    <3>1. \A m \in i..j : m = i \/ m = j \/ m \in (i + 1)..(j - 1)
      BY <1>3
    <3> QED
      BY <1>2, <2>1, <2>5, <3>1 DEF Clean
  <2>7. read[<<"or", i + 1, Null>>] = Got(w, j)
    <3>1. Peek(ts, j) = "RP"
      BY <1>3, <2>1
    <3>2. read[<<"or", i + 1, Null>>] = read[<<"orRest", j, w>>]
      BY <2>2, <2>4, <3>1 DEF Reads, Comparators
    <3>3. read[<<"orRest", j, w>>] = Got(w, j)
      <4>1. w \in Value /\ j \in 1..(Len(ts) + 1) /\ Peek(ts, j) # "OR"
        BY <2>2, <2>5, <3>1
      <4>2. read[<<"orRest", j, w>>] = OrRest(ts, j, w, read)
        BY <4>1, ReaderOrRest
      <4> QED
        BY <4>1, <4>2 DEF OrRest
    <3> QED
      BY <3>2, <3>3
  <2>8. Primary(ts, env, i, read) = Got(w, j + 1)
    <3>1. Peek(ts, i) = "LP" /\ Peek(ts, j) = "RP"
      BY <1>3, <2>1
    <3>2. Got(w, j).err = "none" /\ Got(w, j).val = w /\ Got(w, j).pos = j
      BY GotShape
    <3> QED
      BY <2>7, <3>1, <3>2 DEF Primary
  <2> QED
    BY <1>5, <2>5, <2>6, <2>8 DEF Reads
<1> QED
  BY <1>6, <1>7

LEMMA GrammarIsRead ==
    ASSUME Raises \notin Value,
           NEW refs, NEW ts, Condition(ts, refs), NEW env, NeverRaises(ts, env), NEW f, Grammar(ts, env, f),
           NEW read, Reader(ts, env, read)
    PROVE  \A kind \in Kinds, i \in 1..(Len(ts) + 1), j \in 0..Len(ts) : AllRead(ts, f, read, kind, i, j)
<1> DEFINE P == {x \in Ranges(ts) : AllRead(ts, f, read, x[1], x[2], x[3])}
<1>1. Len(ts) \in Nat
  BY ConditionShape
<1>2. \A kind \in Kinds, i \in 1..(Len(ts) + 1), j \in 0..Len(ts) :
        <<kind, i, j>> \in P <=> AllRead(ts, f, read, kind, i, j)
  BY DEF Ranges
<1> HIDE DEF P
<1>3. ASSUME NEW kind \in Kinds, NEW i \in 1..(Len(ts) + 1), NEW j \in 0..Len(ts), Lower(ts, P, kind, i, j)
      PROVE  AllRead(ts, f, read, kind, i, j)
  <2>1. {"or", "and", "not", "primary"} \subseteq Kinds /\ Depth["primary"] < Depth["not"]
        /\ Depth["not"] < Depth["and"] /\ Depth["and"] < Depth["or"]
    BY DEF Kinds, Depth
  <2>2. i <= j => ReadInside(ts, f, read, i, j)
    BY <1>2, <1>3 DEF Lower, Inner, ReadInside
  <2>3. \A k2 \in Kinds : Depth[k2] < Depth[kind] => AllRead(ts, f, read, k2, i, j)
    BY <1>2, <1>3 DEF Lower, Beneath
  <2>4. CASE kind = "primary"
    BY <2>2, <2>4, CompletePrimary
  <2>5. CASE kind # "primary" /\ i <= j
    <3>1. ReadInside(ts, f, read, i, j)
      BY <2>2, <2>5
    <3>2. CASE kind = "or"
      <4>1. AllRead(ts, f, read, "and", i, j)
        BY <2>1, <2>3, <3>2
      <4> QED
        BY <3>1, <3>2, <4>1, CompleteOr
    <3>3. CASE kind = "and"
      <4>1. AllRead(ts, f, read, "not", i, j)
        BY <2>1, <2>3, <3>3
      <4> QED
        BY <3>1, <3>3, <4>1, CompleteAnd
    <3>4. CASE kind = "not"
      <4>1. AllRead(ts, f, read, "primary", i, j)
        BY <2>1, <2>3, <3>4
      <4> QED
        BY <3>1, <3>4, <4>1, CompleteNot
    <3> QED
      BY <2>5, <3>2, <3>3, <3>4 DEF Kinds
  <2>6. CASE kind # "primary" /\ ~(i <= j)
    <3>1. i..j = {}
      BY <1>1, <2>6
    <3>2. Split(ts, f, i, j)
      BY SplitPhrases
    <3>3. /\ \A w \in f[<<"or", i, j>>] : w \in f[<<"and", i, j>>]
          /\ \A w \in f[<<"and", i, j>>] : w \in f[<<"not", i, j>>]
          /\ \A w \in f[<<"not", i, j>>] : w \in f[<<"primary", i, j>>]
      BY <3>1, <3>2 DEF Split
    <3>4. \A w : w \notin f[<<"primary", i, j>>]
      <4>1. AllRead(ts, f, read, "primary", i, j)
        BY <2>2, <2>6, CompletePrimary
      <4> QED
        BY <2>6, <4>1 DEF AllRead, Reads, Clean
    <3> QED
      BY <2>6, <3>3, <3>4 DEF AllRead, Kinds
  <2> QED
    BY <2>4, <2>5, <2>6
<1>4. Ranges(ts) \subseteq P
  BY <1>1, <1>2, <1>3, RangeInduction
<1>5. \A kind \in Kinds, i \in 1..(Len(ts) + 1), j \in 0..Len(ts) : <<kind, i, j>> \in Ranges(ts)
  BY DEF Ranges
<1> QED
  BY <1>2, <1>4, <1>5

\* For every condition, and whatever its references are resolved to, the parser
\* evaluates it to the one meaning that the grammar of the docstring gives it, and
\* rejects it if the grammar gives it none: evaluate_condition of
\* engine/expressions.py, precedence, associativity and parentheses included.
THEOREM EvaluatorIsRight ==
    ASSUME Raises \notin Value, NEW refs, NEW ts \in Seq(Token(refs)), NEW env,
           \A p \in DOMAIN ts : ts[p].k = "REF" => env[ts[p].ref] \in Value
    PROVE  Meanings(ts, env) =
               IF Evaluate(ts, env).err = "none" THEN {Evaluate(ts, env).val} ELSE {}
<1>1. Condition(ts, refs) /\ NeverRaises(ts, env) /\ Resolves(ts, env)
  BY DEF Condition, NeverRaises, Resolves
<1>2. Len(ts) \in Nat /\ DOMAIN ts = 1..Len(ts)
  BY <1>1, ConditionShape
<1>3. PICK read : Reader(ts, env, read) /\ Reading(ts, env) = read[<<"or", 1, Null>>]
  BY <1>1, ReadingShape
<1>4. PICK f : Grammar(ts, env, f) /\ Meanings(ts, env) = {Bool(Truthy(v)) : v \in f[<<"or", 1, Len(ts)>>]}
  BY <1>1, MeaningsShape
<1> DEFINE r == read[<<"or", 1, Null>>]
<1>5. ASSUME NEW w \in f[<<"or", 1, Len(ts)>>]
      PROVE  Evaluate(ts, env) = Got(Bool(Truthy(w)), Len(ts) + 1)
  <2>1. Reads(ts, read, "or", 1, Len(ts), w)
    <3>1. "or" \in Kinds /\ 1 \in 1..(Len(ts) + 1) /\ Len(ts) \in 0..Len(ts)
      BY <1>2 DEF Kinds
    <3>2. AllRead(ts, f, read, "or", 1, Len(ts))
      BY <1>1, <1>3, <1>4, <3>1, GrammarIsRead
    <3> QED
      BY <1>5, <3>2 DEF AllRead
  <2>2. w \in Value /\ Clean(ts, 1, Len(ts))
    BY <2>1 DEF Reads
  <2>3. ts # << >> /\ ~\E p \in DOMAIN ts : ts[p].k \in {"BAD", "ARITH"}
    BY <1>2, <2>2 DEF Clean
  <2>4. Len(ts) + 1 \in 1..(Len(ts) + 1) /\ Peek(ts, Len(ts) + 1) = "END"
    BY <1>2 DEF Peek
  <2>5. r = Got(w, Len(ts) + 1)
    <3>1. r = read[<<"orRest", Len(ts) + 1, w>>]
      BY <2>1, <2>4 DEF Reads, Comparators
    <3>2. read[<<"orRest", Len(ts) + 1, w>>] = Got(w, Len(ts) + 1)
      <4>1. PICK e \in 1..(Len(ts) + 1) : e = Len(ts) + 1
        BY <2>4
      <4>2. w \in Value /\ Peek(ts, e) # "OR" /\ Reader(ts, env, read)
        BY <1>3, <2>2, <2>4, <4>1
      <4>3. read[<<"orRest", e, w>>] = Got(w, e)
        <5>1. read[<<"orRest", e, w>>] = OrRest(ts, e, w, read)
          BY <4>2, ReaderOrRest
        <5> QED
          BY <4>2, <5>1 DEF OrRest
      <4> QED
        BY <4>1, <4>3
    <3> QED
      BY <3>1, <3>2
  <2> QED
    BY <1>3, <2>3, <2>5, GotShape DEF Evaluate
<1>6. ASSUME Evaluate(ts, env).err = "none"
      PROVE  \E w \in f[<<"or", 1, Len(ts)>>] : TRUE
  <2>1. r.err = "none" /\ r.pos = Len(ts) + 1
    BY <1>3, <1>6, GotShape DEF Evaluate
  <2>2. Sound(f, read, <<"or", 1, Null>>)
    <3>1. <<"or", 1, Null>> \in Calls(ts)
      BY <1>2, BoolShape DEF Calls, Rules
    <3> QED
      BY <1>1, <1>3, <1>4, <3>1, ReaderIsSound
  <2>3. Phrase(f, "or", 1, r)
    BY <2>2, SoundAt
  <2>4. (Len(ts) + 1) - 1 = Len(ts)
    BY <1>2
  <2> QED
    BY <2>1, <2>3, <2>4 DEF Phrase
<1>7. CASE Evaluate(ts, env).err = "none"
  <2>1. PICK w \in f[<<"or", 1, Len(ts)>>] : TRUE
    BY <1>6, <1>7
  <2>2. Evaluate(ts, env).val = Bool(Truthy(w))
    BY <1>5, <2>1, GotShape
  <2>3. \A u \in f[<<"or", 1, Len(ts)>>] : Bool(Truthy(u)) = Evaluate(ts, env).val
    BY <1>5, GotShape
  <2>4. Meanings(ts, env) = {Evaluate(ts, env).val}
    BY <1>4, <2>1, <2>2, <2>3
  <2> QED
    BY <1>7, <2>4
<1>8. CASE Evaluate(ts, env).err # "none"
  <2>1. \A w : w \notin f[<<"or", 1, Len(ts)>>]
    BY <1>5, <1>8, GotShape
  <2>2. Meanings(ts, env) = {}
    BY <1>4, <2>1
  <2> QED
    BY <1>8, <2>2
<1> QED
  BY <1>7, <1>8

----------------------------------------------------------------------------
(* Whether a condition parses does not depend on what its references are. *)

\* Nothing is raised, and then the same is read.
SameShape(a, b) == a.err = "raised" \/ (a.err = b.err /\ a.pos = b.pos)

ShapeLater(ts, read, read2, p) ==
    \A rule \in Rules, q \in 1..(Len(ts) + 1), v \in Value, w \in Value :
        q > p => SameShape(read[<<rule, q, v>>], read2[<<rule, q, w>>])

LEMMA ShapeLoop ==
    ASSUME NEW ts, Len(ts) \in Nat, NEW read, NEW read2, NEW p \in 1..(Len(ts) + 1),
           ShapeLater(ts, read, read2, p), NEW rest \in Rules, NEW first, NEW first2,
           SameShape(first, first2),
           first.err = "none" => first.val \in Value /\ first.pos \in 1..(Len(ts) + 1) /\ first.pos > p,
           first2.err = "none" => first2.val \in Value
    PROVE  SameShape(Loop(rest, first, read), Loop(rest, first2, read2))
<1>1. CASE first.err # "none"
  BY <1>1 DEF Loop, SameShape
<1>2. CASE first.err = "none"
  <2>1. first2.err = "none" /\ first2.pos = first.pos
    BY <1>2 DEF SameShape
  <2>2. PICK w \in Value, q \in 1..(Len(ts) + 1) : w = first.val /\ q = first.pos /\ q > p
    BY <1>2
  <2>3. PICK w2 \in Value : w2 = first2.val
    BY <2>1
  <2>4. SameShape(read[<<rest, q, w>>], read2[<<rest, q, w2>>])
    BY <2>2 DEF ShapeLater
  <2> QED
    BY <1>2, <2>1, <2>2, <2>3, <2>4 DEF Loop
<1> QED
  BY <1>1, <1>2

LEMMA ShapeOrRest ==
    ASSUME NEW refs, NEW ts, Condition(ts, refs), NEW env, NEW env2, NEW read, Reader(ts, env, read),
           NEW read2, Reader(ts, env2, read2), NEW p \in 1..(Len(ts) + 1), NEW v \in Value, NEW v2 \in Value,
           ShapeLater(ts, read, read2, p)
    PROVE  SameShape(read[<<"orRest", p, v>>], read2[<<"orRest", p, v2>>])
<1>1. Len(ts) \in Nat /\ p \in Nat /\ "and" \in Rules /\ "orRest" \in Rules
  BY ConditionShape DEF Rules
<1>2. read[<<"orRest", p, v>>] = OrRest(ts, p, v, read) /\ read2[<<"orRest", p, v2>>] = OrRest(ts, p, v2, read2)
  BY ReaderAt
<1>3. CASE Peek(ts, p) # "OR"
  <2>1. read[<<"orRest", p, v>>] = Got(v, p) /\ read2[<<"orRest", p, v2>>] = Got(v2, p)
    BY <1>2, <1>3 DEF OrRest
  <2> QED
    BY <2>1, GotShape DEF SameShape
<1>4. CASE Peek(ts, p) = "OR"
  <2> DEFINE r == read[<<"and", p + 1, Null>>]
             r2 == read2[<<"and", p + 1, Null>>]
  <2>1. p + 1 \in 1..(Len(ts) + 1) /\ p + 1 > p
    BY <1>1, <1>4, PeekShape
  <2>2. SameShape(r, r2)
    BY <1>1, <2>1, BoolShape DEF ShapeLater
  <2>3. CASE r.err # "none"
    <3>1. read[<<"orRest", p, v>>] = r
      BY <1>2, <1>4, <2>3 DEF OrRest
    <3>2. r2.err # "none" => read2[<<"orRest", p, v2>>] = r2
      BY <1>2, <1>4 DEF OrRest
    <3> HIDE DEF r, r2
    <3> QED
      BY <2>2, <2>3, <3>1, <3>2 DEF SameShape
  <2>4. CASE r.err = "none"
    <3>1. r2.err = "none" /\ r2.pos = r.pos
      BY <2>2, <2>4 DEF SameShape
    <3>2. Returned(ts, "and", p + 1, r) /\ Returned(ts, "and", p + 1, r2)
      BY <1>1, <2>1, BoolShape, ReaderAt
    <3>3. PICK w \in Value, q \in Nat : w = r.val /\ q = r.pos /\ q > p + 1 /\ q <= Len(ts) + 1
      BY <1>1, <2>1, <2>4, <3>2, ReturnedPlace
    <3>4. q \in 1..(Len(ts) + 1) /\ q > p
      BY <1>1, <3>3
    <3>5. PICK u \in Value, u2 \in Value : u = Bool(Truthy(v) \/ Truthy(r.val)) /\ u2 = Bool(Truthy(v2) \/ Truthy(r2.val))
      BY BoolShape
    <3>6. read[<<"orRest", p, v>>] = read[<<"orRest", q, u>>]
      BY <1>2, <1>4, <2>4, <3>3, <3>5 DEF OrRest
    <3>7. read2[<<"orRest", p, v2>>] = read2[<<"orRest", q, u2>>]
      BY <1>2, <1>4, <3>1, <3>3, <3>5 DEF OrRest
    <3>8. SameShape(read[<<"orRest", q, u>>], read2[<<"orRest", q, u2>>])
      BY <1>1, <3>4 DEF ShapeLater
    <3> QED
      BY <3>6, <3>7, <3>8
  <2> QED
    BY <2>3, <2>4
<1> QED
  BY <1>3, <1>4

LEMMA ShapeAndRest ==
    ASSUME NEW refs, NEW ts, Condition(ts, refs), NEW env, NEW env2, NEW read, Reader(ts, env, read),
           NEW read2, Reader(ts, env2, read2), NEW p \in 1..(Len(ts) + 1), NEW v \in Value, NEW v2 \in Value,
           ShapeLater(ts, read, read2, p)
    PROVE  SameShape(read[<<"andRest", p, v>>], read2[<<"andRest", p, v2>>])
<1>1. Len(ts) \in Nat /\ p \in Nat /\ "not" \in Rules /\ "andRest" \in Rules
  BY ConditionShape DEF Rules
<1>2. read[<<"andRest", p, v>>] = AndRest(ts, p, v, read) /\ read2[<<"andRest", p, v2>>] = AndRest(ts, p, v2, read2)
  BY ReaderAt
<1>3. CASE Peek(ts, p) # "AND"
  <2>1. read[<<"andRest", p, v>>] = Got(v, p) /\ read2[<<"andRest", p, v2>>] = Got(v2, p)
    BY <1>2, <1>3 DEF AndRest
  <2> QED
    BY <2>1, GotShape DEF SameShape
<1>4. CASE Peek(ts, p) = "AND"
  <2> DEFINE r == read[<<"not", p + 1, Null>>]
             r2 == read2[<<"not", p + 1, Null>>]
  <2>1. p + 1 \in 1..(Len(ts) + 1) /\ p + 1 > p
    BY <1>1, <1>4, PeekShape
  <2>2. SameShape(r, r2)
    BY <1>1, <2>1, BoolShape DEF ShapeLater
  <2>3. CASE r.err # "none"
    <3>1. read[<<"andRest", p, v>>] = r
      BY <1>2, <1>4, <2>3 DEF AndRest
    <3>2. r2.err # "none" => read2[<<"andRest", p, v2>>] = r2
      BY <1>2, <1>4 DEF AndRest
    <3> HIDE DEF r, r2
    <3> QED
      BY <2>2, <2>3, <3>1, <3>2 DEF SameShape
  <2>4. CASE r.err = "none"
    <3>1. r2.err = "none" /\ r2.pos = r.pos
      BY <2>2, <2>4 DEF SameShape
    <3>2. Returned(ts, "not", p + 1, r) /\ Returned(ts, "not", p + 1, r2)
      BY <1>1, <2>1, BoolShape, ReaderAt
    <3>3. PICK w \in Value, q \in Nat : w = r.val /\ q = r.pos /\ q > p + 1 /\ q <= Len(ts) + 1
      BY <1>1, <2>1, <2>4, <3>2, ReturnedPlace
    <3>4. q \in 1..(Len(ts) + 1) /\ q > p
      BY <1>1, <3>3
    <3>5. PICK u \in Value, u2 \in Value : u = Bool(Truthy(v) /\ Truthy(r.val)) /\ u2 = Bool(Truthy(v2) /\ Truthy(r2.val))
      BY BoolShape
    <3>6. read[<<"andRest", p, v>>] = read[<<"andRest", q, u>>]
      BY <1>2, <1>4, <2>4, <3>3, <3>5 DEF AndRest
    <3>7. read2[<<"andRest", p, v2>>] = read2[<<"andRest", q, u2>>]
      BY <1>2, <1>4, <3>1, <3>3, <3>5 DEF AndRest
    <3>8. SameShape(read[<<"andRest", q, u>>], read2[<<"andRest", q, u2>>])
      BY <1>1, <3>4 DEF ShapeLater
    <3> QED
      BY <3>6, <3>7, <3>8
  <2> QED
    BY <2>3, <2>4
<1> QED
  BY <1>3, <1>4

LEMMA ShapeNegation ==
    ASSUME NEW refs, NEW ts, Condition(ts, refs), NEW env, NEW env2, NEW read, Reader(ts, env, read),
           NEW read2, Reader(ts, env2, read2), NEW p \in 1..(Len(ts) + 1), NEW v \in Value, NEW v2 \in Value,
           ShapeLater(ts, read, read2, p),
           SameShape(read[<<"comparison", p, Null>>], read2[<<"comparison", p, Null>>])
    PROVE  SameShape(read[<<"not", p, v>>], read2[<<"not", p, v2>>])
<1>1. Len(ts) \in Nat /\ p \in Nat /\ "not" \in Rules
  BY ConditionShape DEF Rules
<1>2. read[<<"not", p, v>>] = Negation(ts, p, read) /\ read2[<<"not", p, v2>>] = Negation(ts, p, read2)
  BY ReaderAt
<1>3. CASE Peek(ts, p) # "NOT"
  BY <1>2, <1>3 DEF Negation
<1>4. CASE Peek(ts, p) = "NOT"
  <2> DEFINE r == read[<<"not", p + 1, Null>>]
             r2 == read2[<<"not", p + 1, Null>>]
  <2>1. p + 1 \in 1..(Len(ts) + 1) /\ p + 1 > p
    BY <1>1, <1>4, PeekShape
  <2>2. SameShape(r, r2)
    BY <1>1, <2>1, BoolShape DEF ShapeLater
  <2>3. /\ Negation(ts, p, read) = IF r.err # "none" THEN r ELSE Got(Bool(~Truthy(r.val)), r.pos)
        /\ Negation(ts, p, read2) = IF r2.err # "none" THEN r2 ELSE Got(Bool(~Truthy(r2.val)), r2.pos)
    BY <1>4 DEF Negation
  <2> HIDE DEF r, r2
  <2> QED
    BY <1>2, <2>2, <2>3, GotShape DEF SameShape
<1> QED
  BY <1>3, <1>4

LEMMA ShapeComparison ==
    ASSUME NEW refs, NEW ts, Condition(ts, refs), NEW env, NEW env2, NEW read, Reader(ts, env, read),
           NEW read2, Reader(ts, env2, read2), NEW p \in 1..(Len(ts) + 1), NEW v \in Value, NEW v2 \in Value,
           ShapeLater(ts, read, read2, p),
           SameShape(read[<<"primary", p, Null>>], read2[<<"primary", p, Null>>])
    PROVE  SameShape(read[<<"comparison", p, v>>], read2[<<"comparison", p, v2>>])
<1>1. Len(ts) \in Nat /\ p \in Nat /\ "primary" \in Rules
  BY ConditionShape DEF Rules
<1>2. /\ read[<<"comparison", p, v>>] = Comparison(ts, p, read)
      /\ read2[<<"comparison", p, v2>>] = Comparison(ts, p, read2)
  BY ReaderAt
<1> DEFINE l == read[<<"primary", p, Null>>]
           l2 == read2[<<"primary", p, Null>>]
<1>3. CASE l.err # "none"
  <2>1. Comparison(ts, p, read) = l
    BY <1>3 DEF Comparison
  <2>2. l2.err # "none" => Comparison(ts, p, read2) = l2
    BY DEF Comparison
  <2> HIDE DEF l, l2
  <2> QED
    BY <1>2, <1>3, <2>1, <2>2 DEF SameShape, l, l2
<1>4. CASE l.err = "none"
  <2>1. l2.err = "none" /\ l2.pos = l.pos
    BY <1>4 DEF SameShape
  <2>2. Returned(ts, "primary", p, l)
    BY <1>1, BoolShape, ReaderAt
  <2>3. PICK a \in Value, m \in Nat : a = l.val /\ m = l.pos /\ m > p /\ m <= Len(ts) + 1
    BY <1>1, <1>4, <2>2, ReturnedPlace
  <2>4. CASE Peek(ts, m) \notin Comparators
    <3>1. Comparison(ts, p, read) = l /\ Comparison(ts, p, read2) = l2
      BY <2>1, <2>3, <2>4 DEF Comparison
    <3> QED
      BY <1>2, <3>1
  <2>5. CASE Peek(ts, m) \in Comparators
    <3>1. m \in 1..(Len(ts) + 1) /\ Peek(ts, m) # "END"
      BY <1>1, <2>3, <2>5 DEF Comparators
    <3>2. m \in 1..Len(ts)
      BY <3>1, PeekShape
    <3>3. m + 1 \in 1..(Len(ts) + 1) /\ m + 1 > p
      BY <1>1, <2>3, <3>2
    <3> DEFINE r == read[<<"primary", m + 1, Null>>]
               r2 == read2[<<"primary", m + 1, Null>>]
    <3>4. SameShape(r, r2)
      BY <1>1, <3>3, BoolShape DEF ShapeLater
    <3>5. /\ Comparison(ts, p, read) =
                IF r.err # "none" THEN r ELSE Got(Bool(Compare(ts[m].k, l.val, r.val)), r.pos)
          /\ Comparison(ts, p, read2) =
                IF r2.err # "none" THEN r2 ELSE Got(Bool(Compare(ts[m].k, l2.val, r2.val)), r2.pos)
      BY <1>4, <2>1, <2>3, <2>5 DEF Comparison
    <3> HIDE DEF l, l2, r, r2
    <3> QED
      BY <1>2, <3>4, <3>5, GotShape DEF SameShape
  <2> QED
    BY <2>4, <2>5
<1> QED
  BY <1>3, <1>4

LEMMA ShapePrimary ==
    ASSUME NEW refs, NEW ts, Condition(ts, refs), NEW env, NEW env2, NEW read, Reader(ts, env, read),
           NEW read2, Reader(ts, env2, read2), NEW p \in 1..(Len(ts) + 1), NEW v \in Value, NEW v2 \in Value,
           ShapeLater(ts, read, read2, p), Raises \notin Value, NeverRaises(ts, env2)
    PROVE  SameShape(read[<<"primary", p, v>>], read2[<<"primary", p, v2>>])
<1>1. Len(ts) \in Nat /\ p \in Nat /\ "or" \in Rules
  BY ConditionShape DEF Rules
<1>2. /\ read[<<"primary", p, v>>] = Primary(ts, env, p, read)
      /\ read2[<<"primary", p, v2>>] = Primary(ts, env2, p, read2)
  <2>1. read[<<"primary", p, v>>] = Primary(ts, env, p, read)
    BY ReaderPrimary
  <2>2. read2[<<"primary", p, v2>>] = Primary(ts, env2, p, read2)
    BY ReaderPrimary
  <2> QED
    BY <2>1, <2>2
<1>3. CASE Peek(ts, p) = "LP"
  <2> DEFINE r == read[<<"or", p + 1, Null>>]
             r2 == read2[<<"or", p + 1, Null>>]
  <2>1. p + 1 \in 1..(Len(ts) + 1) /\ p + 1 > p
    BY <1>1, <1>3, PeekShape
  <2>2. SameShape(r, r2)
    BY <1>1, <2>1, BoolShape DEF ShapeLater
  <2>3. /\ Primary(ts, env, p, read) =
              IF r.err # "none" THEN r
              ELSE IF Peek(ts, r.pos) = "RP" THEN Got(r.val, r.pos + 1) ELSE Failed("syntax")
        /\ Primary(ts, env2, p, read2) =
              IF r2.err # "none" THEN r2
              ELSE IF Peek(ts, r2.pos) = "RP" THEN Got(r2.val, r2.pos + 1) ELSE Failed("syntax")
    BY <1>3 DEF Primary
  <2> HIDE DEF r, r2
  <2> QED
    BY <1>2, <2>2, <2>3, GotShape DEF SameShape, Failed
<1>4. CASE Peek(ts, p) = "LIT"
  BY <1>2, <1>4, GotShape DEF Primary, SameShape
<1>5. CASE Peek(ts, p) = "REF"
  <2>1. p \in DOMAIN ts /\ ts[p].k = "REF"
    BY <1>5, PeekShape, ConditionShape
  <2>2. env2[ts[p].ref] # Raises
    BY <2>1 DEF NeverRaises
  <2>3. Primary(ts, env2, p, read2) = Got(env2[ts[p].ref], p + 1)
    BY <1>5, <2>2 DEF Primary
  <2>4. \/ Primary(ts, env, p, read) = Failed("raised")
        \/ Primary(ts, env, p, read) = Got(env[ts[p].ref], p + 1)
    BY <1>5 DEF Primary
  <2> QED
    BY <1>2, <2>3, <2>4, GotShape DEF SameShape
<1>6. CASE Peek(ts, p) \notin {"LP", "LIT", "REF"}
  <2>1. Primary(ts, env, p, read) = Failed("syntax") /\ Primary(ts, env2, p, read2) = Failed("syntax")
    BY <1>6 DEF Primary
  <2> QED
    BY <1>2, <2>1 DEF SameShape
<1> QED
  BY <1>3, <1>4, <1>5, <1>6

LEMMA ReadersAgree ==
    ASSUME NEW refs, NEW ts, Condition(ts, refs), NEW env, NEW env2, NEW read, Reader(ts, env, read),
           NEW read2, Reader(ts, env2, read2), Raises \notin Value, NeverRaises(ts, env2)
    PROVE  SameShape(read[<<"or", 1, Null>>], read2[<<"or", 1, Null>>])
<1> DEFINE P == {c \in Calls(ts) : \A w \in Value : SameShape(read[c], read2[<<c[1], c[2], w>>])}
<1>1. Len(ts) \in Nat
  BY ConditionShape
<1>2. \A rule \in Rules, p \in 1..(Len(ts) + 1), v \in Value :
        <<rule, p, v>> \in P <=> \A w \in Value : SameShape(read[<<rule, p, v>>], read2[<<rule, p, w>>])
  BY DEF Calls
<1> HIDE DEF P
<1>3. ASSUME NEW rule \in Rules, NEW p \in 1..(Len(ts) + 1), NEW v \in Value,
             LaterIn(ts, P, p), HereIn(P, p, Level[rule]), NEW v2 \in Value
      PROVE  SameShape(read[<<rule, p, v>>], read2[<<rule, p, v2>>])
  <2>1. ShapeLater(ts, read, read2, p)
    BY <1>2, <1>3 DEF LaterIn, ShapeLater
  <2>2. \A r2 \in Rules : Level[r2] < Level[rule] =>
            SameShape(read[<<r2, p, Null>>], read2[<<r2, p, Null>>])
    BY <1>2, <1>3, BoolShape DEF HereIn
  <2>3. /\ {"and", "not", "comparison", "primary", "andRest", "orRest"} \subseteq Rules
        /\ Level["primary"] < Level["comparison"] /\ Level["comparison"] < Level["not"]
        /\ Level["not"] < Level["and"] /\ Level["and"] < Level["or"]
    BY DEF Rules, Level
  <2>4. CASE rule = "or"
    <3> DEFINE first == read[<<"and", p, Null>>]
               first2 == read2[<<"and", p, Null>>]
    <3>1. read[<<"or", p, v>>] = Loop("orRest", first, read) /\ Returned(ts, "and", p, first)
      <4>1. read[<<"or", p, v>>] = Loop("orRest", first, read)
        BY ReaderOr
      <4>2. Returned(ts, "and", p, first)
        BY <2>3, BoolShape, ReaderReturns
      <4> QED
        BY <4>1, <4>2
    <3>2. read2[<<"or", p, v2>>] = Loop("orRest", first2, read2) /\ Returned(ts, "and", p, first2)
      <4>1. read2[<<"or", p, v2>>] = Loop("orRest", first2, read2)
        BY ReaderOr
      <4>2. Returned(ts, "and", p, first2)
        BY <2>3, BoolShape, ReaderReturns
      <4> QED
        BY <4>1, <4>2
    <3>3. SameShape(first, first2)
      BY <2>2, <2>3, <2>4
    <3>4. /\ first.err = "none" => first.val \in Value /\ first.pos \in 1..(Len(ts) + 1) /\ first.pos > p
          /\ first2.err = "none" => first2.val \in Value
      BY <1>1, <3>1, <3>2 DEF Returned
    <3> HIDE DEF first, first2
    <3>5. SameShape(Loop("orRest", first, read), Loop("orRest", first2, read2))
      BY <1>1, <2>1, <2>3, <3>3, <3>4, ShapeLoop
    <3> QED
      BY <2>4, <3>1, <3>2, <3>5
  <2>5. CASE rule = "and"
    <3> DEFINE first == read[<<"not", p, Null>>]
               first2 == read2[<<"not", p, Null>>]
    <3>1. read[<<"and", p, v>>] = Loop("andRest", first, read) /\ Returned(ts, "not", p, first)
      <4>1. read[<<"and", p, v>>] = Loop("andRest", first, read)
        BY ReaderAnd
      <4>2. Returned(ts, "not", p, first)
        BY <2>3, BoolShape, ReaderReturns
      <4> QED
        BY <4>1, <4>2
    <3>2. read2[<<"and", p, v2>>] = Loop("andRest", first2, read2) /\ Returned(ts, "not", p, first2)
      <4>1. read2[<<"and", p, v2>>] = Loop("andRest", first2, read2)
        BY ReaderAnd
      <4>2. Returned(ts, "not", p, first2)
        BY <2>3, BoolShape, ReaderReturns
      <4> QED
        BY <4>1, <4>2
    <3>3. SameShape(first, first2)
      BY <2>2, <2>3, <2>5
    <3>4. /\ first.err = "none" => first.val \in Value /\ first.pos \in 1..(Len(ts) + 1) /\ first.pos > p
          /\ first2.err = "none" => first2.val \in Value
      BY <1>1, <3>1, <3>2 DEF Returned
    <3> HIDE DEF first, first2
    <3>5. SameShape(Loop("andRest", first, read), Loop("andRest", first2, read2))
      BY <1>1, <2>1, <2>3, <3>3, <3>4, ShapeLoop
    <3> QED
      BY <2>5, <3>1, <3>2, <3>5
  <2>6. CASE rule = "not"
    <3>1. SameShape(read[<<"comparison", p, Null>>], read2[<<"comparison", p, Null>>])
      BY <2>2, <2>3, <2>6
    <3> QED
      BY <2>1, <2>6, <3>1, ShapeNegation
  <2>7. CASE rule = "comparison"
    <3>1. SameShape(read[<<"primary", p, Null>>], read2[<<"primary", p, Null>>])
      BY <2>2, <2>3, <2>7
    <3> QED
      BY <2>1, <2>7, <3>1, ShapeComparison
  <2>8. CASE rule = "primary"
    BY <2>1, <2>8, ShapePrimary
  <2>9. CASE rule = "orRest"
    BY <2>1, <2>9, ShapeOrRest
  <2>10. CASE rule = "andRest"
    BY <2>1, <2>10, ShapeAndRest
  <2> QED
    BY <2>4, <2>5, <2>6, <2>7, <2>8, <2>9, <2>10 DEF Rules
<1>4. \A rule \in Rules, p \in 1..(Len(ts) + 1), v \in Value :
        LaterIn(ts, P, p) /\ HereIn(P, p, Level[rule]) => <<rule, p, v>> \in P
  BY <1>2, <1>3
<1>5. Calls(ts) \subseteq P
  BY <1>1, <1>4, CallInduction
<1>6. "or" \in Rules /\ 1 \in 1..(Len(ts) + 1) /\ Null \in Value
  BY <1>1, BoolShape DEF Rules
<1>7. <<"or", 1, Null>> \in P
  BY <1>5, <1>6 DEF Calls
<1> QED
  BY <1>2, <1>6, <1>7

\* A condition that parses, as validate_condition_syntax has it when a flow is
\* compiled, is no syntax error later, whatever its references resolve to then:
\* it is evaluated, or a reference raises.
THEOREM ParsedStaysParsed ==
    ASSUME Raises \notin Value, NEW refs, NEW ts \in Seq(Token(refs)), Parses(ts), NEW env,
           \A p \in DOMAIN ts : ts[p].k = "REF" => env[ts[p].ref] \in Value \cup {Raises}
    PROVE  Evaluate(ts, env).err \in {"none", "raised"}
<1> DEFINE env2 == [x \in {ts[p].ref : p \in DOMAIN ts} |-> Null]
<1>1. Condition(ts, refs) /\ Resolves(ts, env)
  BY DEF Condition, Resolves
<1>2. \A p \in DOMAIN ts : env2[ts[p].ref] = Null
  OBVIOUS
<1>3. Evaluate(ts, env2).err = "none"
  BY DEF Parses
<1> HIDE DEF env2
<1>4. NeverRaises(ts, env2) /\ Resolves(ts, env2)
  BY <1>2, BoolShape DEF NeverRaises, Resolves
<1>5. PICK read : Reader(ts, env, read) /\ Reading(ts, env) = read[<<"or", 1, Null>>]
  BY <1>1, ReadingShape
<1>6. PICK read2 : Reader(ts, env2, read2) /\ Reading(ts, env2) = read2[<<"or", 1, Null>>]
  BY <1>1, <1>4, ReadingShape
<1>7. SameShape(Reading(ts, env), Reading(ts, env2))
  BY <1>1, <1>4, <1>5, <1>6, ReadersAgree
<1>8. ts # << >> /\ ~\E p \in DOMAIN ts : ts[p].k \in {"BAD", "ARITH"}
  BY <1>3, GotShape DEF Evaluate
<1>9. Reading(ts, env2).err = "none" /\ Reading(ts, env2).pos = Len(ts) + 1
  BY <1>3, <1>8, GotShape DEF Evaluate
<1>10. CASE Reading(ts, env).err = "raised"
  BY <1>8, <1>10 DEF Evaluate
<1>11. CASE Reading(ts, env).err # "raised"
  <2>1. Reading(ts, env).err = "none" /\ Reading(ts, env).pos = Len(ts) + 1
    BY <1>7, <1>9, <1>11 DEF SameShape
  <2> QED
    BY <1>8, <2>1, GotShape DEF Evaluate
<1> QED
  BY <1>10, <1>11
=============================================================================
