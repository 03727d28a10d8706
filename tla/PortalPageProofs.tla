-------------------------- MODULE PortalPageProofs --------------------------
(***************************************************************************)
(* The accessor of a portal serves every request, at every offset of a     *)
(* payload of any size, and leaves nothing behind at the portals it jumps  *)
(* through.                                                                *)
(*                                                                         *)
(* The code is a tree of loops, built from the sizes of a digit and of a   *)
(* page, and some of its instructions move the pointer to another portal.  *)
(* What a piece of it does is stated as Runs(c, s, t): from state s the    *)
(* code c, whatever follows it, works its way to state t.  A state is the  *)
(* page, the fields of its portal and the payload; the fields of all other *)
(* portals are zero, and a jump is allowed only if it takes along whatever *)
(* is not.                                                                 *)
(***************************************************************************)
EXTENDS PortalPage, CommonLemmas

Byte == 0 .. Base - 1

Put(h, f, x) == [h EXCEPT ![f] = x]

Effect(i, s) ==
    CASE i.op = "add"   -> <<s[1], Put(s[2], i.field, Sum(s[2][i.field], i.by)), s[3]>>
      [] i.op = "clear" -> <<s[1], Put(s[2], i.field, 0), s[3]>>
      [] i.op = "test"  -> <<s[1], Put(Put(s[2], "Scratch1", IF s[2]["Scratch0"] = 0 THEN 1 ELSE 0),
                                       "Scratch2", 0), s[3]>>
      [] i.op = "load"  -> <<s[1], Put(Put(s[2], "Value", s[3][s[1]][i.index]), "Scratch2", 0), s[3]>>
      [] i.op = "store" -> <<s[1], Put(s[2], "Value", 0),
                             [s[3] EXCEPT ![s[1]] = Put(s[3][s[1]], i.index, s[2]["Value"])]>>
      [] i.op = "carry" -> <<s[1] + i.by, s[2], s[3]>>

Allowed(i, s) ==
    \/ i.op \in {"add", "clear"} /\ i.field \in Fields
    \/ i.op \in {"test", "load", "store"}
    \/ /\ i.op = "carry" /\ i.by \in Int /\ i.by # 0 /\ s[1] + i.by \in Pages
       /\ \A f \in Fields \ i.fields : s[2][f] = 0

Running(x) ==
    /\ IsSeq(x[1]) /\ x[1] # <<>>
    /\ Head(x[1]).op = "while" \/ Allowed(Head(x[1]), x[2])

After(x) ==
    IF Head(x[1]).op = "while"
    THEN <<IF x[2][2][Head(x[1]).field] # 0 THEN Head(x[1]).body \o x[1] ELSE Tail(x[1]), x[2]>>
    ELSE <<Tail(x[1]), Effect(Head(x[1]), x[2])>>

Leads(x, y) ==
    \E Z : x \in Z /\ \A z \in Z : z = y \/ (Running(z) /\ After(z) \in Z)

Runs(c, s, t) ==
    /\ IsSeq(c)
    /\ \A w, y : IsSeq(w) /\ Leads(<<w, t>>, y) => Leads(<<c \o w, s>>, y)

-----------------------------------------------------------------------------
LEMMA LeadsSelf == ASSUME NEW x PROVE Leads(x, x)
<1> DEFINE Z == {x}
<1>1. x \in Z /\ \A z \in Z : z = x
  OBVIOUS
<1> HIDE DEF Z
<1> QED
  BY <1>1 DEF Leads

LEMMA LeadsBack ==
    ASSUME NEW x, NEW y, Running(x), Leads(After(x), y)
    PROVE  Leads(x, y)
<1>1. PICK Z : After(x) \in Z /\ \A z \in Z : z = y \/ (Running(z) /\ After(z) \in Z)
  BY DEF Leads
<1> DEFINE Y == Z \cup {x}
<1>2. x \in Y /\ \A z \in Y : z = y \/ (Running(z) /\ After(z) \in Y)
  BY <1>1
<1> HIDE DEF Y
<1> QED
  BY <1>2 DEF Leads

LEMMA LeadsOn ==
    ASSUME NEW x, NEW y, Leads(x, y), x # y
    PROVE  Running(x) /\ Leads(After(x), y)
<1>1. PICK Z : x \in Z /\ \A z \in Z : z = y \/ (Running(z) /\ After(z) \in Z)
  BY DEF Leads
<1> QED
  BY <1>1 DEF Leads

-----------------------------------------------------------------------------
(* How pieces of code are put together. *)
LEMMA Nothing == ASSUME NEW s PROVE Runs(<<>>, s, s)
<1>1. IsSeq(<<>>)
  BY DEF IsSeq
<1>2. ASSUME NEW w, IsSeq(w) PROVE <<>> \o w = w
  BY <1>2, Sequence
<1> QED
  BY <1>1, <1>2 DEF Runs

LEMMA Then ==
    ASSUME NEW c, NEW d, NEW s, NEW t, NEW u, Runs(c, s, t), Runs(d, t, u)
    PROVE  Runs(c \o d, s, u)
<1>1. IsSeq(c) /\ IsSeq(d)
  BY DEF Runs
<1>2. IsSeq(c \o d)
  BY <1>1, Appended
<1>3. ASSUME NEW w, NEW y, IsSeq(w), Leads(<<w, u>>, y)
      PROVE  Leads(<<(c \o d) \o w, s>>, y)
  <2>1. PICK e : e = d \o w /\ IsSeq(e) /\ Leads(<<e, t>>, y)
    <3>1. IsSeq(d \o w)
      BY <1>1, <1>3, Appended
    <3>2. Leads(<<d \o w, t>>, y)
      BY <1>3 DEF Runs
    <3> QED
      BY <3>1, <3>2
  <2>2. Leads(<<c \o e, s>>, y)
    BY <2>1 DEF Runs
  <2>3. (c \o d) \o w = c \o e
    BY <1>1, <1>3, <2>1, Assoc
  <2> QED
    BY <2>2, <2>3
<1> QED
  BY <1>2, <1>3 DEF Runs

LEMMA One ==
    ASSUME NEW i, NEW s, i.op # "while", Allowed(i, s)
    PROVE  Runs(<<i>>, s, Effect(i, s))
<1>1. IsSeq(<<i>>)
  <2>1. IsSeq(<<>>)
    BY DEF IsSeq
  <2> QED
    BY <2>1, Cons
<1>2. ASSUME NEW w, NEW y, IsSeq(w), Leads(<<w, Effect(i, s)>>, y)
      PROVE  Leads(<<<<i>> \o w, s>>, y)
  <2>1. PICK v : v = <<i>> \o w /\ IsSeq(v) /\ v # <<>> /\ Head(v) = i /\ Tail(v) = w
    BY <1>2, Cons
  <2>2. PICK x : x = <<v, s>> /\ x[1] = v /\ x[2] = s
    <3>1. <<v, s>>[1] = v /\ <<v, s>>[2] = s
      OBVIOUS
    <3> QED
      BY <3>1
  <2>3. Running(x)
    BY <2>1, <2>2 DEF Running
  <2>4. After(x) = <<w, Effect(i, s)>>
    BY <2>1, <2>2 DEF After
  <2>5. Leads(x, y)
    BY <1>2, <2>3, <2>4, LeadsBack
  <2> QED
    BY <2>1, <2>2, <2>5
<1> QED
  BY <1>1, <1>2 DEF Runs

LEMMA LoopCode ==
    ASSUME NEW f, NEW body
    PROVE  /\ IsSeq(<<While(f, body)>>)
           /\ While(f, body).op = "while" /\ While(f, body).field = f /\ While(f, body).body = body
<1>1. IsSeq(<<>>)
  BY DEF IsSeq
<1>2. IsSeq(<<While(f, body)>>)
  BY <1>1, Cons
<1> QED
  BY <1>2 DEF While

LEMMA Skip ==
    ASSUME NEW f, NEW body, NEW s, s[2][f] = 0
    PROVE  Runs(<<While(f, body)>>, s, s)
<1>1. PICK i : i = While(f, body) /\ IsSeq(<<i>>) /\ i.op = "while" /\ i.field = f /\ i.body = body
  BY LoopCode
<1>2. ASSUME NEW w, NEW y, IsSeq(w), Leads(<<w, s>>, y)
      PROVE  Leads(<<<<i>> \o w, s>>, y)
  <2>1. PICK v : v = <<i>> \o w /\ IsSeq(v) /\ v # <<>> /\ Head(v) = i /\ Tail(v) = w
    BY <1>2, Cons
  <2>2. PICK x : x = <<v, s>> /\ x[1] = v /\ x[2] = s
    <3>1. <<v, s>>[1] = v /\ <<v, s>>[2] = s
      OBVIOUS
    <3> QED
      BY <3>1
  <2>3. Running(x)
    BY <1>1, <2>1, <2>2 DEF Running
  <2>4. After(x) = <<w, s>>
    BY <1>1, <2>1, <2>2 DEF After
  <2>5. Leads(x, y)
    BY <1>2, <2>3, <2>4, LeadsBack
  <2> QED
    BY <2>1, <2>2, <2>5
<1> QED
  BY <1>1, <1>2 DEF Runs

LEMMA Again ==
    ASSUME NEW f, NEW body, NEW s, s[2][f] # 0, NEW t, NEW u,
           Runs(body, s, t), Runs(<<While(f, body)>>, t, u)
    PROVE  Runs(<<While(f, body)>>, s, u)
<1>1. PICK i : i = While(f, body) /\ IsSeq(<<i>>) /\ i.op = "while" /\ i.field = f /\ i.body = body
  BY LoopCode
<1>2. ASSUME NEW w, NEW y, IsSeq(w), Leads(<<w, u>>, y)
      PROVE  Leads(<<<<i>> \o w, s>>, y)
  <2>1. PICK v : v = <<i>> \o w /\ IsSeq(v) /\ v # <<>> /\ Head(v) = i /\ Tail(v) = w
    BY <1>2, Cons
  <2>2. PICK x : x = <<v, s>> /\ x[1] = v /\ x[2] = s
    <3>1. <<v, s>>[1] = v /\ <<v, s>>[2] = s
      OBVIOUS
    <3> QED
      BY <3>1
  <2>3. Running(x)
    BY <1>1, <2>1, <2>2 DEF Running
  <2>4. After(x) = <<body \o v, s>>
    BY <1>1, <2>1, <2>2 DEF After
  <2>5. Leads(<<v, t>>, y)
    BY <1>1, <1>2, <2>1 DEF Runs
  <2>6. Leads(<<body \o v, s>>, y)
    BY <2>1, <2>5 DEF Runs
  <2>7. Leads(x, y)
    BY <2>3, <2>4, <2>6, LeadsBack
  <2> QED
    BY <2>1, <2>2, <2>7
<1> QED
  BY <1>1, <1>2 DEF Runs

(* A bracket that is open, around code that leaves it closed. *)
LEMMA Once ==
    ASSUME NEW f, NEW body, NEW s, s[2][f] # 0, NEW t, Runs(body, s, t), t[2][f] = 0
    PROVE  Runs(<<While(f, body)>>, s, t)
BY Again, Skip

LEMMA Three ==
    ASSUME NEW a, NEW b, NEW c
    PROVE  <<a, b, c>> = <<a>> \o <<b, c>>
<1> DEFINE S == {a, b, c}
<1>1. PICK u \in Seq(S) : u = <<a>> \o <<b, c>> /\ Len(u) = 3 /\ u[1] = a /\ u[2] = b /\ u[3] = c
  <2>1. PICK x \in Seq(S), y \in Seq(S) : x = <<a>> /\ y = <<b, c>> /\ Len(x) = 1 /\ Len(y) = 2
                                          /\ x[1] = a /\ y[1] = b /\ y[2] = c
    <3>1. <<a>> \in Seq(S) /\ <<b, c>> \in Seq(S)
      OBVIOUS
    <3> QED
      BY <3>1
  <2>2. x \o y \in Seq(S) /\ Len(x \o y) = 3 /\ (x \o y)[1] = a /\ (x \o y)[2] = b /\ (x \o y)[3] = c
    BY <2>1
  <2> QED
    BY <2>1, <2>2
<1>2. PICK v \in Seq(S) : v = <<a, b, c>> /\ Len(v) = 3 /\ v[1] = a /\ v[2] = b /\ v[3] = c
  <2>1. <<a, b, c>> \in Seq(S)
    OBVIOUS
  <2> QED
    BY <2>1
<1>3. \A j \in 1 .. 3 : u[j] = v[j]
  BY <1>1, <1>2
<1>4. u = v
  BY <1>1, <1>2, <1>3, SeqEqual
<1> QED
  BY <1>1, <1>2, <1>4

LEMMA Four ==
    ASSUME NEW a, NEW b, NEW c, NEW d
    PROVE  <<a, b, c, d>> = <<a>> \o <<b, c, d>>
<1> DEFINE S == {a, b, c, d}
<1>1. PICK u \in Seq(S) : u = <<a>> \o <<b, c, d>> /\ Len(u) = 4
                          /\ u[1] = a /\ u[2] = b /\ u[3] = c /\ u[4] = d
  <2>1. PICK x \in Seq(S), y \in Seq(S) : x = <<a>> /\ y = <<b, c, d>> /\ Len(x) = 1 /\ Len(y) = 3
                                          /\ x[1] = a /\ y[1] = b /\ y[2] = c /\ y[3] = d
    <3>1. <<a>> \in Seq(S) /\ <<b, c, d>> \in Seq(S)
      OBVIOUS
    <3> QED
      BY <3>1
  <2>2. x \o y \in Seq(S) /\ Len(x \o y) = 4
        /\ (x \o y)[1] = a /\ (x \o y)[2] = b /\ (x \o y)[3] = c /\ (x \o y)[4] = d
    BY <2>1
  <2> QED
    BY <2>1, <2>2
<1>2. PICK v \in Seq(S) : v = <<a, b, c, d>> /\ Len(v) = 4
                          /\ v[1] = a /\ v[2] = b /\ v[3] = c /\ v[4] = d
  <2>1. <<a, b, c, d>> \in Seq(S)
    OBVIOUS
  <2> QED
    BY <2>1
<1>3. \A j \in 1 .. 4 : u[j] = v[j]
  BY <1>1, <1>2
<1>4. u = v
  BY <1>1, <1>2, <1>3, SeqEqual
<1> QED
  BY <1>1, <1>2, <1>4

(* Two, three or four instructions in a row. *)
LEMMA Two ==
    ASSUME NEW i, NEW j, NEW s, NEW t, NEW u, Runs(<<i>>, s, t), Runs(<<j>>, t, u)
    PROVE  Runs(<<i, j>>, s, u)
<1>1. Runs(<<i>> \o <<j>>, s, u)
  BY Then
<1>2. <<i, j>> = <<i>> \o <<j>>
  BY Couple
<1> QED
  BY <1>1, <1>2

LEMMA InThree ==
    ASSUME NEW i, NEW j, NEW k, NEW s, NEW t, NEW u, NEW v,
           Runs(<<i>>, s, t), Runs(<<j>>, t, u), Runs(<<k>>, u, v)
    PROVE  Runs(<<i, j, k>>, s, v)
<1>1. Runs(<<j, k>>, t, v)
  BY Two
<1>2. Runs(<<i>> \o <<j, k>>, s, v)
  BY <1>1, Then
<1> QED
  BY <1>2, Three

LEMMA InFour ==
    ASSUME NEW i, NEW j, NEW k, NEW l, NEW s, NEW t, NEW u, NEW v, NEW w,
           Runs(<<i>>, s, t), Runs(<<j>>, t, u), Runs(<<k>>, u, v), Runs(<<l>>, v, w)
    PROVE  Runs(<<i, j, k, l>>, s, w)
<1>1. Runs(<<j, k, l>>, t, w)
  BY InThree
<1>2. Runs(<<i>> \o <<j, k, l>>, s, w)
  BY <1>1, Then
<1> QED
  BY <1>2, Four

-----------------------------------------------------------------------------
(* Fields of a portal, one of them changed. *)
IsFields(h) == h = [f \in Fields |-> h[f]]

LEMMA PutFacts ==
    ASSUME NEW h, IsFields(h), NEW f \in Fields, NEW x
    PROVE  /\ IsFields(Put(h, f, x)) /\ Put(h, f, x)[f] = x
           /\ \A g : g # f => Put(h, f, x)[g] = h[g]
<1>1. DOMAIN h = Fields
  BY DEF IsFields
<1>2. DOMAIN Put(h, f, x) = Fields /\ Put(h, f, x)[f] = x
  BY <1>1 DEF Put
<1>3. \A g \in Fields : g # f => Put(h, f, x)[g] = h[g]
  BY <1>1 DEF Put
<1> QED
  BY <1>1, <1>2, <1>3 DEF IsFields, Put

LEMMA SameFields ==
    ASSUME NEW h, NEW k, IsFields(h), IsFields(k), \A f \in Fields : h[f] = k[f]
    PROVE  h = k
<1>1. [f \in Fields |-> h[f]] = [f \in Fields |-> k[f]]
  OBVIOUS
<1> QED
  BY <1>1 DEF IsFields

LEMMA PutTwice ==
    ASSUME NEW h, IsFields(h), NEW f \in Fields, NEW x, NEW y
    PROVE  Put(Put(h, f, x), f, y) = Put(h, f, y)
<1>1. PICK k : k = Put(h, f, x) /\ IsFields(k) /\ \A g : g # f => k[g] = h[g]
  BY PutFacts
<1>2. IsFields(Put(k, f, y)) /\ Put(k, f, y)[f] = y /\ \A g : g # f => Put(k, f, y)[g] = k[g]
  BY <1>1, PutFacts
<1>3. IsFields(Put(h, f, y)) /\ Put(h, f, y)[f] = y /\ \A g : g # f => Put(h, f, y)[g] = h[g]
  BY PutFacts
<1>4. Put(k, f, y) = Put(h, f, y)
  BY <1>1, <1>2, <1>3, SameFields
<1> QED
  BY <1>1, <1>4

LEMMA PutSame ==
    ASSUME NEW h, IsFields(h), NEW f \in Fields
    PROVE  Put(h, f, h[f]) = h
BY DEF Put, IsFields

LEMMA PutSwap ==
    ASSUME NEW h, IsFields(h), NEW f \in Fields, NEW g \in Fields, f # g, NEW x, NEW y
    PROVE  Put(Put(h, f, x), g, y) = Put(Put(h, g, y), f, x)
<1>1. PICK k : k = Put(h, f, x) /\ IsFields(k) /\ k[f] = x /\ \A e : e # f => k[e] = h[e]
  BY PutFacts
<1>2. PICK j : j = Put(h, g, y) /\ IsFields(j) /\ j[g] = y /\ \A e : e # g => j[e] = h[e]
  BY PutFacts
<1>3. IsFields(Put(k, g, y)) /\ Put(k, g, y)[g] = y /\ \A e : e # g => Put(k, g, y)[e] = k[e]
  BY <1>1, PutFacts
<1>4. IsFields(Put(j, f, x)) /\ Put(j, f, x)[f] = x /\ \A e : e # f => Put(j, f, x)[e] = j[e]
  BY <1>2, PutFacts
<1>5. Put(k, g, y) = Put(j, f, x)
  BY <1>1, <1>2, <1>3, <1>4, SameFields
<1> QED
  BY <1>1, <1>2, <1>5

-----------------------------------------------------------------------------
(* Cells wrap, but not where a countdown is right. *)
LEMMA Square ==
    ASSUME NEW w \in Nat, w >= 2
    PROVE  w * w \in Nat /\ w * w >= 2 * w
<1>1. PICK d \in Nat : w = 2 + d
  <2>1. w - 2 \in Nat /\ w = 2 + (w - 2)
    OBVIOUS
  <2> QED
    BY <2>1
<1>2. w * w = w * 2 + w * d /\ w * d \in Nat /\ w * 2 = 2 * w
  BY <1>1
<1> QED
  BY <1>2

LEMMA BaseFacts ==
    /\ Digit \in Nat /\ Digit >= 2 /\ Base \in Nat /\ Base >= 2 * Digit
    /\ 0 \in Byte /\ 1 \in Byte /\ Pages = Byte
<1>1. Digit \in Nat /\ Digit >= 2
  BY PortalPageAssumption
<1>2. Digit * Digit \in Nat /\ Digit * Digit >= 2 * Digit
  BY <1>1, Square
<1> QED
  BY <1>1, <1>2 DEF Base, Byte, Pages

LEMMA Sums ==
    ASSUME NEW v \in Byte
    PROVE  /\ v > 0 => Sum(v, -1) = v - 1 /\ v - 1 \in Byte
           /\ Sum(0, v) = v
<1>1. ASSUME NEW n \in Byte PROVE n % Base = n
  <2>1. (Base * 0 + n) % Base = n
    BY BaseFacts, DigitsOf DEF Byte
  <2>2. Base * 0 + n = n
    BY BaseFacts DEF Byte
  <2> QED
    BY <2>1, <2>2
<1>2. v > 0 => v - 1 \in Byte /\ v + (-1) = v - 1
  BY BaseFacts DEF Byte
<1>3. 0 + v = v
  BY BaseFacts DEF Byte
<1> QED
  BY <1>1, <1>2, <1>3 DEF Sum

-----------------------------------------------------------------------------
(* What the instructions do. *)
LEMMA DoAdd ==
    ASSUME NEW a, NEW h, NEW p, NEW f \in Fields, NEW k
    PROVE  Runs(<<Add(f, k)>>, <<a, h, p>>, <<a, Put(h, f, Sum(h[f], k)), p>>)
<1>1. PICK i : i = Add(f, k) /\ i.op = "add" /\ i.field = f /\ i.by = k
  <2>1. Add(f, k).op = "add" /\ Add(f, k).field = f /\ Add(f, k).by = k
    BY DEF Add
  <2> QED
    BY <2>1
<1>2. PICK s : s = <<a, h, p>> /\ s[1] = a /\ s[2] = h /\ s[3] = p
  <2>1. <<a, h, p>>[1] = a /\ <<a, h, p>>[2] = h /\ <<a, h, p>>[3] = p
    OBVIOUS
  <2> QED
    BY <2>1
<1>3. Runs(<<i>>, s, Effect(i, s))
  BY <1>1, One DEF Allowed
<1>4. Effect(i, s) = <<a, Put(h, f, Sum(h[f], k)), p>>
  BY <1>1, <1>2 DEF Effect
<1> QED
  BY <1>1, <1>2, <1>3, <1>4

LEMMA DoClear ==
    ASSUME NEW a, NEW h, NEW p, NEW f \in Fields
    PROVE  Runs(<<Clear(f)>>, <<a, h, p>>, <<a, Put(h, f, 0), p>>)
<1>1. PICK i : i = Clear(f) /\ i.op = "clear" /\ i.field = f
  <2>1. Clear(f).op = "clear" /\ Clear(f).field = f
    BY DEF Clear
  <2> QED
    BY <2>1
<1>2. PICK s : s = <<a, h, p>> /\ s[1] = a /\ s[2] = h /\ s[3] = p
  <2>1. <<a, h, p>>[1] = a /\ <<a, h, p>>[2] = h /\ <<a, h, p>>[3] = p
    OBVIOUS
  <2> QED
    BY <2>1
<1>3. Runs(<<i>>, s, Effect(i, s))
  BY <1>1, One DEF Allowed
<1>4. Effect(i, s) = <<a, Put(h, f, 0), p>>
  BY <1>1, <1>2 DEF Effect
<1> QED
  BY <1>1, <1>2, <1>3, <1>4

LEMMA DoTest ==
    ASSUME NEW a, NEW h, NEW p
    PROVE  Runs(<<ZeroTest>>, <<a, h, p>>,
                <<a, Put(Put(h, "Scratch1", IF h["Scratch0"] = 0 THEN 1 ELSE 0), "Scratch2", 0), p>>)
<1>1. PICK i : i = ZeroTest /\ i.op = "test"
  <2>1. ZeroTest.op = "test"
    BY DEF ZeroTest
  <2> QED
    BY <2>1
<1>2. PICK s : s = <<a, h, p>> /\ s[1] = a /\ s[2] = h /\ s[3] = p
  <2>1. <<a, h, p>>[1] = a /\ <<a, h, p>>[2] = h /\ <<a, h, p>>[3] = p
    OBVIOUS
  <2> QED
    BY <2>1
<1>3. Runs(<<i>>, s, Effect(i, s))
  BY <1>1, One DEF Allowed
<1>4. Effect(i, s) = <<a, Put(Put(h, "Scratch1", IF h["Scratch0"] = 0 THEN 1 ELSE 0), "Scratch2", 0), p>>
  BY <1>1, <1>2 DEF Effect
<1> QED
  BY <1>1, <1>2, <1>3, <1>4

LEMMA DoLoad ==
    ASSUME NEW a, NEW h, NEW p, NEW n
    PROVE  Runs(<<Payload("load", n)>>, <<a, h, p>>,
                <<a, Put(Put(h, "Value", p[a][n]), "Scratch2", 0), p>>)
<1>1. PICK i : i = Payload("load", n) /\ i.op = "load" /\ i.index = n
  <2>1. Payload("load", n).op = "load" /\ Payload("load", n).index = n
    BY DEF Payload
  <2> QED
    BY <2>1
<1>2. PICK s : s = <<a, h, p>> /\ s[1] = a /\ s[2] = h /\ s[3] = p
  <2>1. <<a, h, p>>[1] = a /\ <<a, h, p>>[2] = h /\ <<a, h, p>>[3] = p
    OBVIOUS
  <2> QED
    BY <2>1
<1>3. Runs(<<i>>, s, Effect(i, s))
  BY <1>1, One DEF Allowed
<1>4. Effect(i, s) = <<a, Put(Put(h, "Value", p[a][n]), "Scratch2", 0), p>>
  BY <1>1, <1>2 DEF Effect
<1> QED
  BY <1>1, <1>2, <1>3, <1>4

LEMMA DoStore ==
    ASSUME NEW a, NEW h, NEW p, NEW n
    PROVE  Runs(<<Payload("store", n)>>, <<a, h, p>>,
                <<a, Put(h, "Value", 0), [p EXCEPT ![a] = Put(p[a], n, h["Value"])]>>)
<1>1. PICK i : i = Payload("store", n) /\ i.op = "store" /\ i.index = n
  <2>1. Payload("store", n).op = "store" /\ Payload("store", n).index = n
    BY DEF Payload
  <2> QED
    BY <2>1
<1>2. PICK s : s = <<a, h, p>> /\ s[1] = a /\ s[2] = h /\ s[3] = p
  <2>1. <<a, h, p>>[1] = a /\ <<a, h, p>>[2] = h /\ <<a, h, p>>[3] = p
    OBVIOUS
  <2> QED
    BY <2>1
<1>3. Runs(<<i>>, s, Effect(i, s))
  BY <1>1, One DEF Allowed
<1>4. Effect(i, s) = <<a, Put(h, "Value", 0), [p EXCEPT ![a] = Put(p[a], n, h["Value"])]>>
  BY <1>1, <1>2 DEF Effect
<1> QED
  BY <1>1, <1>2, <1>3, <1>4

LEMMA DoCarry ==
    ASSUME NEW a, NEW h, NEW p, NEW fields, NEW d \in Int, d # 0, a + d \in Pages,
           \A f \in Fields \ fields : h[f] = 0
    PROVE  Runs(<<Carry(fields, d)>>, <<a, h, p>>, <<a + d, h, p>>)
<1>1. PICK i : i = Carry(fields, d) /\ i.op = "carry" /\ i.fields = fields /\ i.by = d
  <2>1. Carry(fields, d).op = "carry" /\ Carry(fields, d).fields = fields /\ Carry(fields, d).by = d
    BY DEF Carry
  <2> QED
    BY <2>1
<1>2. PICK s : s = <<a, h, p>> /\ s[1] = a /\ s[2] = h /\ s[3] = p
  <2>1. <<a, h, p>>[1] = a /\ <<a, h, p>>[2] = h /\ <<a, h, p>>[3] = p
    OBVIOUS
  <2> QED
    BY <2>1
<1>3. Runs(<<i>>, s, Effect(i, s))
  BY <1>1, <1>2, One DEF Allowed
<1>4. Effect(i, s) = <<a + d, h, p>>
  BY <1>1, <1>2 DEF Effect
<1> QED
  BY <1>1, <1>2, <1>3, <1>4


-----------------------------------------------------------------------------
(* Set, and the bracket of a selected case. *)
LEMMA SetTo ==
    ASSUME NEW a, NEW h, IsFields(h), NEW p, NEW f \in Fields, NEW k \in Byte
    PROVE  Runs(Set(f, k), <<a, h, p>>, <<a, Put(h, f, k), p>>)
<1>1. PICK g : g = Put(h, f, 0) /\ IsFields(g) /\ g[f] = 0
  BY PutFacts
<1>2. Runs(<<Clear(f)>>, <<a, h, p>>, <<a, g, p>>)
  BY <1>1, DoClear
<1>3. Put(g, f, Sum(g[f], k)) = Put(h, f, k)
  BY <1>1, PutTwice, Sums
<1>4. Runs(<<Add(f, k)>>, <<a, g, p>>, <<a, Put(h, f, k), p>>)
  BY <1>3, DoAdd
<1> QED
  BY <1>2, <1>4, Two DEF Set

LEMMA GateShut ==
    ASSUME NEW body, NEW a, NEW h, NEW p, h["Branch"] = 0
    PROVE  Runs(Gate(body), <<a, h, p>>, <<a, h, p>>)
<1>1. <<a, h, p>>[2]["Branch"] = 0
  OBVIOUS
<1> QED
  BY <1>1, Skip DEF Gate

LEMMA GateOpen ==
    ASSUME NEW body, NEW a, NEW h, IsFields(h), NEW p, h["Branch"] = 1, NEW t,
           Runs(body, <<a, Put(h, "Branch", 0), p>>, t), t[2]["Branch"] = 0
    PROVE  Runs(Gate(body), <<a, h, p>>, t)
<1>1. "Branch" \in Fields
  BY DEF Fields
<1>2. Sum(1, -1) = 0
  BY BaseFacts, Sums
<1>3. Runs(<<Add("Branch", -1)>>, <<a, h, p>>, <<a, Put(h, "Branch", 0), p>>)
  BY <1>1, <1>2, DoAdd
<1>4. Runs(<<Add("Branch", -1)>> \o body, <<a, h, p>>, t)
  BY <1>3, Then
<1>5. <<a, h, p>>[2]["Branch"] # 0
  OBVIOUS
<1> QED
  BY <1>4, <1>5, Once DEF Gate


-----------------------------------------------------------------------------
(* The levels of a countdown, from the innermost one out.  The recursive   *)
(* function of its definition exists: were there a least number of levels  *)
(* without one, the function for one level less could be extended.         *)
Level(f, last, beyond, case, g, l) ==
    (IF l = last THEN beyond ELSE <<While(f, <<Add(f, -1)>> \o g[l + 1])>>) \o Gate(case[l])

IsLevels(f, last, beyond, case, g) ==
    \A l \in 0 .. last : g[l] = Level(f, last, beyond, case, g, l)

HasLevels(f, last, beyond, case, g) ==
    /\ IsLevels(f, last, beyond, case, g)
    /\ Countdown(f, last, beyond, case) = Set("Branch", 1) \o g[0]

LEMMA CountdownLevels ==
    ASSUME NEW f, NEW last \in Nat, NEW beyond, NEW case
    PROVE  \E g : HasLevels(f, last, beyond, case, g)
<1> DEFINE L(g, l) == Level(f, last, beyond, case, g, l)
           Has(n) == \E g : g = [l \in last - n .. last |-> L(g, l)]
           Bad == {n \in 0 .. last : ~Has(n)}
<1>1. \A g, h, l : g[l + 1] = h[l + 1] => L(g, l) = L(h, l)
  BY DEF Level
<1>2. \A g, h : L(g, last) = L(h, last)
  BY DEF Level
<1> HIDE DEF L
<1>3. Has(0)
  <2> DEFINE g == [l \in last - 0 .. last |-> L(<<>>, last)]
  <2>1. last - 0 .. last = {last}
    OBVIOUS
  <2>2. \A l \in last - 0 .. last : L(<<>>, last) = L(g, l)
    BY <1>2, <2>1
  <2>3. g = [l \in last - 0 .. last |-> L(g, l)]
    BY <2>2
  <2> QED
    BY <2>3
<1>4. Bad = {}
  <2> SUFFICES ASSUME Bad # {} PROVE FALSE
    OBVIOUS
  <2>1. PICK n \in 0 .. last : ~Has(n) /\ \A m \in Bad : n <= m
    <3>1. Bad \subseteq Nat
      OBVIOUS
    <3>2. Min(Bad) \in Bad /\ \A m \in Bad : Min(Bad) <= m
      BY <3>1, NaturalsHaveMin
    <3> QED
      BY <3>2
  <2>2. n # 0
    BY <1>3, <2>1
  <2>3. n - 1 \in 0 .. last /\ ~(n <= n - 1)
    BY <2>2
  <2>4. Has(n - 1)
    BY <2>1, <2>3
  <2>5. PICK g : g = [l \in last - (n - 1) .. last |-> L(g, l)]
    BY <2>4
  <2> DEFINE h == [l \in last - n .. last |-> IF l = last - n THEN L(g, l) ELSE g[l]]
  <2>6. ASSUME NEW l \in last - n .. last PROVE h[l] = L(h, l)
    <3>1. CASE l = last
      <4>1. last - n # last /\ last \in last - (n - 1) .. last
        BY <2>2, <2>3
      <4>2. h[l] = g[last] /\ g[last] = L(g, last)
        BY <2>5, <3>1, <4>1
      <4> QED
        BY <1>2, <3>1, <4>2
    <3>2. CASE l # last
      <4>1. l + 1 \in last - n .. last /\ l + 1 # last - n
        BY <3>2
      <4>2. h[l + 1] = g[l + 1]
        BY <4>1
      <4>3. L(g, l) = L(h, l)
        BY <1>1, <4>2
      <4>4. CASE l = last - n
        BY <4>3, <4>4
      <4>5. CASE l # last - n
        <5>1. l \in last - (n - 1) .. last
          BY <4>5
        <5>2. h[l] = g[l] /\ g[l] = L(g, l)
          BY <2>5, <4>5, <5>1
        <5> QED
          BY <4>3, <5>2
      <4> QED
        BY <4>4, <4>5
    <3> QED
      BY <3>1, <3>2
  <2>7. h = [l \in last - n .. last |-> L(h, l)]
    BY <2>6
  <2> QED
    BY <2>1, <2>7
<1>5. \E g : g = [l \in 0 .. last |-> L(g, l)]
  <2>1. last \in 0 .. last /\ last - last = 0
    OBVIOUS
  <2>2. Has(last)
    BY <1>4, <2>1
  <2> QED
    BY <2>1, <2>2
<1> DEFINE h == CHOOSE g : g = [l \in 0 .. last |-> L(g, l)]
<1>6. h = [l \in 0 .. last |-> L(h, l)]
  BY <1>5
<1>7. Countdown(f, last, beyond, case) = Set("Branch", 1) \o h[0]
  BY DEF Countdown, Level, L
<1> HIDE DEF h
<1>8. \A l \in 0 .. last : h[l] = L(h, l)
  BY <1>6
<1> QED
  BY <1>7, <1>8 DEF HasLevels, IsLevels, L


(* On the way in, every level takes one from the field; on the way out,    *)
(* field and Branch are zero, so the brackets and loops passed stay shut.  *)
Settled(t, f) == \E a, h, p : t = <<a, h, p>> /\ h[f] = 0 /\ h["Branch"] = 0

LEMMA Descend ==
    ASSUME NEW f \in Fields, f # "Branch", NEW last \in Nat, NEW beyond, NEW case, NEW g,
           IsLevels(f, last, beyond, case, g),
           NEW a, NEW h, IsFields(h), NEW p, NEW n \in Byte, NEW t, Settled(t, f),
           NEW m \in 0 .. last, m <= n,
           Runs(g[m], <<a, Put(h, f, n - m), p>>, t)
    PROVE  Runs(g[0], <<a, Put(h, f, n), p>>, t)
<1> DEFINE Fine(l) == Runs(g[l], <<a, Put(h, f, n - l), p>>, t)
           Good == {l \in 0 .. m : Fine(l)}
<1>1. m \in Good /\ Good \subseteq Nat
  OBVIOUS
<1>2. PICK l \in Good : \A k \in Good : l <= k
  <2>1. Min(Good) \in Good /\ \A k \in Good : Min(Good) <= k
    BY <1>1, NaturalsHaveMin
  <2> QED
    BY <2>1
<1>3. ASSUME l # 0 PROVE l - 1 \in Good
  <2>1. PICK i \in 0 .. last : i = l - 1 /\ i + 1 = l /\ i # last /\ i \in 0 .. m
    <3>1. l - 1 \in 0 .. last /\ (l - 1) + 1 = l /\ l - 1 # last /\ l - 1 \in 0 .. m
      BY <1>2, <1>3
    <3> QED
      BY <3>1
  <2>2. g[i] = <<While(f, <<Add(f, -1)>> \o g[l])>> \o Gate(case[i])
    BY <2>1 DEF IsLevels, Level
  <2>3. PICK v \in Byte : v = n - i /\ v > 0 /\ v - 1 = n - l /\ Sum(v, -1) = n - l
    <3>1. n - i \in Byte /\ n - i > 0 /\ (n - i) - 1 = n - l
      BY <2>1, BaseFacts DEF Byte
    <3>2. Sum(n - i, -1) = (n - i) - 1
      BY <3>1, Sums
    <3> QED
      BY <3>1, <3>2
  <2>4. PICK k : k = Put(h, f, v) /\ IsFields(k) /\ k[f] = v
    BY PutFacts
  <2>5. Runs(<<Add(f, -1)>>, <<a, k, p>>, <<a, Put(k, f, n - l), p>>)
    BY <2>3, <2>4, DoAdd
  <2>6. Put(k, f, n - l) = Put(h, f, n - l)
    BY <2>4, PutTwice
  <2>7. Runs(g[l], <<a, Put(h, f, n - l), p>>, t)
    BY <1>2
  <2>8. Runs(<<Add(f, -1)>> \o g[l], <<a, k, p>>, t)
    BY <2>5, <2>6, <2>7, Then
  <2>9. PICK ta, th, tp : t = <<ta, th, tp>> /\ th[f] = 0 /\ th["Branch"] = 0 /\ t[2][f] = 0
    <3>1. PICK ta, th, tp : t = <<ta, th, tp>> /\ th[f] = 0 /\ th["Branch"] = 0
      BY DEF Settled
    <3>2. t[2][f] = 0
      BY <3>1
    <3> QED
      BY <3>1, <3>2
  <2>10. <<a, k, p>>[2][f] # 0
    BY <2>3, <2>4
  <2>11. Runs(<<While(f, <<Add(f, -1)>> \o g[l])>>, <<a, k, p>>, t)
    BY <2>8, <2>9, <2>10, Once
  <2>12. Runs(Gate(case[i]), t, t)
    BY <2>9, GateShut
  <2>13. Runs(g[i], <<a, k, p>>, t)
    BY <2>2, <2>11, <2>12, Then
  <2> QED
    BY <2>1, <2>3, <2>4, <2>13
<1>4. l = 0
  <2>1. l - 1 >= l \/ l = 0
    BY <1>2, <1>3
  <2>2. l \in Nat
    BY <1>1, <1>2
  <2> QED
    BY <2>1, <2>2
<1>5. n - 0 = n
  BY BaseFacts DEF Byte
<1> QED
  BY <1>2, <1>4, <1>5


LEMMA CountdownBeyond ==
    ASSUME NEW f \in Fields, f # "Branch", NEW last \in Nat, NEW beyond, NEW case,
           NEW a, NEW h, IsFields(h), NEW p, NEW n \in Byte, h[f] = n, last <= n,
           NEW u, Runs(beyond, <<a, Put(Put(h, f, n - last), "Branch", 1), p>>, u),
           NEW t, Runs(Gate(case[last]), u, t), Settled(t, f)
    PROVE  Runs(Countdown(f, last, beyond, case), <<a, h, p>>, t)
<1>1. PICK g : HasLevels(f, last, beyond, case, g)
  BY CountdownLevels
<1>2. "Branch" \in Fields /\ 1 \in Byte
  BY BaseFacts DEF Fields
<1>3. PICK k : k = Put(h, "Branch", 1) /\ IsFields(k) /\ k[f] = n
  BY <1>2, PutFacts
<1>4. Runs(Set("Branch", 1), <<a, h, p>>, <<a, k, p>>)
  BY <1>2, <1>3, SetTo
<1>5. Put(k, f, n - last) = Put(Put(h, f, n - last), "Branch", 1)
  BY <1>2, <1>3, PutSwap
<1>6. g[last] = beyond \o Gate(case[last])
  <2>1. last \in 0 .. last
    OBVIOUS
  <2>2. g[last] = Level(f, last, beyond, case, g, last)
    BY <1>1, <2>1 DEF HasLevels, IsLevels
  <2> QED
    BY <2>2 DEF Level
<1>7. Runs(g[last], <<a, Put(k, f, n - last), p>>, t)
  BY <1>5, <1>6, Then
<1>8. last \in 0 .. last
  OBVIOUS
<1>9. Runs(g[0], <<a, Put(k, f, n), p>>, t)
  BY <1>1, <1>3, <1>7, <1>8, Descend DEF HasLevels
<1>10. Put(k, f, n) = k
  BY <1>3, PutSame
<1> QED
  BY <1>1, <1>4, <1>9, <1>10, Then DEF HasLevels

LEMMA CountdownHits ==
    ASSUME NEW f \in Fields, f # "Branch", NEW last \in Nat, NEW beyond, NEW case,
           NEW a, NEW h, IsFields(h), NEW p, NEW n \in Byte, h[f] = n, n <= last,
           n = last => Runs(beyond, <<a, Put(Put(h, f, 0), "Branch", 1), p>>,
                                    <<a, Put(Put(h, f, 0), "Branch", 1), p>>),
           NEW t, Runs(case[n], <<a, Put(Put(h, f, 0), "Branch", 0), p>>, t), Settled(t, f)
    PROVE  Runs(Countdown(f, last, beyond, case), <<a, h, p>>, t)
<1>1. PICK g : HasLevels(f, last, beyond, case, g)
  BY CountdownLevels
<1>2. "Branch" \in Fields /\ 1 \in Byte
  BY BaseFacts DEF Fields
<1>3. PICK k : k = Put(h, "Branch", 1) /\ IsFields(k) /\ k[f] = n
  BY <1>2, PutFacts
<1>4. Runs(Set("Branch", 1), <<a, h, p>>, <<a, k, p>>)
  BY <1>2, <1>3, SetTo
<1>5. PICK q : q = Put(k, f, 0) /\ IsFields(q) /\ q[f] = 0
  BY <1>3, PutFacts
<1>6. PICK j : j = Put(h, f, 0) /\ IsFields(j) /\ q = Put(j, "Branch", 1)
  BY <1>2, <1>3, <1>5, PutSwap, PutFacts
<1>7. q["Branch"] = 1 /\ Put(q, "Branch", 0) = Put(j, "Branch", 0)
  BY <1>2, <1>6, PutFacts, PutTwice
<1>8. t[2]["Branch"] = 0
  <2>1. PICK ta, th, tp : t = <<ta, th, tp>> /\ th["Branch"] = 0
    BY DEF Settled
  <2> QED
    BY <2>1
<1>9. Runs(Gate(case[n]), <<a, q, p>>, t)
  BY <1>5, <1>6, <1>7, <1>8, GateOpen
<1>10. PICK b : g[n] = b \o Gate(case[n]) /\ Runs(b, <<a, q, p>>, <<a, q, p>>)
  <2>1. n \in 0 .. last
    BY BaseFacts DEF Byte
  <2>2. CASE n = last
    <3>1. g[n] = beyond \o Gate(case[n])
      BY <1>1, <2>1, <2>2 DEF HasLevels, IsLevels, Level
    <3> QED
      BY <1>6, <2>2, <3>1
  <2>3. CASE n # last
    <3>1. g[n] = <<While(f, <<Add(f, -1)>> \o g[n + 1])>> \o Gate(case[n])
      BY <1>1, <2>1, <2>3 DEF HasLevels, IsLevels, Level
    <3>2. <<a, q, p>>[2][f] = 0
      BY <1>5
    <3>3. Runs(<<While(f, <<Add(f, -1)>> \o g[n + 1])>>, <<a, q, p>>, <<a, q, p>>)
      BY <3>2, Skip
    <3> QED
      BY <3>1, <3>3
  <2> QED
    BY <2>2, <2>3
<1>11. Runs(g[n], <<a, q, p>>, t)
  BY <1>9, <1>10, Then
<1>12. n \in 0 .. last /\ n - n = 0
  BY BaseFacts DEF Byte
<1>13. Runs(g[0], <<a, Put(k, f, n), p>>, t)
  <2>1. Runs(g[n], <<a, Put(k, f, n - n), p>>, t)
    BY <1>5, <1>11, <1>12
  <2>2. IsLevels(f, last, beyond, case, g)
    BY <1>1 DEF HasLevels
  <2> QED
    BY <1>3, <1>12, <2>1, <2>2, Descend
<1>14. Put(k, f, n) = k
  BY <1>3, PutSame
<1> QED
  BY <1>1, <1>4, <1>13, <1>14, Then DEF HasLevels


-----------------------------------------------------------------------------
(* One digit of a page: by the jump table, or first by the walk. *)
LEMMA WalkRuns ==
    ASSUME NEW f \in Fields, f # "Branch", NEW carried, NEW a \in Int, NEW d \in Int, d # 0,
           NEW n \in Byte, \A j \in 0 .. n : a + d * j \in Pages,
           NEW h, IsFields(h), NEW p,
           \A e \in Fields \ (carried \cup {f, "Branch"}) : h[e] = 0
    PROVE  Runs(Walk(f, d, carried), <<a, Put(h, f, n), p>>, <<a + d * n, Put(h, f, 0), p>>)
<1>1. n \in Nat
  BY BaseFacts DEF Byte
<1>2. PICK end : end = <<a + d * n, Put(h, f, 0), p>>
  OBVIOUS
<1> DEFINE W == Walk(f, d, carried)
           Fine(l) == Runs(W, <<a + d * l, Put(h, f, n - l), p>>, end)
           Good == {l \in 0 .. n : Fine(l)}
<1>3. PICK body : body = <<Add(f, -1), Carry(Walking(carried, f), d)>> /\ W = <<While(f, body)>>
                  /\ body = <<Add(f, -1)>> \o <<Carry(Walking(carried, f), d)>>
  BY Couple DEF Walk
<1> HIDE DEF W
<1>4. n \in Good
  <2>1. n - n = 0 /\ n \in 0 .. n
    BY <1>1
  <2>2. Put(h, f, 0)[f] = 0
    BY PutFacts
  <2>3. <<a + d * n, Put(h, f, 0), p>>[2][f] = 0
    BY <2>2
  <2>4. Runs(W, end, end)
    BY <1>2, <1>3, <2>3, Skip
  <2>5. Fine(n)
    BY <1>2, <2>1, <2>4
  <2> QED
    BY <2>1, <2>5
<1>5. PICK l \in Good : \A k \in Good : l <= k
  <2>1. Good \subseteq Nat
    OBVIOUS
  <2>2. Min(Good) \in Good /\ \A k \in Good : Min(Good) <= k
    BY <1>4, <2>1, NaturalsHaveMin
  <2> QED
    BY <2>2
<1>6. ASSUME l # 0 PROVE l - 1 \in Good
  <2>1. PICK i : i \in 0 .. n /\ i = l - 1 /\ i + 1 = l /\ i \in Nat
    <3>1. l - 1 \in 0 .. n /\ (l - 1) + 1 = l /\ l - 1 \in Nat
      BY <1>1, <1>5, <1>6
    <3> QED
      BY <3>1
  <2>2. PICK v \in Byte : v = n - i /\ v > 0 /\ v - 1 = n - l /\ Sum(v, -1) = n - l
    <3>1. n - i \in Byte /\ n - i > 0 /\ (n - i) - 1 = n - l
      BY <1>1, <1>5, <2>1, BaseFacts DEF Byte
    <3>2. Sum(n - i, -1) = (n - i) - 1
      BY <3>1, Sums
    <3> QED
      BY <3>1, <3>2
  <2>3. PICK k : k = Put(h, f, v) /\ IsFields(k) /\ k[f] = v
    BY PutFacts
  <2>4. PICK b : b = a + d * i /\ b + d = a + d * l
    <3>1. d * (i + 1) = d * i + d
      BY <2>1
    <3>2. d * i \in Int
      BY <2>1
    <3>3. (a + d * i) + d = a + d * l
      BY <2>1, <3>1, <3>2
    <3> QED
      BY <3>3
  <2>5. PICK j : j = Put(h, f, n - l) /\ IsFields(j) /\ \A e : e # f => j[e] = h[e]
    BY PutFacts
  <2>6. Runs(<<Add(f, -1)>>, <<b, k, p>>, <<b, j, p>>)
    <3>1. Runs(<<Add(f, -1)>>, <<b, k, p>>, <<b, Put(k, f, Sum(k[f], -1)), p>>)
      BY DoAdd
    <3>2. Put(k, f, Sum(k[f], -1)) = j
      BY <2>2, <2>3, <2>5, PutTwice
    <3> QED
      BY <3>1, <3>2
  <2>7. Runs(<<Carry(Walking(carried, f), d)>>, <<b, j, p>>, <<b + d, j, p>>)
    <3>1. b + d \in Pages
      BY <1>5, <2>4
    <3>2. \A e \in Fields \ Walking(carried, f) : j[e] = 0
      BY <2>5 DEF Walking
    <3> QED
      BY <3>1, <3>2, DoCarry
  <2>8. Runs(body, <<b, k, p>>, <<b + d, j, p>>)
    BY <1>3, <2>6, <2>7, Then
  <2>9. Runs(W, <<b + d, j, p>>, end)
    BY <1>5, <2>4, <2>5
  <2>10. <<b, k, p>>[2][f] # 0
    BY <2>2, <2>3
  <2>11. Runs(W, <<b, k, p>>, end)
    BY <1>3, <2>8, <2>9, <2>10, Again
  <2>12. Fine(i)
    BY <2>2, <2>3, <2>4, <2>11
  <2> QED
    BY <2>1, <2>12
<1>7. l = 0
  <2>1. l - 1 >= l \/ l = 0
    BY <1>5, <1>6
  <2>2. l \in Nat
    BY <1>1, <1>5
  <2> QED
    BY <2>1, <2>2
<1>8. n - 0 = n /\ d * 0 = 0 /\ a + 0 = a
  BY <1>1
<1>9. Fine(0)
  BY <1>5, <1>7
<1> QED
  <2>1. Runs(W, <<a + d * 0, Put(h, f, n - 0), p>>, end)
    BY <1>9
  <2> QED
    BY <1>2, <1>8, <2>1 DEF W


LEMMA LimitFacts ==
    ASSUME maxPage \in Pages, NEW d
    PROVE  PageDigitLimit(d) \in 0 .. Digit - 1
<1>1. maxPage \in Nat /\ Digit \in Nat \ {0}
  BY BaseFacts DEF Byte
<1>2. maxPage \div Digit \in Nat
  BY <1>1, Quotient
<1>3. \A m \in Nat : AtMost(m, Digit - 1) \in 0 .. Digit - 1
  BY <1>1 DEF AtMost
<1> QED
  BY <1>1, <1>2, <1>3 DEF PageDigitLimit

JumpCases(f, d, carried, last) ==
    [l \in 0 .. last |-> IF l = 0 THEN <<>> ELSE <<Carry(carried \ {f}, d * l)>>]

LEMMA CaseJump ==
    ASSUME NEW f, NEW carried, NEW d \in Int, d # 0, NEW last \in Nat, NEW l \in 0 .. last,
           NEW a \in Int, NEW b, b = a + d * l, b \in Pages, NEW h, NEW p,
           \A e \in Fields \ (carried \ {f}) : h[e] = 0
    PROVE  Runs(JumpCases(f, d, carried, last)[l], <<a, h, p>>, <<b, h, p>>)
<1>1. CASE l = 0
  <2>1. JumpCases(f, d, carried, last)[l] = <<>>
    BY <1>1 DEF JumpCases
  <2>2. b = a
    BY <1>1
  <2> QED
    BY <2>1, <2>2, Nothing
<1>2. CASE l # 0
  <2>1. JumpCases(f, d, carried, last)[l] = <<Carry(carried \ {f}, d * l)>>
    BY <1>2 DEF JumpCases
  <2>2. d * l # 0 /\ d * l \in Int
    BY <1>2
  <2>3. Runs(<<Carry(carried \ {f}, d * l)>>, <<a, h, p>>, <<a + d * l, h, p>>)
    BY <2>2, DoCarry
  <2> QED
    BY <2>1, <2>3
<1> QED
  BY <1>1, <1>2

LEMMA PageDigitRuns ==
    ASSUME maxPage \in Pages,
           NEW f \in Fields, f # "Branch", NEW carried, NEW a \in Int, NEW d \in Int, d # 0,
           NEW n \in 0 .. Digit - 1, \A j \in 0 .. n : a + d * j \in Pages,
           NEW h, IsFields(h), h[f] = n, NEW p,
           \A e \in Fields \ (carried \cup {f, "Branch"}) : h[e] = 0
    PROVE  Runs(PageDigit(f, d, carried), <<a, h, p>>,
                <<a + d * n, Put(Put(h, f, 0), "Branch", 0), p>>)
<1>1. "Branch" \in Fields
  BY DEF Fields
<1>2. PICK last \in Nat : last = PageDigitLimit(d) /\ last <= Digit - 1
  <2>1. PageDigitLimit(d) \in Nat /\ PageDigitLimit(d) <= Digit - 1
    BY LimitFacts, BaseFacts
  <2> QED
    BY <2>1
<1>3. n \in Byte /\ n \in Nat
  <2>1. n \in Nat /\ n <= Base - 1 /\ Base \in Nat
    BY BaseFacts
  <2> QED
    BY <2>1 DEF Byte
<1>4. PICK beyond : beyond = IF last < Digit - 1 THEN Walk(f, d, carried) ELSE <<>>
  OBVIOUS
<1>5. PICK case : case = JumpCases(f, d, carried, last)
  OBVIOUS
<1>6. PageDigit(f, d, carried) = Countdown(f, last, beyond, case)
  BY <1>2, <1>4, <1>5 DEF PageDigit, JumpCases
<1>7. PICK y : y = Put(h, f, 0) /\ IsFields(y) /\ y[f] = 0 /\ \A e : e # f => y[e] = h[e]
  BY PutFacts
<1>8. PICK z : z = Put(y, "Branch", 0) /\ IsFields(z) /\ z["Branch"] = 0
               /\ \A e : e # "Branch" => z[e] = y[e]
  BY <1>1, <1>7, PutFacts
<1>9. \A e \in Fields \ (carried \ {f}) : z[e] = 0
  BY <1>7, <1>8
<1>10. PICK b : b = a + d * n /\ b \in Pages
  <2>1. n \in 0 .. n
    BY <1>3
  <2> QED
    BY <2>1
<1>11. PICK t : t = <<b, z, p>> /\ Settled(t, f)
  <2>1. Settled(<<b, z, p>>, f)
    BY <1>7, <1>8 DEF Settled
  <2> QED
    BY <2>1
<1>12. CASE n <= last
  <2>1. Runs(case[n], <<a, z, p>>, t)
    <3>1. n \in 0 .. last
      BY <1>3, <1>12
    <3> QED
      BY <1>5, <1>9, <1>10, <1>11, <3>1, CaseJump
  <2>2. PICK u : u = <<a, Put(y, "Branch", 1), p>> /\ u[2][f] = 0
    <3>1. Put(y, "Branch", 1)[f] = 0
      BY <1>1, <1>7, PutFacts
    <3>2. <<a, Put(y, "Branch", 1), p>>[2][f] = 0
      BY <3>1
    <3> QED
      BY <3>2
  <2>3. Runs(beyond, u, u)
    <3>1. Runs(Walk(f, d, carried), u, u)
      BY <2>2, Skip DEF Walk
    <3> QED
      BY <1>4, <3>1, Nothing
  <2>4. Runs(Countdown(f, last, beyond, case), <<a, h, p>>, t)
    BY <1>3, <1>7, <1>8, <1>11, <1>12, <2>1, <2>2, <2>3, CountdownHits
  <2> QED
    BY <1>6, <1>7, <1>8, <1>10, <1>11, <2>4
<1>13. CASE n > last
  <2>1. PICK r \in Byte : r = n - last /\ r + last = n /\ r \in 0 .. n
    <3>1. n - last \in Byte /\ (n - last) + last = n /\ n - last \in 0 .. n
      BY <1>3, <1>13, BaseFacts DEF Byte
    <3> QED
      BY <3>1
  <2>2. r \in Nat /\ \A j \in 0 .. r : j \in 0 .. n
    BY <1>3, <2>1
  <2>3. beyond = Walk(f, d, carried)
    <3>1. last < Digit - 1
      BY <1>2, <1>3, <1>13, BaseFacts
    <3> QED
      BY <1>4, <3>1
  <2>4. PICK g : g = Put(h, "Branch", 1) /\ IsFields(g) /\ g["Branch"] = 1
                 /\ \A e : e # "Branch" => g[e] = h[e]
    BY <1>1, PutFacts
  <2>5. PICK m : m = a + d * r /\ m \in Pages /\ m \in Int /\ b = m + d * last
    <3>1. a + d * r \in Pages
      BY <2>1
    <3>2. d * (r + last) = d * r + d * last /\ d * r \in Int /\ d * last \in Int
      BY <2>2
    <3>3. b = (a + d * r) + d * last /\ a + d * r \in Int
      BY <1>10, <2>1, <3>2
    <3> QED
      BY <3>1, <3>3
  <2>6. PICK x : x = Put(g, f, 0) /\ IsFields(x) /\ x["Branch"] = 1 /\ Put(x, "Branch", 0) = z
    <3>1. IsFields(Put(g, f, 0)) /\ Put(g, f, 0)["Branch"] = 1
      BY <2>4, PutFacts
    <3>2. Put(g, f, 0) = Put(y, "Branch", 1)
      BY <1>1, <1>7, <2>4, PutSwap
    <3>3. Put(Put(y, "Branch", 1), "Branch", 0) = z
      BY <1>1, <1>7, <1>8, PutTwice
    <3> QED
      BY <3>1, <3>2, <3>3
  <2>7. Runs(beyond, <<a, Put(g, f, r), p>>, <<m, x, p>>)
    <3>1. \A e \in Fields \ (carried \cup {f, "Branch"}) : g[e] = 0
      BY <2>4
    <3>2. \A j \in 0 .. r : a + d * j \in Pages
      BY <2>2
    <3>3. Runs(Walk(f, d, carried), <<a, Put(g, f, r), p>>, <<a + d * r, Put(g, f, 0), p>>)
      BY <2>4, <3>1, <3>2, WalkRuns
    <3> QED
      BY <2>3, <2>5, <2>6, <3>3
  <2>8. Put(g, f, r) = Put(Put(h, f, n - last), "Branch", 1)
    BY <1>1, <2>1, <2>4, PutSwap
  <2>9. Runs(case[last], <<m, z, p>>, t)
    <3>1. last \in 0 .. last
      OBVIOUS
    <3> QED
      BY <1>5, <1>9, <1>10, <1>11, <2>5, <3>1, CaseJump
  <2>10. t[2]["Branch"] = 0
    BY <1>8, <1>11
  <2>11. Runs(Gate(case[last]), <<m, x, p>>, t)
    BY <2>6, <2>9, <2>10, GateOpen
  <2>12. Runs(Countdown(f, last, beyond, case), <<a, h, p>>, t)
    <3>1. last <= n
      BY <1>3, <1>13
    <3> QED
      BY <1>3, <1>11, <2>7, <2>8, <2>11, <3>1, CountdownBeyond
  <2> QED
    BY <1>6, <1>7, <1>8, <1>10, <1>11, <2>12
<1> QED
  BY <1>3, <1>12, <1>13


-----------------------------------------------------------------------------
(* The nine fields written out. *)
Content(f, i, v, c, r, b, w, x, y, z) ==
    CASE f = "Index" -> i    [] f = "Value" -> v    [] f = "Condition" -> c
      [] f = "Restore" -> r  [] f = "Branch" -> b   [] f = "Scratch0" -> w
      [] f = "Scratch1" -> x [] f = "Scratch2" -> y [] f = "Scratch3" -> z

Contents(i, v, c, r, b, w, x, y, z) ==
    [f \in Fields |-> Content(f, i, v, c, r, b, w, x, y, z)]

LEMMA EachField ==
    ASSUME NEW i, NEW v, NEW c, NEW r, NEW b, NEW w, NEW x, NEW y, NEW z,
           NEW h, h = Contents(i, v, c, r, b, w, x, y, z)
    PROVE  /\ IsFields(h)
           /\ h["Index"] = i /\ h["Value"] = v /\ h["Condition"] = c
           /\ h["Restore"] = r /\ h["Branch"] = b /\ h["Scratch0"] = w
           /\ h["Scratch1"] = x /\ h["Scratch2"] = y /\ h["Scratch3"] = z
<1>1. IsFields(h)
  BY DEF IsFields, Contents
<1>2. \A f \in Fields : h[f] = Content(f, i, v, c, r, b, w, x, y, z)
  BY DEF Contents
<1>3. /\ "Index" \in Fields /\ "Value" \in Fields /\ "Condition" \in Fields
      /\ "Restore" \in Fields /\ "Branch" \in Fields /\ "Scratch0" \in Fields
      /\ "Scratch1" \in Fields /\ "Scratch2" \in Fields /\ "Scratch3" \in Fields
  BY DEF Fields
<1> QED
  BY <1>1, <1>2, <1>3 DEF Content

LEMMA PutIs ==
    ASSUME NEW h, IsFields(h), NEW g, IsFields(g), NEW f \in Fields, NEW n, g[f] = n,
           \A e \in Fields \ {f} : g[e] = h[e]
    PROVE  Put(h, f, n) = g
<1>1. PICK j : j = Put(h, f, n) /\ IsFields(j) /\ j[f] = n /\ \A e : e # f => j[e] = h[e]
  BY PutFacts
<1>2. \A e \in Fields : j[e] = g[e]
  BY <1>1
<1> QED
  BY <1>1, <1>2, SameFields

LEMMA Nine ==
    ASSUME NEW f \in Fields
    PROVE  \/ f = "Index" \/ f = "Value" \/ f = "Condition" \/ f = "Restore" \/ f = "Branch"
           \/ f = "Scratch0" \/ f = "Scratch1" \/ f = "Scratch2" \/ f = "Scratch3"
BY DEF Fields

LEMMA PutEach ==
    ASSUME NEW i, NEW v, NEW c, NEW r, NEW b, NEW w, NEW x, NEW y, NEW z,
           NEW h, h = Contents(i, v, c, r, b, w, x, y, z), NEW n
    PROVE  /\ Put(h, "Index", n) = Contents(n, v, c, r, b, w, x, y, z)
           /\ Put(h, "Value", n) = Contents(i, n, c, r, b, w, x, y, z)
           /\ Put(h, "Condition", n) = Contents(i, v, n, r, b, w, x, y, z)
           /\ Put(h, "Restore", n) = Contents(i, v, c, n, b, w, x, y, z)
           /\ Put(h, "Branch", n) = Contents(i, v, c, r, n, w, x, y, z)
           /\ Put(h, "Scratch0", n) = Contents(i, v, c, r, b, n, x, y, z)
           /\ Put(h, "Scratch1", n) = Contents(i, v, c, r, b, w, n, y, z)
           /\ Put(h, "Scratch2", n) = Contents(i, v, c, r, b, w, x, n, z)
           /\ Put(h, "Scratch3", n) = Contents(i, v, c, r, b, w, x, y, n)
<1>1. Put(h, "Index", n) = Contents(n, v, c, r, b, w, x, y, z)
  <2>1. PICK g : g = Contents(n, v, c, r, b, w, x, y, z)
    OBVIOUS
  <2>2. "Index" \in Fields /\ g["Index"] = n /\ \A e \in Fields \ {"Index"} : g[e] = h[e]
    BY <2>1, EachField, Nine DEF Fields
  <2> QED
    BY <2>1, <2>2, EachField, PutIs
<1>2. Put(h, "Value", n) = Contents(i, n, c, r, b, w, x, y, z)
  <2>1. PICK g : g = Contents(i, n, c, r, b, w, x, y, z)
    OBVIOUS
  <2>2. "Value" \in Fields /\ g["Value"] = n /\ \A e \in Fields \ {"Value"} : g[e] = h[e]
    BY <2>1, EachField, Nine DEF Fields
  <2> QED
    BY <2>1, <2>2, EachField, PutIs
<1>3. Put(h, "Condition", n) = Contents(i, v, n, r, b, w, x, y, z)
  <2>1. PICK g : g = Contents(i, v, n, r, b, w, x, y, z)
    OBVIOUS
  <2>2. "Condition" \in Fields /\ g["Condition"] = n /\ \A e \in Fields \ {"Condition"} : g[e] = h[e]
    BY <2>1, EachField, Nine DEF Fields
  <2> QED
    BY <2>1, <2>2, EachField, PutIs
<1>4. Put(h, "Restore", n) = Contents(i, v, c, n, b, w, x, y, z)
  <2>1. PICK g : g = Contents(i, v, c, n, b, w, x, y, z)
    OBVIOUS
  <2>2. "Restore" \in Fields /\ g["Restore"] = n /\ \A e \in Fields \ {"Restore"} : g[e] = h[e]
    BY <2>1, EachField, Nine DEF Fields
  <2> QED
    BY <2>1, <2>2, EachField, PutIs
<1>5. Put(h, "Branch", n) = Contents(i, v, c, r, n, w, x, y, z)
  <2>1. PICK g : g = Contents(i, v, c, r, n, w, x, y, z)
    OBVIOUS
  <2>2. "Branch" \in Fields /\ g["Branch"] = n /\ \A e \in Fields \ {"Branch"} : g[e] = h[e]
    BY <2>1, EachField, Nine DEF Fields
  <2> QED
    BY <2>1, <2>2, EachField, PutIs
<1>6. Put(h, "Scratch0", n) = Contents(i, v, c, r, b, n, x, y, z)
  <2>1. PICK g : g = Contents(i, v, c, r, b, n, x, y, z)
    OBVIOUS
  <2>2. "Scratch0" \in Fields /\ g["Scratch0"] = n /\ \A e \in Fields \ {"Scratch0"} : g[e] = h[e]
    BY <2>1, EachField, Nine DEF Fields
  <2> QED
    BY <2>1, <2>2, EachField, PutIs
<1>7. Put(h, "Scratch1", n) = Contents(i, v, c, r, b, w, n, y, z)
  <2>1. PICK g : g = Contents(i, v, c, r, b, w, n, y, z)
    OBVIOUS
  <2>2. "Scratch1" \in Fields /\ g["Scratch1"] = n /\ \A e \in Fields \ {"Scratch1"} : g[e] = h[e]
    BY <2>1, EachField, Nine DEF Fields
  <2> QED
    BY <2>1, <2>2, EachField, PutIs
<1>8. Put(h, "Scratch2", n) = Contents(i, v, c, r, b, w, x, n, z)
  <2>1. PICK g : g = Contents(i, v, c, r, b, w, x, n, z)
    OBVIOUS
  <2>2. "Scratch2" \in Fields /\ g["Scratch2"] = n /\ \A e \in Fields \ {"Scratch2"} : g[e] = h[e]
    BY <2>1, EachField, Nine DEF Fields
  <2> QED
    BY <2>1, <2>2, EachField, PutIs
<1>9. Put(h, "Scratch3", n) = Contents(i, v, c, r, b, w, x, y, n)
  <2>1. PICK g : g = Contents(i, v, c, r, b, w, x, y, n)
    OBVIOUS
  <2>2. "Scratch3" \in Fields /\ g["Scratch3"] = n /\ \A e \in Fields \ {"Scratch3"} : g[e] = h[e]
    BY <2>1, EachField, Nine DEF Fields
  <2> QED
    BY <2>1, <2>2, EachField, PutIs
<1> QED
  BY <1>1, <1>2, <1>3, <1>4, <1>5, <1>6, <1>7, <1>8, <1>9


-----------------------------------------------------------------------------
(* The countdown at the page of the offset. *)
Kinds == {"load", "store"}
Fetched(kind, p, a, n) == IF kind = "load" THEN p[a][n] ELSE 0
Written(kind, p, a, n, v) == IF kind = "store" THEN [p EXCEPT ![a] = Put(p[a], n, v)] ELSE p

LEMMA DirectCase ==
    ASSUME NEW kind \in Kinds, NEW a, NEW p, NEW n, NEW v, NEW c, NEW r, NEW w, NEW x, NEW z
    PROVE  Runs(<<Payload(kind, n)>>, <<a, Contents(0, v, c, r, 0, w, x, 0, z), p>>,
                <<a, Contents(0, Fetched(kind, p, a, n), c, r, 0, w, x, 0, z),
                  Written(kind, p, a, n, v)>>)
<1>1. PICK h : h = Contents(0, v, c, r, 0, w, x, 0, z)
  OBVIOUS
<1>2. h["Value"] = v
  BY <1>1, EachField
<1>3. CASE kind = "load"
  <2>1. Runs(<<Payload(kind, n)>>, <<a, h, p>>,
             <<a, Put(Put(h, "Value", p[a][n]), "Scratch2", 0), p>>)
    BY <1>3, DoLoad
  <2>2. PICK g : g = Contents(0, p[a][n], c, r, 0, w, x, 0, z) /\ g = Put(h, "Value", p[a][n])
    BY <1>1, PutEach
  <2>3. Put(g, "Scratch2", 0) = g
    BY <2>2, PutEach
  <2>4. Fetched(kind, p, a, n) = p[a][n] /\ Written(kind, p, a, n, v) = p
    BY <1>3 DEF Fetched, Written
  <2> QED
    BY <1>1, <2>1, <2>2, <2>3, <2>4
<1>4. CASE kind = "store"
  <2>1. Runs(<<Payload(kind, n)>>, <<a, h, p>>,
             <<a, Put(h, "Value", 0), [p EXCEPT ![a] = Put(p[a], n, h["Value"])]>>)
    BY <1>4, DoStore
  <2>2. Put(h, "Value", 0) = Contents(0, 0, c, r, 0, w, x, 0, z)
    BY <1>1, PutEach
  <2>3. Fetched(kind, p, a, n) = 0
    BY <1>4 DEF Fetched
  <2>4. Written(kind, p, a, n, v) = [p EXCEPT ![a] = Put(p[a], n, h["Value"])]
    BY <1>2, <1>4 DEF Written
  <2> QED
    BY <1>1, <2>1, <2>2, <2>3, <2>4
<1> QED
  BY <1>3, <1>4 DEF Kinds

LEMMA DirectRuns ==
    ASSUME NEW kind \in Kinds, NEW a, NEW p, NEW n \in 0 .. PageCells - 1,
           NEW v, NEW c, NEW r, NEW w, NEW x, NEW z
    PROVE  Runs(DirectCountdown(kind), <<a, Contents(n, v, c, r, 0, w, x, 0, z), p>>,
                <<a, Contents(0, Fetched(kind, p, a, n), c, r, 0, w, x, 0, z),
                  Written(kind, p, a, n, v)>>)
<1>1. PICK last \in Nat : last = PageCells - 1 /\ n \in 0 .. last /\ n \in Byte
  <2>1. PageCells - 1 \in Nat /\ n \in Byte
    BY PortalPageAssumption, BaseFacts DEF Byte
  <2> QED
    BY <2>1
<1>2. PICK beyond : beyond = <<While("Index", <<Clear("Index"), Clear("Branch")>>)>>
  OBVIOUS
<1>3. PICK case : case = [l \in 0 .. PageCells - 1 |-> <<Payload(kind, l)>>]
  OBVIOUS
<1>4. DirectCountdown(kind) = Countdown("Index", last, beyond, case)
  BY <1>1, <1>2, <1>3 DEF DirectCountdown
<1>5. PICK h : h = Contents(n, v, c, r, 0, w, x, 0, z)
  OBVIOUS
<1>6. IsFields(h) /\ h["Index"] = n
  BY <1>5, EachField
<1>7. PICK g : g = Put(h, "Index", 0) /\ g = Contents(0, v, c, r, 0, w, x, 0, z)
  BY <1>5, PutEach
<1>8. Put(g, "Branch", 0) = g
  BY <1>7, PutEach
<1>9. PICK t : t = <<a, Contents(0, Fetched(kind, p, a, n), c, r, 0, w, x, 0, z),
                     Written(kind, p, a, n, v)>>
  OBVIOUS
<1>10. Settled(t, "Index")
  <2>1. PICK e : e = Contents(0, Fetched(kind, p, a, n), c, r, 0, w, x, 0, z)
    OBVIOUS
  <2>2. e["Index"] = 0 /\ e["Branch"] = 0
    BY <2>1, EachField
  <2> QED
    BY <1>9, <2>1, <2>2 DEF Settled
<1>11. case[n] = <<Payload(kind, n)>>
  BY <1>3
<1>12. Runs(case[n], <<a, Put(g, "Branch", 0), p>>, t)
  BY <1>7, <1>8, <1>9, <1>11, DirectCase
<1>13. Runs(beyond, <<a, Put(g, "Branch", 1), p>>, <<a, Put(g, "Branch", 1), p>>)
  <2>1. PICK u : u = <<a, Put(g, "Branch", 1), p>> /\ u[2]["Index"] = 0
    <3>1. Put(g, "Branch", 1) = Contents(0, v, c, r, 1, w, x, 0, z)
      BY <1>7, PutEach
    <3>2. Put(g, "Branch", 1)["Index"] = 0
      BY <3>1, EachField
    <3>3. <<a, Put(g, "Branch", 1), p>>[2]["Index"] = 0
      BY <3>2
    <3> QED
      BY <3>3
  <2> QED
    BY <1>2, <2>1, Skip
<1>14. "Index" \in Fields /\ "Index" # "Branch" /\ n <= last
  BY <1>1 DEF Fields
<1>15. Runs(Countdown("Index", last, beyond, case), <<a, h, p>>, t)
  BY <1>1, <1>6, <1>7, <1>10, <1>12, <1>13, <1>14, CountdownHits
<1> QED
  BY <1>4, <1>5, <1>9, <1>15


-----------------------------------------------------------------------------
(* Clearing fields that are zero. *)
LEMMA TabulatedSequence ==
    ASSUME NEW S, NEW n \in Nat, NEW q, q = [i \in 1 .. n |-> q[i]], \A i \in 1 .. n : q[i] \in S
    PROVE  q \in Seq(S) /\ Len(q) = n
BY SMT

LEMMA LongerPrefix ==
    ASSUME NEW fs \in Seq(Fields), NEW k \in Nat
    PROVE  [i \in 1 .. k + 1 |-> Clear(fs[i])]
               = [i \in 1 .. k |-> Clear(fs[i])] \o <<Clear(fs[k + 1])>>
<1> DEFINE e(i) == Clear(fs[i])
           S == {e(i) : i \in 1 .. k + 1}
<1> HIDE DEF e
<1>1. PICK u : u = [i \in 1 .. k |-> e(i)] /\ u \in Seq(S) /\ Len(u) = k
  <2>1. PICK q : q = [i \in 1 .. k |-> e(i)]
    OBVIOUS
  <2>2. q = [i \in 1 .. k |-> q[i]] /\ \A i \in 1 .. k : q[i] \in S
    BY <2>1
  <2>3. q \in Seq(S) /\ Len(q) = k
    BY <2>2, TabulatedSequence
  <2> QED
    BY <2>1, <2>3
<1>2. PICK v : v = [i \in 1 .. k + 1 |-> e(i)] /\ v \in Seq(S) /\ Len(v) = k + 1
  <2>1. PICK m \in Nat : m = k + 1
    OBVIOUS
  <2>2. PICK q : q = [i \in 1 .. m |-> e(i)]
    OBVIOUS
  <2>3. q = [i \in 1 .. m |-> q[i]] /\ \A i \in 1 .. m : q[i] \in S
    BY <2>1, <2>2
  <2>4. q \in Seq(S) /\ Len(q) = m
    BY <2>3, TabulatedSequence
  <2> QED
    BY <2>1, <2>2, <2>4
<1>3. PICK w : w = <<e(k + 1)>> /\ w \in Seq(S) /\ Len(w) = 1 /\ w[1] = e(k + 1)
  <2>1. e(k + 1) \in S
    OBVIOUS
  <2>2. <<e(k + 1)>> \in Seq(S) /\ Len(<<e(k + 1)>>) = 1 /\ <<e(k + 1)>>[1] = e(k + 1)
    BY <2>1
  <2> QED
    BY <2>2
<1>4. u \o w \in Seq(S) /\ Len(u \o w) = k + 1
  BY <1>1, <1>3
<1>5. \A j \in 1 .. k + 1 : (u \o w)[j] = v[j]
  BY <1>1, <1>2, <1>3
<1>6. u \o w = v
  BY <1>2, <1>4, <1>5, SeqEqual
<1> QED
  BY <1>1, <1>2, <1>3, <1>6 DEF e

LEMMA ClearNothing ==
    ASSUME NEW fs \in Seq(Fields), NEW a, NEW h, IsFields(h), NEW p,
           \A j \in 1 .. Len(fs) : h[fs[j]] = 0
    PROVE  Runs(ClearAll(fs), <<a, h, p>>, <<a, h, p>>)
<1> DEFINE s == <<a, h, p>>
           Fine(k) == Runs([i \in 1 .. k |-> Clear(fs[i])], s, s)
           Bad == {k \in 0 .. Len(fs) : ~Fine(k)}
<1> HIDE DEF s
<1>1. Len(fs) \in Nat /\ DOMAIN fs = 1 .. Len(fs)
  OBVIOUS
<1>2. Fine(0)
  <2>1. [i \in 1 .. 0 |-> Clear(fs[i])] = <<>>
    OBVIOUS
  <2> QED
    BY <2>1, Nothing
<1>3. Bad = {}
  <2> SUFFICES ASSUME Bad # {} PROVE FALSE
    OBVIOUS
  <2>1. PICK k : k \in Bad /\ \A m \in Bad : k <= m
    <3>1. Bad \subseteq Nat
      OBVIOUS
    <3>2. Min(Bad) \in Bad /\ \A m \in Bad : Min(Bad) <= m
      BY <3>1, NaturalsHaveMin
    <3> QED
      BY <3>2
  <2>2. k # 0
    BY <1>2, <2>1
  <2>3. PICK m \in 0 .. Len(fs) : m = k - 1 /\ m + 1 = k /\ m \in Nat /\ ~(k <= m)
    <3>1. k - 1 \in 0 .. Len(fs) /\ (k - 1) + 1 = k /\ k - 1 \in Nat /\ ~(k <= k - 1)
      BY <1>1, <2>1, <2>2
    <3> QED
      BY <3>1
  <2>4. Fine(m)
    BY <2>1, <2>3
  <2>5. Runs(<<Clear(fs[m + 1])>>, s, s)
    <3>1. m + 1 \in 1 .. Len(fs)
      BY <1>1, <2>1, <2>3
    <3>2. PICK f \in Fields : f = fs[m + 1] /\ h[f] = 0
      BY <1>1, <3>1
    <3>3. Put(h, f, 0) = h
      BY <3>2, PutSame
    <3> QED
      BY <3>2, <3>3, DoClear DEF s
  <2>6. Runs([i \in 1 .. m |-> Clear(fs[i])] \o <<Clear(fs[m + 1])>>, s, s)
    BY <2>4, <2>5, Then
  <2>7. Fine(m + 1)
    BY <2>3, <2>6, LongerPrefix
  <2> QED
    BY <2>1, <2>3, <2>7
<1>4. Fine(Len(fs))
  <2>1. Len(fs) \in 0 .. Len(fs)
    BY <1>1
  <2>2. \A k \in 0 .. Len(fs) : Fine(k)
    BY <1>3
  <2> QED
    BY <2>1, <2>2
<1>5. ClearAll(fs) = [i \in 1 .. Len(fs) |-> Clear(fs[i])]
  BY <1>1 DEF ClearAll
<1> QED
  BY <1>4, <1>5 DEF s


-----------------------------------------------------------------------------
(* The high byte, split into digits. *)
LEMMA DigitFacts ==
    ASSUME NEW l \in Byte
    PROVE  /\ l % Digit \in 0 .. Digit - 1 /\ l \div Digit \in 0 .. Digit - 1
           /\ l % Digit \in Byte /\ l \div Digit \in Byte
           /\ Digit * (l \div Digit) + (l % Digit) = l
<1>1. Digit \in Nat \ {0} /\ l \in Nat /\ l < Digit * Digit /\ Digit - 1 <= Base - 1
  BY BaseFacts DEF Byte, Base
<1>2. l % Digit \in 0 .. Digit - 1 /\ l \div Digit \in Nat /\ Digit * (l \div Digit) + (l % Digit) = l
  BY <1>1, Quotient
<1>3. l \div Digit < Digit
  BY <1>1, SmallQuotient
<1>4. l \div Digit \in 0 .. Digit - 1
  BY <1>1, <1>2, <1>3
<1>5. \A d \in 0 .. Digit - 1 : d \in Byte
  BY <1>1, BaseFacts DEF Byte
<1> QED
  BY <1>2, <1>4, <1>5

LEMMA DigitsRuns ==
    ASSUME NEW l \in Byte, NEW a, NEW i, NEW v, NEW p
    PROVE  Runs(Digits(l), <<a, Contents(i, v, 0, 0, 0, 0, 0, 0, 0), p>>,
                <<a, Contents(i, v, 0, l % Digit, 0, 0, l % Digit, l \div Digit, l \div Digit), p>>)
<1>1. PICK lo \in Byte, hi \in Byte : lo = l % Digit /\ hi = l \div Digit
  BY DigitFacts
<1>2. "Scratch1" \in Fields /\ "Restore" \in Fields /\ "Scratch2" \in Fields /\ "Scratch3" \in Fields
  BY DEF Fields
<1>3. PICK g : g = Contents(i, v, 0, 0, 0, 0, 0, 0, 0) /\ g["Scratch1"] = 0
  BY EachField
<1>4. PICK h : h = Contents(i, v, 0, 0, 0, 0, lo, 0, 0) /\ h = Put(g, "Scratch1", lo) /\ h["Restore"] = 0
  BY <1>3, PutEach, EachField
<1>5. PICK j : j = Contents(i, v, 0, lo, 0, 0, lo, 0, 0) /\ j = Put(h, "Restore", lo) /\ j["Scratch2"] = 0
  BY <1>4, PutEach, EachField
<1>6. PICK k : k = Contents(i, v, 0, lo, 0, 0, lo, hi, 0) /\ k = Put(j, "Scratch2", hi) /\ k["Scratch3"] = 0
  BY <1>5, PutEach, EachField
<1>7. PICK m : m = Contents(i, v, 0, lo, 0, 0, lo, hi, hi) /\ m = Put(k, "Scratch3", hi)
  BY <1>6, PutEach
<1>8. Runs(<<Add("Scratch1", lo)>>, <<a, g, p>>, <<a, h, p>>)
  BY <1>2, <1>3, <1>4, DoAdd, Sums
<1>9. Runs(<<Add("Restore", lo)>>, <<a, h, p>>, <<a, j, p>>)
  BY <1>2, <1>4, <1>5, DoAdd, Sums
<1>10. Runs(<<Add("Scratch2", hi)>>, <<a, j, p>>, <<a, k, p>>)
  BY <1>2, <1>5, <1>6, DoAdd, Sums
<1>11. Runs(<<Add("Scratch3", hi)>>, <<a, k, p>>, <<a, m, p>>)
  BY <1>2, <1>6, <1>7, DoAdd, Sums
<1>12. Runs(<<Add("Scratch1", lo), Add("Restore", lo), Add("Scratch2", hi), Add("Scratch3", hi)>>,
            <<a, g, p>>, <<a, m, p>>)
  BY <1>8, <1>9, <1>10, <1>11, InFour
<1>13. Digits(l) = <<Add("Scratch1", lo), Add("Restore", lo), Add("Scratch2", hi), Add("Scratch3", hi)>>
  BY <1>1 DEF Digits
<1> QED
  BY <1>1, <1>3, <1>7, <1>12, <1>13

LEMMA SplitRuns ==
    ASSUME NEW l \in Byte, NEW a, NEW i, NEW v, NEW p
    PROVE  Runs(SplitPageSelectors, <<a, Contents(i, v, 0, 0, 0, l, 0, 0, 0), p>>,
                <<a, Contents(i, v, 0, l % Digit, 0, 0, l % Digit, l \div Digit, l \div Digit), p>>)
<1>1. PICK g : g = Contents(i, v, 0, 0, 0, l, 0, 0, 0)
  OBVIOUS
<1>2. /\ IsFields(g) /\ g["Scratch0"] = l
      /\ g["Scratch1"] = 0 /\ g["Scratch2"] = 0 /\ g["Restore"] = 0 /\ g["Scratch3"] = 0
  BY <1>1, EachField
<1>3. PICK fs \in Seq(Fields) : fs = <<"Scratch1", "Scratch2", "Restore", "Scratch3">>
                                /\ \A j \in 1 .. Len(fs) : g[fs[j]] = 0
  <2>1. <<"Scratch1", "Scratch2", "Restore", "Scratch3">> \in Seq(Fields)
    BY DEF Fields
  <2>2. PICK fs : fs = <<"Scratch1", "Scratch2", "Restore", "Scratch3">>
    OBVIOUS
  <2>3. Len(fs) = 4 /\ fs[1] = "Scratch1" /\ fs[2] = "Scratch2" /\ fs[3] = "Restore" /\ fs[4] = "Scratch3"
    BY <2>2
  <2>4. \A j \in 1 .. 4 : g[fs[j]] = 0
    BY <1>2, <2>3
  <2> QED
    BY <2>1, <2>2, <2>3, <2>4
<1>4. Runs(ClearAll(fs), <<a, g, p>>, <<a, g, p>>)
  BY <1>2, <1>3, ClearNothing
<1>5. PICK m : m = Contents(i, v, 0, l % Digit, 0, 0, l % Digit, l \div Digit, l \div Digit)
  OBVIOUS
<1>6. PICK last \in Nat : last = Base - 1 /\ l <= last /\ l \in 0 .. Base - 1
  <2>1. Base - 1 \in Nat /\ l <= Base - 1 /\ l \in 0 .. Base - 1
    BY BaseFacts DEF Byte
  <2> QED
    BY <2>1
<1>7. PICK case : case = [j \in 0 .. Base - 1 |-> Digits(j)] /\ case[l] = Digits(l)
  <2>1. [j \in 0 .. Base - 1 |-> Digits(j)][l] = Digits(l)
    BY <1>6
  <2> QED
    BY <2>1
<1>8. PICK t : t = <<a, m, p>> /\ Settled(t, "Scratch0")
  <2>1. m["Scratch0"] = 0 /\ m["Branch"] = 0
    BY <1>5, EachField
  <2>2. Settled(<<a, m, p>>, "Scratch0")
    BY <2>1 DEF Settled
  <2> QED
    BY <2>2
<1>9. PICK z : z = Contents(i, v, 0, 0, 0, 0, 0, 0, 0) /\ z = Put(Put(g, "Scratch0", 0), "Branch", 0)
  <2>1. Put(g, "Scratch0", 0) = Contents(i, v, 0, 0, 0, 0, 0, 0, 0)
    BY <1>1, PutEach
  <2>2. Put(Put(g, "Scratch0", 0), "Branch", 0) = Contents(i, v, 0, 0, 0, 0, 0, 0, 0)
    BY <2>1, PutEach
  <2> QED
    BY <2>2
<1>10. Runs(case[l], <<a, z, p>>, t)
  <2>1. Runs(Digits(l), <<a, Contents(i, v, 0, 0, 0, 0, 0, 0, 0), p>>,
             <<a, Contents(i, v, 0, l % Digit, 0, 0, l % Digit, l \div Digit, l \div Digit), p>>)
    BY DigitsRuns
  <2> QED
    BY <1>5, <1>7, <1>8, <1>9, <2>1
<1>11. \A s : Runs(<<>>, s, s)
  BY Nothing
<1>12. "Scratch0" \in Fields /\ "Scratch0" # "Branch"
  BY DEF Fields
<1>13. Runs(Countdown("Scratch0", last, <<>>, case), <<a, g, p>>, t)
  BY <1>2, <1>6, <1>8, <1>9, <1>10, <1>11, <1>12, CountdownHits
<1>14. SplitPageSelectors = ClearAll(fs) \o Countdown("Scratch0", last, <<>>, case)
  BY <1>3, <1>6, <1>7 DEF SplitPageSelectors
<1> QED
  BY <1>1, <1>4, <1>5, <1>8, <1>13, <1>14, Then


-----------------------------------------------------------------------------
(* The way to a page and back stays on the pages. *)
LEMMA DigitWay ==
    ASSUME NEW l \in Byte, NEW hi \in Nat, hi = l \div Digit, NEW j \in 0 .. hi
    PROVE  /\ Digit * hi \in Pages /\ 0 + Digit * j \in Pages
           /\ Digit * hi + Back(Digit) * j \in Pages
           /\ j = hi => Digit * hi + Back(Digit) * j = 0
<1>1. PICK w \in Nat : w = Digit /\ w # 0
  <2>1. Digit \in Nat /\ Digit # 0
    BY BaseFacts
  <2> QED
    BY <2>1
<1>2. l \in Nat /\ l \in 0 .. Base - 1 /\ Base \in Nat
  BY BaseFacts DEF Byte
<1>3. w * hi <= l
  <2>1. l % w \in Nat /\ w * hi + (l % w) = l
    BY <1>1, <1>2, Quotient
  <2>2. w * hi \in Nat
    BY <1>1
  <2> QED
    BY <1>2, <2>1, <2>2
<1>4. PICK r \in Nat : hi = j + r
  <2>1. hi - j \in Nat /\ hi = j + (hi - j)
    OBVIOUS
  <2> QED
    BY <2>1
<1>5. w * hi = w * j + w * r /\ w * j \in Nat /\ w * r \in Nat /\ (- w) * j = - (w * j)
  <2>1. j \in Nat
    OBVIOUS
  <2>2. w * (j + r) = w * j + w * r
    BY <2>1
  <2>3. w * j \in Nat /\ w * r \in Nat /\ (- w) * j = - (w * j)
    BY <2>1
  <2> QED
    BY <1>4, <2>2, <2>3
<1>6. w * hi \in Pages /\ w * j \in Pages /\ w * r \in Pages
  BY <1>2, <1>3, <1>5 DEF Pages
<1>7. w * hi + (- w) * j = w * r
  BY <1>5
<1>8. j = hi => w * r = 0
  BY <1>4, <1>5
<1>9. 0 + w * j = w * j
  BY <1>5
<1> QED
  BY <1>1, <1>6, <1>7, <1>8, <1>9 DEF Back

LEMMA UnitWay ==
    ASSUME NEW l \in Byte, NEW b \in Nat, NEW lo \in Nat, b + lo = l, NEW j \in 0 .. lo
    PROVE  /\ b + 1 * j \in Pages /\ l + Back(1) * j \in Pages
           /\ j = lo => b + 1 * j = l /\ l + Back(1) * j = b
<1>1. l \in 0 .. Base - 1 /\ Base \in Nat /\ j \in Nat /\ j <= lo
  BY BaseFacts DEF Byte
<1>2. 1 * j = j /\ (-1) * j = - j
  BY <1>1
<1>3. b + j \in 0 .. Base - 1 /\ l + (- j) \in 0 .. Base - 1 /\ (j = lo => b + j = l /\ l + (- j) = b)
  BY <1>1
<1>4. Back(1) = -1
  BY DEF Back
<1> QED
  BY <1>2, <1>3, <1>4 DEF Pages


LEMMA PagePortalRuns ==
    ASSUME maxPage \in Pages,
           NEW kind \in Kinds, NEW p, NEW l \in Byte, NEW n \in 0 .. PageCells - 1, NEW v,
           kind = "load" => v = 0
    PROVE  Runs(PagePortalAccessor(kind), <<0, Contents(n, v, 0, 0, 0, l, 0, 0, 0), p>>,
                <<0, Contents(0, Fetched(kind, p, l, n), 0, 0, 0, 0, 0, 0, 0), Written(kind, p, l, n, v)>>)
<1>1. PICK u : u = Fetched(kind, p, l, n) /\ (kind = "store" => u = 0)
               /\ (kind = "load" => v = 0) /\ (kind = "load" \/ kind = "store")
  <2>1. kind = "store" => Fetched(kind, p, l, n) = 0
    BY DEF Fetched
  <2> QED
    BY <2>1 DEF Kinds
<1>2. PICK q : q = Written(kind, p, l, n, v)
  OBVIOUS
<1>3. PICK lo \in Nat, hi \in Nat, b \in Nat :
          /\ lo = l % Digit /\ hi = l \div Digit /\ b = Digit * hi /\ b + lo = l
          /\ lo \in 0 .. Digit - 1 /\ hi \in 0 .. Digit - 1
  <2>1. Digit * (l \div Digit) \in Nat
    BY DigitFacts, BaseFacts
  <2>2. l % Digit \in Nat /\ l \div Digit \in Nat
    BY DigitFacts, BaseFacts
  <2> QED
    BY <2>1, <2>2, DigitFacts
<1>4. /\ Digit \in Int /\ Digit # 0 /\ 1 \in Int /\ 0 \in Int /\ b \in Int /\ l \in Int
      /\ Back(1) \in Int /\ Back(1) # 0 /\ Back(Digit) \in Int /\ Back(Digit) # 0
  BY BaseFacts DEF Byte, Back
<1>5. (\A j \in 0 .. hi : 0 + Digit * j \in Pages) /\ 0 + Digit * hi = b
  <2>1. 0 + b = b
    BY <1>3
  <2> QED
    BY <1>3, <2>1, DigitWay
<1>6. (\A j \in 0 .. lo : b + 1 * j \in Pages) /\ b + 1 * lo = l
  <2>1. lo \in 0 .. lo
    BY <1>3
  <2> QED
    BY <1>3, <2>1, UnitWay
<1>7. (\A j \in 0 .. lo : l + Back(1) * j \in Pages) /\ l + Back(1) * lo = b
  <2>1. lo \in 0 .. lo
    BY <1>3
  <2> QED
    BY <1>3, <2>1, UnitWay
<1>8. (\A j \in 0 .. hi : b + Back(Digit) * j \in Pages) /\ b + Back(Digit) * hi = 0
  <2>1. hi \in 0 .. hi
    BY <1>3
  <2> QED
    BY <1>3, <2>1, DigitWay
<1>9. Runs(SplitPageSelectors, <<0, Contents(n, v, 0, 0, 0, l, 0, 0, 0), p>>,
            <<0, Contents(n, v, 0, lo, 0, 0, lo, hi, hi), p>>)
  BY <1>3, SplitRuns
<1>10. Runs(PageDigit("Scratch2", Digit, Sent(kind) \cup {"Restore", "Scratch1", "Scratch2", "Scratch3"}), <<0, Contents(n, v, 0, lo, 0, 0, lo, hi, hi), p>>,
            <<b, Contents(n, v, 0, lo, 0, 0, lo, 0, hi), p>>)
  <2>1. PICK h : h = Contents(n, v, 0, lo, 0, 0, lo, hi, hi)
    OBVIOUS
  <2>2. IsFields(h) /\ h["Scratch2"] = hi
    BY <2>1, EachField
  <2>3. \A e \in Fields \ (Sent(kind) \cup {"Restore", "Scratch1", "Scratch2", "Scratch3"} \cup {"Scratch2", "Branch"}) : h[e] = 0
    BY <1>1, <2>1, EachField, Nine DEF Sent, Brought, FirstBack, Kinds
  <2>4. "Scratch2" \in Fields /\ "Scratch2" # "Branch"
    BY DEF Fields
  <2>5. Runs(PageDigit("Scratch2", Digit, Sent(kind) \cup {"Restore", "Scratch1", "Scratch2", "Scratch3"}), <<0, h, p>>,
             <<0 + Digit * hi, Put(Put(h, "Scratch2", 0), "Branch", 0), p>>)
    BY <1>3, <1>4, <1>5, <2>2, <2>3, <2>4, PageDigitRuns
  <2>6. Put(Put(h, "Scratch2", 0), "Branch", 0) = Contents(n, v, 0, lo, 0, 0, lo, 0, hi)
    <3>1. Put(h, "Scratch2", 0) = Contents(n, v, 0, lo, 0, 0, lo, 0, hi)
      BY <2>1, PutEach
    <3> QED
      BY <3>1, PutEach
  <2> QED
    BY <2>1, <2>5, <2>6, <1>3, <1>4, <1>5
<1>11. Runs(PageDigit("Scratch1", 1, Sent(kind) \cup {"Restore", "Scratch1", "Scratch3"}), <<b, Contents(n, v, 0, lo, 0, 0, lo, 0, hi), p>>,
            <<l, Contents(n, v, 0, lo, 0, 0, 0, 0, hi), p>>)
  <2>1. PICK h : h = Contents(n, v, 0, lo, 0, 0, lo, 0, hi)
    OBVIOUS
  <2>2. IsFields(h) /\ h["Scratch1"] = lo
    BY <2>1, EachField
  <2>3. \A e \in Fields \ (Sent(kind) \cup {"Restore", "Scratch1", "Scratch3"} \cup {"Scratch1", "Branch"}) : h[e] = 0
    BY <1>1, <2>1, EachField, Nine DEF Sent, Brought, FirstBack, Kinds
  <2>4. "Scratch1" \in Fields /\ "Scratch1" # "Branch"
    BY DEF Fields
  <2>5. Runs(PageDigit("Scratch1", 1, Sent(kind) \cup {"Restore", "Scratch1", "Scratch3"}), <<b, h, p>>,
             <<b + 1 * lo, Put(Put(h, "Scratch1", 0), "Branch", 0), p>>)
    <3>1. PICK d \in Int : d = 1 /\ d # 0
      OBVIOUS
    <3>2. \A j \in 0 .. lo : b + d * j \in Pages
      BY <1>6, <3>1
    <3>3. Runs(PageDigit("Scratch1", d, Sent(kind) \cup {"Restore", "Scratch1", "Scratch3"}), <<b, h, p>>,
               <<b + d * lo, Put(Put(h, "Scratch1", 0), "Branch", 0), p>>)
      BY <1>3, <1>4, <2>2, <2>3, <2>4, <3>1, <3>2, PageDigitRuns
    <3> QED
      BY <3>1, <3>3
  <2>6. Put(Put(h, "Scratch1", 0), "Branch", 0) = Contents(n, v, 0, lo, 0, 0, 0, 0, hi)
    <3>1. Put(h, "Scratch1", 0) = Contents(n, v, 0, lo, 0, 0, 0, 0, hi)
      BY <2>1, PutEach
    <3> QED
      BY <3>1, PutEach
  <2> QED
    BY <2>1, <2>5, <2>6, <1>3, <1>4, <1>6
<1>12. Runs(DirectCountdown(kind), <<l, Contents(n, v, 0, lo, 0, 0, 0, 0, hi), p>>,
            <<l, Contents(0, u, 0, lo, 0, 0, 0, 0, hi), q>>)
  BY <1>1, <1>2, DirectRuns
<1>13. Runs(PageDigit("Restore", Back(1), FirstBack(kind)), <<l, Contents(0, u, 0, lo, 0, 0, 0, 0, hi), q>>,
            <<b, Contents(0, u, 0, 0, 0, 0, 0, 0, hi), q>>)
  <2>1. PICK h : h = Contents(0, u, 0, lo, 0, 0, 0, 0, hi)
    OBVIOUS
  <2>2. IsFields(h) /\ h["Restore"] = lo
    BY <2>1, EachField
  <2>3. \A e \in Fields \ (FirstBack(kind) \cup {"Restore", "Branch"}) : h[e] = 0
    BY <1>1, <2>1, EachField, Nine DEF Sent, Brought, FirstBack, Kinds
  <2>4. "Restore" \in Fields /\ "Restore" # "Branch"
    BY DEF Fields
  <2>5. Runs(PageDigit("Restore", Back(1), FirstBack(kind)), <<l, h, q>>,
             <<l + Back(1) * lo, Put(Put(h, "Restore", 0), "Branch", 0), q>>)
    <3>1. PICK d \in Int : d = Back(1) /\ d # 0
      BY <1>4
    <3>2. \A j \in 0 .. lo : l + d * j \in Pages
      BY <1>7, <3>1
    <3>3. Runs(PageDigit("Restore", d, FirstBack(kind)), <<l, h, q>>,
               <<l + d * lo, Put(Put(h, "Restore", 0), "Branch", 0), q>>)
      BY <1>3, <1>4, <2>2, <2>3, <2>4, <3>1, <3>2, PageDigitRuns
    <3> QED
      BY <3>1, <3>3
  <2>6. Put(Put(h, "Restore", 0), "Branch", 0) = Contents(0, u, 0, 0, 0, 0, 0, 0, hi)
    <3>1. Put(h, "Restore", 0) = Contents(0, u, 0, 0, 0, 0, 0, 0, hi)
      BY <2>1, PutEach
    <3> QED
      BY <3>1, PutEach
  <2> QED
    BY <2>1, <2>5, <2>6, <1>3, <1>4, <1>7
<1>14. Runs(PageDigit("Scratch3", Back(Digit), Brought(kind)), <<b, Contents(0, u, 0, 0, 0, 0, 0, 0, hi), q>>,
            <<0, Contents(0, u, 0, 0, 0, 0, 0, 0, 0), q>>)
  <2>1. PICK h : h = Contents(0, u, 0, 0, 0, 0, 0, 0, hi)
    OBVIOUS
  <2>2. IsFields(h) /\ h["Scratch3"] = hi
    BY <2>1, EachField
  <2>3. \A e \in Fields \ (Brought(kind) \cup {"Scratch3", "Branch"}) : h[e] = 0
    BY <1>1, <2>1, EachField, Nine DEF Sent, Brought, FirstBack, Kinds
  <2>4. "Scratch3" \in Fields /\ "Scratch3" # "Branch"
    BY DEF Fields
  <2>5. Runs(PageDigit("Scratch3", Back(Digit), Brought(kind)), <<b, h, q>>,
             <<b + Back(Digit) * hi, Put(Put(h, "Scratch3", 0), "Branch", 0), q>>)
    <3>1. PICK d \in Int : d = Back(Digit) /\ d # 0
      BY <1>4
    <3>2. \A j \in 0 .. hi : b + d * j \in Pages
      BY <1>8, <3>1
    <3>3. Runs(PageDigit("Scratch3", d, Brought(kind)), <<b, h, q>>,
               <<b + d * hi, Put(Put(h, "Scratch3", 0), "Branch", 0), q>>)
      BY <1>3, <1>4, <2>2, <2>3, <2>4, <3>1, <3>2, PageDigitRuns
    <3> QED
      BY <3>1, <3>3
  <2>6. Put(Put(h, "Scratch3", 0), "Branch", 0) = Contents(0, u, 0, 0, 0, 0, 0, 0, 0)
    <3>1. Put(h, "Scratch3", 0) = Contents(0, u, 0, 0, 0, 0, 0, 0, 0)
      BY <2>1, PutEach
    <3> QED
      BY <3>1, PutEach
  <2> QED
    BY <2>1, <2>5, <2>6, <1>3, <1>4, <1>8
<1>15. PICK c1, c2, c3, c4, c5, c6 :
          /\ c1 = SplitPageSelectors
          /\ c2 = PageDigit("Scratch2", Digit, Sent(kind) \cup {"Restore", "Scratch1", "Scratch2", "Scratch3"})
          /\ c3 = PageDigit("Scratch1", 1, Sent(kind) \cup {"Restore", "Scratch1", "Scratch3"})
          /\ c4 = DirectCountdown(kind)
          /\ c5 = PageDigit("Restore", Back(1), FirstBack(kind))
          /\ c6 = PageDigit("Scratch3", Back(Digit), Brought(kind))
  OBVIOUS
<1>16. Runs(c1 \o c2, <<0, Contents(n, v, 0, 0, 0, l, 0, 0, 0), p>>,
            <<b, Contents(n, v, 0, lo, 0, 0, lo, 0, hi), p>>)
  BY <1>9, <1>10, <1>15, Then
<1>17. Runs((c1 \o c2) \o c3, <<0, Contents(n, v, 0, 0, 0, l, 0, 0, 0), p>>,
            <<l, Contents(n, v, 0, lo, 0, 0, 0, 0, hi), p>>)
  BY <1>16, <1>11, <1>15, Then
<1>18. Runs(((c1 \o c2) \o c3) \o c4, <<0, Contents(n, v, 0, 0, 0, l, 0, 0, 0), p>>,
            <<l, Contents(0, u, 0, lo, 0, 0, 0, 0, hi), q>>)
  BY <1>17, <1>12, <1>15, Then
<1>19. Runs((((c1 \o c2) \o c3) \o c4) \o c5, <<0, Contents(n, v, 0, 0, 0, l, 0, 0, 0), p>>,
            <<b, Contents(0, u, 0, 0, 0, 0, 0, 0, hi), q>>)
  BY <1>18, <1>13, <1>15, Then
<1>20. Runs(((((c1 \o c2) \o c3) \o c4) \o c5) \o c6, <<0, Contents(n, v, 0, 0, 0, l, 0, 0, 0), p>>,
            <<0, Contents(0, u, 0, 0, 0, 0, 0, 0, 0), q>>)
  BY <1>19, <1>14, <1>15, Then
<1>21. PagePortalAccessor(kind) = ((((c1 \o c2) \o c3) \o c4) \o c5) \o c6
  BY <1>15 DEF PagePortalAccessor
<1> QED
  BY <1>1, <1>2, <1>20, <1>21


-----------------------------------------------------------------------------
(* The whole accessor. *)
LEMMA TestRuns ==
    ASSUME NEW l \in Byte, NEW n, NEW v, NEW p
    PROVE  Runs(DirectTest, <<0, Contents(n, v, 0, 0, 0, l, 0, 0, 0), p>>,
                <<0, IF l = 0 THEN Contents(n, v, 1, 0, 1, 0, 0, 0, 0)
                              ELSE Contents(n, v, 0, 0, 0, l, 0, 0, 0), p>>)
<1>1. PICK g : g = Contents(n, v, 0, 0, 0, l, 0, 0, 0)
  OBVIOUS
<1>2. /\ IsFields(g) /\ g["Scratch0"] = l
      /\ g["Condition"] = 0 /\ g["Restore"] = 0 /\ g["Branch"] = 0
  BY <1>1, EachField
<1>3. PICK fs \in Seq(Fields) : fs = <<"Condition", "Restore", "Branch">>
                                /\ \A j \in 1 .. Len(fs) : g[fs[j]] = 0
  <2>1. <<"Condition", "Restore", "Branch">> \in Seq(Fields)
    BY DEF Fields
  <2>2. PICK fs : fs = <<"Condition", "Restore", "Branch">>
    OBVIOUS
  <2>3. Len(fs) = 3 /\ fs[1] = "Condition" /\ fs[2] = "Restore" /\ fs[3] = "Branch"
    BY <2>2
  <2>4. \A j \in 1 .. 3 : g[fs[j]] = 0
    BY <1>2, <2>3
  <2> QED
    BY <2>1, <2>2, <2>3, <2>4
<1>4. Runs(ClearAll(fs), <<0, g, p>>, <<0, g, p>>)
  BY <1>2, <1>3, ClearNothing
<1>5. PICK body : body = <<Add("Scratch1", -1), Add("Branch", 1), Add("Condition", 1)>>
  OBVIOUS
<1>6. DirectTest = ClearAll(fs) \o <<ZeroTest, While("Scratch1", body)>>
  BY <1>3, <1>5 DEF DirectTest
<1>7. PICK m : m = IF l = 0 THEN 1 ELSE 0
  OBVIOUS
<1>8. PICK h : h = Contents(n, v, 0, 0, 0, l, m, 0, 0)
               /\ h = Put(Put(g, "Scratch1", IF g["Scratch0"] = 0 THEN 1 ELSE 0), "Scratch2", 0)
  <2>1. Put(g, "Scratch1", m) = Contents(n, v, 0, 0, 0, l, m, 0, 0)
    BY <1>1, PutEach
  <2>2. Put(Put(g, "Scratch1", m), "Scratch2", 0) = Contents(n, v, 0, 0, 0, l, m, 0, 0)
    BY <2>1, PutEach
  <2>3. m = IF g["Scratch0"] = 0 THEN 1 ELSE 0
    BY <1>2, <1>7
  <2> QED
    BY <2>2, <2>3
<1>9. Runs(<<ZeroTest>>, <<0, g, p>>, <<0, h, p>>)
  BY <1>8, DoTest
<1>10. PICK t : t = <<0, IF l = 0 THEN Contents(n, v, 1, 0, 1, 0, 0, 0, 0)
                                  ELSE Contents(n, v, 0, 0, 0, l, 0, 0, 0), p>>
  OBVIOUS
<1>11. Runs(<<While("Scratch1", body)>>, <<0, h, p>>, t)
  <2>1. <<0, h, p>>[2]["Scratch1"] = m
    BY <1>8, EachField
  <2>2. CASE l = 0
    <3>1. h = Contents(n, v, 0, 0, 0, 0, 1, 0, 0) /\ h["Scratch1"] = 1
      BY <1>7, <1>8, <2>2, EachField
    <3>2. PICK x : x = Contents(n, v, 0, 0, 0, 0, 0, 0, 0) /\ x = Put(h, "Scratch1", 0) /\ x["Branch"] = 0
      BY <3>1, PutEach, EachField
    <3>3. PICK y : y = Contents(n, v, 0, 0, 1, 0, 0, 0, 0) /\ y = Put(x, "Branch", 1) /\ y["Condition"] = 0
      BY <3>2, PutEach, EachField
    <3>4. PICK z : z = Contents(n, v, 1, 0, 1, 0, 0, 0, 0) /\ z = Put(y, "Condition", 1) /\ z["Scratch1"] = 0
      BY <3>3, PutEach, EachField
    <3>5. Sum(1, -1) = 0 /\ Sum(0, 1) = 1
      BY BaseFacts, Sums
    <3>6. "Scratch1" \in Fields /\ "Branch" \in Fields /\ "Condition" \in Fields
      BY DEF Fields
    <3>7. Runs(<<Add("Scratch1", -1)>>, <<0, h, p>>, <<0, x, p>>)
      BY <3>1, <3>2, <3>5, <3>6, DoAdd
    <3>8. Runs(<<Add("Branch", 1)>>, <<0, x, p>>, <<0, y, p>>)
      BY <3>2, <3>3, <3>5, <3>6, DoAdd
    <3>9. Runs(<<Add("Condition", 1)>>, <<0, y, p>>, <<0, z, p>>)
      BY <3>3, <3>4, <3>5, <3>6, DoAdd
    <3>10. Runs(body, <<0, h, p>>, <<0, z, p>>)
      BY <1>5, <3>7, <3>8, <3>9, InThree
    <3>11. <<0, z, p>>[2]["Scratch1"] = 0 /\ <<0, h, p>>[2]["Scratch1"] # 0
      BY <3>1, <3>4
    <3>12. t = <<0, z, p>>
      BY <1>10, <2>2, <3>4
    <3> QED
      BY <3>10, <3>11, <3>12, Once
  <2>3. CASE l # 0
    <3>1. t = <<0, h, p>>
      BY <1>7, <1>8, <1>10, <2>3
    <3>2. <<0, h, p>>[2]["Scratch1"] = 0
      BY <1>7, <2>1, <2>3
    <3> QED
      BY <3>1, <3>2, Skip
  <2> QED
    BY <2>2, <2>3
<1>12. Runs(<<ZeroTest, While("Scratch1", body)>>, <<0, g, p>>, t)
  BY <1>9, <1>11, Two
<1> QED
  BY <1>1, <1>4, <1>6, <1>10, <1>12, Then

(* The bracket of everything that is not direct. *)
LEMMA ElseRuns ==
    ASSUME NEW m \in {0, 1}, NEW n, NEW v, NEW l, NEW p
    PROVE  Runs(Set("Branch", 1) \o <<While("Condition", <<Clear("Condition"), Clear("Branch")>>)>>,
                <<0, Contents(n, v, m, 0, 0, l, 0, 0, 0), p>>,
                <<0, Contents(n, v, 0, 0, 1 - m, l, 0, 0, 0), p>>)
<1>1. PICK g : g = Contents(n, v, m, 0, 0, l, 0, 0, 0) /\ IsFields(g)
  BY EachField
<1>2. PICK h : h = Contents(n, v, m, 0, 1, l, 0, 0, 0) /\ h = Put(g, "Branch", 1) /\ h["Condition"] = m
  BY <1>1, PutEach, EachField
<1>3. "Branch" \in Fields /\ "Condition" \in Fields /\ 1 \in Byte
  BY BaseFacts DEF Fields
<1>4. Runs(Set("Branch", 1), <<0, g, p>>, <<0, h, p>>)
  BY <1>1, <1>2, <1>3, SetTo
<1>5. PICK t : t = <<0, Contents(n, v, 0, 0, 1 - m, l, 0, 0, 0), p>>
  OBVIOUS
<1>6. Runs(<<While("Condition", <<Clear("Condition"), Clear("Branch")>>)>>, <<0, h, p>>, t)
  <2>1. CASE m = 1
    <3>1. PICK x : x = Contents(n, v, 0, 0, 1, l, 0, 0, 0) /\ x = Put(h, "Condition", 0)
      BY <1>2, PutEach
    <3>2. PICK y : y = Contents(n, v, 0, 0, 0, l, 0, 0, 0) /\ y = Put(x, "Branch", 0) /\ y["Condition"] = 0
      BY <3>1, PutEach, EachField
    <3>3. Runs(<<Clear("Condition")>>, <<0, h, p>>, <<0, x, p>>)
      BY <1>3, <3>1, DoClear
    <3>4. Runs(<<Clear("Branch")>>, <<0, x, p>>, <<0, y, p>>)
      BY <1>3, <3>2, DoClear
    <3>5. Runs(<<Clear("Condition"), Clear("Branch")>>, <<0, h, p>>, <<0, y, p>>)
      BY <3>3, <3>4, Two
    <3>6. <<0, h, p>>[2]["Condition"] # 0 /\ <<0, y, p>>[2]["Condition"] = 0
      BY <1>2, <2>1, <3>2
    <3>7. t = <<0, y, p>>
      <4>1. 1 - m = 0
        BY <2>1
      <4> QED
        BY <1>5, <3>2, <4>1
    <3> QED
      BY <3>5, <3>6, <3>7, Once
  <2>2. CASE m = 0
    <3>1. <<0, h, p>>[2]["Condition"] = 0
      BY <1>2, <2>2
    <3>2. t = <<0, h, p>>
      <4>1. 1 - m = 1
        BY <2>2
      <4> QED
        BY <1>2, <1>5, <2>2, <4>1
    <3> QED
      BY <3>1, <3>2, Skip
  <2> QED
    BY <2>1, <2>2
<1> QED
  BY <1>1, <1>4, <1>5, <1>6, Then


LEMMA ThenBoth ==
    ASSUME NEW b, NEW c, NEW d, IsSeq(c), IsSeq(d),
           NEW s, NEW t, NEW u, Runs(b, s, t), Runs(c \o d, t, u)
    PROVE  Runs((b \o c) \o d, s, u)
<1>1. IsSeq(b)
  BY DEF Runs
<1>2. (b \o c) \o d = b \o (c \o d)
  BY <1>1, Assoc
<1>3. Runs(b \o (c \o d), s, u)
  BY Then
<1> QED
  BY <1>2, <1>3

(* The accessor, all of it: the page of the high byte is read or written, *)
(* and the pointer and every field but Value are where they started.      *)
LEMMA AccessorRuns ==
    ASSUME maxPage \in Pages,
           NEW kind \in Kinds, NEW p, NEW l \in Byte, NEW n \in 0 .. PageCells - 1, NEW v,
           kind = "load" => v = 0
    PROVE  Runs(AggregateAccessor(kind), <<0, Contents(n, v, 0, 0, 0, l, 0, 0, 0), p>>,
                <<0, Contents(0, Fetched(kind, p, l, n), 0, 0, 0, 0, 0, 0, 0), Written(kind, p, l, n, v)>>)
<1>1. PICK c1, c2, c3, c4, c5, c6 :
          /\ c1 = DirectTest /\ c2 = Gate(DirectCountdown(kind)) /\ c3 = Set("Branch", 1)
          /\ c4 = <<While("Condition", <<Clear("Condition"), Clear("Branch")>>)>>
          /\ c5 = Gate(PagePortalAccessor(kind))
          /\ c6 = ClearAll(<<"Index", "Condition", "Restore", "Branch",
                             "Scratch0", "Scratch1", "Scratch2", "Scratch3">>)
  OBVIOUS
<1>2. AggregateAccessor(kind) = ((((c1 \o c2) \o c3) \o c4) \o c5) \o c6
  BY <1>1 DEF AggregateAccessor
<1>3. PICK u, q, s, t : /\ u = Fetched(kind, p, l, n) /\ q = Written(kind, p, l, n, v)
                        /\ s = <<0, Contents(n, v, 0, 0, 0, l, 0, 0, 0), p>>
                        /\ t = <<0, Contents(0, u, 0, 0, 0, 0, 0, 0, 0), q>>
  OBVIOUS
<1>4. Runs(c6, t, t)
  <2>1. PICK g : g = Contents(0, u, 0, 0, 0, 0, 0, 0, 0)
    OBVIOUS
  <2>2. /\ IsFields(g) /\ g["Index"] = 0 /\ g["Condition"] = 0 /\ g["Restore"] = 0 /\ g["Branch"] = 0
        /\ g["Scratch0"] = 0 /\ g["Scratch1"] = 0 /\ g["Scratch2"] = 0 /\ g["Scratch3"] = 0
    BY <2>1, EachField
  <2>3. PICK fs : fs = <<"Index", "Condition", "Restore", "Branch",
                         "Scratch0", "Scratch1", "Scratch2", "Scratch3">>
    OBVIOUS
  <2>4. fs \in Seq(Fields) /\ Len(fs) = 8
    BY <2>3 DEF Fields
  <2>5. /\ fs[1] = "Index" /\ fs[2] = "Condition" /\ fs[3] = "Restore" /\ fs[4] = "Branch"
        /\ fs[5] = "Scratch0" /\ fs[6] = "Scratch1" /\ fs[7] = "Scratch2" /\ fs[8] = "Scratch3"
    BY <2>3
  <2>6. \A j \in 1 .. 8 : g[fs[j]] = 0
    BY <2>2, <2>5
  <2>7. Runs(ClearAll(fs), <<0, g, q>>, <<0, g, q>>)
    BY <2>2, <2>4, <2>6, ClearNothing
  <2> QED
    BY <1>1, <1>3, <2>1, <2>3, <2>7
<1>5. PICK m \in {0, 1} : m = IF l = 0 THEN 1 ELSE 0
  OBVIOUS
<1>6. PICK s1 : s1 = <<0, Contents(n, v, m, 0, m, l, 0, 0, 0), p>> /\ Runs(c1, s, s1)
  <2>1. <<0, IF l = 0 THEN Contents(n, v, 1, 0, 1, 0, 0, 0, 0)
                      ELSE Contents(n, v, 0, 0, 0, l, 0, 0, 0), p>>
        = <<0, Contents(n, v, m, 0, m, l, 0, 0, 0), p>>
    BY <1>5
  <2>2. Runs(c1, s, <<0, IF l = 0 THEN Contents(n, v, 1, 0, 1, 0, 0, 0, 0)
                                  ELSE Contents(n, v, 0, 0, 0, l, 0, 0, 0), p>>)
    BY <1>1, <1>3, TestRuns
  <2> QED
    BY <2>1, <2>2
<1>7. IsSeq(c3) /\ IsSeq(c4)
  <2>1. IsSeq(<<>>)
    BY DEF IsSeq
  <2>2. IsSeq(c3)
    BY <1>1, <2>1, Pair DEF Set
  <2>3. IsSeq(c4)
    BY <1>1, LoopCode
  <2> QED
    BY <2>2, <2>3
<1>8. CASE l = 0
  <2>1. m = 1 /\ 1 - m = 0
    BY <1>5, <1>8
  <2>2. PICK s2 : s2 = <<0, Contents(0, u, 1, 0, 0, 0, 0, 0, 0), q>>
    OBVIOUS
  <2>3. Runs(c2, s1, s2)
    <3>1. PICK g : g = Contents(n, v, 1, 0, 1, 0, 0, 0, 0) /\ IsFields(g) /\ g["Branch"] = 1
      BY EachField
    <3>2. Put(g, "Branch", 0) = Contents(n, v, 1, 0, 0, 0, 0, 0, 0)
      BY <3>1, PutEach
    <3>3. Runs(DirectCountdown(kind), <<0, Put(g, "Branch", 0), p>>, s2)
      BY <1>3, <1>8, <2>2, <3>2, DirectRuns
    <3>4. s2[2]["Branch"] = 0
      <4>1. Contents(0, u, 1, 0, 0, 0, 0, 0, 0)["Branch"] = 0
        BY EachField
      <4> QED
        BY <2>2, <4>1
    <3>5. Runs(Gate(DirectCountdown(kind)), <<0, g, p>>, s2)
      BY <3>1, <3>3, <3>4, GateOpen
    <3> QED
      BY <1>1, <1>6, <1>8, <2>1, <3>1, <3>5
  <2>4. Runs(c3 \o c4, s2, t)
    <3>1. Runs(c3 \o c4, <<0, Contents(0, u, m, 0, 0, 0, 0, 0, 0), q>>,
                         <<0, Contents(0, u, 0, 0, 1 - m, 0, 0, 0, 0), q>>)
      BY <1>1, ElseRuns
    <3> QED
      BY <1>3, <2>1, <2>2, <3>1
  <2>5. Runs(c5, t, t)
    <3>1. Contents(0, u, 0, 0, 0, 0, 0, 0, 0)["Branch"] = 0
      BY EachField
    <3> QED
      BY <1>1, <1>3, <3>1, GateShut
  <2>6. Runs(c1 \o c2, s, s2)
    BY <1>6, <2>3, Then
  <2>7. Runs(((c1 \o c2) \o c3) \o c4, s, t)
    BY <1>7, <2>4, <2>6, ThenBoth
  <2>8. Runs((((c1 \o c2) \o c3) \o c4) \o c5, s, t)
    BY <2>5, <2>7, Then
  <2> QED
    BY <1>2, <1>3, <1>4, <2>8, Then
<1>9. CASE l # 0
  <2>1. m = 0 /\ 1 - m = 1 /\ s1 = s
    BY <1>3, <1>5, <1>6, <1>9
  <2>2. Runs(c2, s, s)
    <3>1. Contents(n, v, 0, 0, 0, l, 0, 0, 0)["Branch"] = 0
      BY EachField
    <3> QED
      BY <1>1, <1>3, <3>1, GateShut
  <2>3. PICK s3 : s3 = <<0, Contents(n, v, 0, 0, 1, l, 0, 0, 0), p>>
    OBVIOUS
  <2>4. Runs(c3 \o c4, s, s3)
    <3>1. Runs(c3 \o c4, <<0, Contents(n, v, m, 0, 0, l, 0, 0, 0), p>>,
                         <<0, Contents(n, v, 0, 0, 1 - m, l, 0, 0, 0), p>>)
      BY <1>1, ElseRuns
    <3> QED
      BY <1>3, <2>1, <2>3, <3>1
  <2>5. Runs(c5, s3, t)
    <3>1. PICK g : g = Contents(n, v, 0, 0, 1, l, 0, 0, 0) /\ IsFields(g) /\ g["Branch"] = 1
      BY EachField
    <3>2. Put(g, "Branch", 0) = Contents(n, v, 0, 0, 0, l, 0, 0, 0)
      BY <3>1, PutEach
    <3>3. Runs(PagePortalAccessor(kind), <<0, Put(g, "Branch", 0), p>>, t)
      BY <1>3, <3>2, PagePortalRuns
    <3>4. t[2]["Branch"] = 0
      <4>1. Contents(0, u, 0, 0, 0, 0, 0, 0, 0)["Branch"] = 0
        BY EachField
      <4> QED
        BY <1>3, <4>1
    <3>5. Runs(Gate(PagePortalAccessor(kind)), <<0, g, p>>, t)
      BY <3>1, <3>3, <3>4, GateOpen
    <3> QED
      BY <1>1, <2>3, <3>1, <3>5
  <2>6. Runs(c1 \o c2, s, s)
    BY <1>6, <2>1, <2>2, Then
  <2>7. Runs(((c1 \o c2) \o c3) \o c4, s, s3)
    BY <1>7, <2>4, <2>6, ThenBoth
  <2>8. Runs((((c1 \o c2) \o c3) \o c4) \o c5, s, t)
    BY <2>5, <2>7, Then
  <2> QED
    BY <1>2, <1>3, <1>4, <2>8, Then
<1> QED
  BY <1>8, <1>9


-----------------------------------------------------------------------------
(* The invariant.  While a request is served, the instructions that are    *)
(* left lead from where the pointer is to the end of the accessor.         *)
Asked(b) ==
    /\ b \in [request : Requests, payload : Payloads, value : Bytes]
    /\ b.request.op = "load" => b.value = 0

PageOf(b)  == b.request.offset \div PageCells
IndexOf(b) == b.request.offset % PageCells

FinalValue(b)   == Fetched(b.request.op, b.payload, PageOf(b), IndexOf(b))
FinalPayload(b) == Written(b.request.op, b.payload, PageOf(b), IndexOf(b), b.value)

Idle(u) == Contents(0, u, 0, 0, 0, 0, 0, 0, 0)

End(b) == <<<<>>, <<0, Idle(FinalValue(b)), FinalPayload(b)>>>>

OthersClean == portal = [q \in Pages |-> IF q = at THEN portal[at] ELSE ZeroPortal]

AtRest ==
    /\ work = <<>> /\ at = 0 /\ payload \in Payloads
    /\ \E u : portal[at] = Idle(u)

UnderWay ==
    /\ Asked(begun)
    /\ Leads(<<work, <<at, portal[at], payload>>>>, End(begun))

IInv ==
    /\ maxPage \in Pages /\ at \in Pages
    /\ OthersClean /\ IsFields(portal[at])
    /\ begun = None => AtRest
    /\ begun # None => UnderWay

LEMMA ZeroIdle == ZeroPortal = Idle(0)
<1>1. PICK h : h = Idle(0)
  OBVIOUS
<1>2. IsFields(h) /\ \A f \in Fields : h[f] = 0
  BY <1>1, EachField, Nine DEF Idle
<1>3. IsFields(ZeroPortal) /\ \A f \in Fields : ZeroPortal[f] = 0
  BY DEF ZeroPortal, IsFields
<1> QED
  BY <1>1, <1>2, <1>3, SameFields

LEMMA SizeFacts ==
    /\ PageCells \in Nat \ {0} /\ PageCells <= Base /\ Base * PageCells \in Nat
    /\ Base * PageCells = PageCells * Base /\ Bytes \subseteq Byte /\ LargestPages \subseteq Pages
    /\ 0 \in 0 .. PageCells - 1
<1>1. PageCells \in Nat \ {0} /\ PageCells <= Base /\ Base \in Nat
  BY PortalPageAssumption, BaseFacts
<1>2. Base * PageCells \in Nat /\ Base * PageCells = PageCells * Base
  BY <1>1
<1>3. Bytes \subseteq Byte /\ LargestPages \subseteq Pages
  BY PortalPageAssumption DEF Byte
<1> QED
  BY <1>1, <1>2, <1>3

LEMMA OffsetFacts ==
    ASSUME NEW o \in Offsets
    PROVE  /\ o \div PageCells \in Pages /\ o \div PageCells \in Byte
           /\ o % PageCells \in 0 .. PageCells - 1
           /\ o = PageCells * (o \div PageCells) + (o % PageCells)
<1>1. o \in Nat /\ o < PageCells * Base
  BY SizeFacts DEF Offsets
<1>2. o \div PageCells \in Nat /\ o % PageCells \in 0 .. PageCells - 1
      /\ o = PageCells * (o \div PageCells) + (o % PageCells)
  BY <1>1, SizeFacts, Quotient
<1>3. o \div PageCells < Base
  BY <1>1, SizeFacts, BaseFacts, SmallQuotient
<1>4. o \div PageCells \in Pages
  BY <1>2, <1>3, BaseFacts DEF Pages
<1> QED
  BY <1>2, <1>4, BaseFacts

LEMMA OffsetOf ==
    ASSUME NEW l \in Pages, NEW n \in 0 .. PageCells - 1
    PROVE  /\ PageCells * l + n \in Offsets
           /\ (PageCells * l + n) \div PageCells = l /\ (PageCells * l + n) % PageCells = n
<1>1. l \in Nat /\ l <= Base - 1 /\ Base \in Nat /\ n \in Nat
  BY BaseFacts, SizeFacts DEF Pages
<1>2. PICK w \in Nat \ {0} : w = PageCells /\ n \in 0 .. w - 1 /\ Base * PageCells = w * Base
  BY SizeFacts
<1>3. PICK r \in Nat : Base = l + 1 + r
  <2>1. Base - l - 1 \in Nat /\ Base = l + 1 + (Base - l - 1)
    BY <1>1
  <2> QED
    BY <2>1
<1>4. w * Base = w * l + w + w * r /\ w * r \in Nat /\ w * l \in Nat
  BY <1>1, <1>3
<1>5. w * l + n \in 0 .. Base * PageCells - 1
  BY <1>1, <1>2, <1>4
<1>6. (w * l + n) \div w = l /\ (w * l + n) % w = n
  BY <1>1, <1>2, DigitsOf
<1> QED
  BY <1>2, <1>5, <1>6 DEF Offsets


LEMMA FinalPayloads ==
    ASSUME NEW b, Asked(b)
    PROVE  FinalPayload(b) \in Payloads
<1>1. PICK p \in Payloads, v \in Byte, o \in Offsets, kind \in Kinds :
          p = b.payload /\ v = b.value /\ o = b.request.offset /\ kind = b.request.op
  <2>1. b.payload \in Payloads /\ b.value \in Byte /\ b.request.offset \in Offsets /\ b.request.op \in Kinds
    BY SizeFacts DEF Asked, Requests, Kinds
  <2> QED
    BY <2>1
<1>2. PICK l \in Pages, n \in 0 .. PageCells - 1 : l = PageOf(b) /\ n = IndexOf(b)
  BY <1>1, OffsetFacts DEF PageOf, IndexOf
<1>3. Put(p[l], n, v) \in [0 .. PageCells - 1 -> 0 .. Base - 1]
  <2>1. p[l] \in [0 .. PageCells - 1 -> 0 .. Base - 1] /\ v \in 0 .. Base - 1
    BY DEF Payloads, Byte
  <2> QED
    BY <2>1 DEF Put
<1>4. [p EXCEPT ![l] = Put(p[l], n, v)] \in Payloads
  BY <1>3 DEF Payloads
<1> QED
  BY <1>1, <1>2, <1>4 DEF FinalPayload, Written

(* The portal the pointer is on, changed. *)
LEMMA HereChanged ==
    ASSUME OthersClean, at \in Pages, NEW h, portal' = [portal EXCEPT ![at] = h], at' = at,
           IsFields(h)
    PROVE  OthersClean' /\ portal'[at'] = h /\ IsFields(portal'[at'])
<1>1. DOMAIN portal = Pages
  BY DEF OthersClean
<1>2. portal'[at] = h
  BY <1>1
<1>3. \A q \in Pages : portal'[q] = IF q = at THEN h ELSE ZeroPortal
  BY <1>1 DEF OthersClean
<1>4. portal' = [q \in Pages |-> portal'[q]]
  BY <1>1
<1>5. portal' = [q \in Pages |-> IF q = at THEN h ELSE ZeroPortal]
  BY <1>3, <1>4
<1> QED
  BY <1>2, <1>5 DEF OthersClean

(* A jump that takes along whatever is not zero. *)
LEMMA HereMoved ==
    ASSUME OthersClean, at \in Pages, NEW fields, at' \in Pages, at' # at,
           IsFields(portal[at]), \A f \in Fields \ fields : portal[at][f] = 0,
           portal' = [portal EXCEPT
               ![at'] = [f \in Fields |-> IF f \in fields THEN portal[at][f] ELSE @[f]],
               ![at]  = [f \in Fields |-> IF f \in fields THEN 0 ELSE @[f]]]
    PROVE  OthersClean' /\ portal'[at'] = portal[at]
<1>1. PICK h : h = portal[at] /\ IsFields(h) /\ \A f \in Fields \ fields : h[f] = 0
  OBVIOUS
<1>2. DOMAIN portal = Pages /\ portal[at'] = ZeroPortal
  BY DEF OthersClean
<1>3. \A f \in Fields : ZeroPortal[f] = 0
  BY DEF ZeroPortal
<1>4. [f \in Fields |-> IF f \in fields THEN h[f] ELSE ZeroPortal[f]] = h
  <2>1. \A f \in Fields : (IF f \in fields THEN h[f] ELSE ZeroPortal[f]) = h[f]
    BY <1>1, <1>3
  <2>2. [f \in Fields |-> IF f \in fields THEN h[f] ELSE ZeroPortal[f]] = [f \in Fields |-> h[f]]
    BY <2>1
  <2> QED
    BY <1>1, <2>2 DEF IsFields
<1>5. [f \in Fields |-> IF f \in fields THEN 0 ELSE h[f]] = ZeroPortal
  <2>1. \A f \in Fields : (IF f \in fields THEN 0 ELSE h[f]) = 0
    BY <1>1
  <2> QED
    BY <2>1 DEF ZeroPortal
<1>6. portal' = [portal EXCEPT ![at'] = h, ![at] = ZeroPortal]
  BY <1>1, <1>2, <1>4, <1>5
<1>7. \A q \in Pages : portal'[q] = IF q = at' THEN h ELSE ZeroPortal
  BY <1>2, <1>6 DEF OthersClean
<1>8. portal' = [q \in Pages |-> portal'[q]]
  BY <1>2, <1>6
<1>9. portal' = [q \in Pages |-> IF q = at' THEN h ELSE ZeroPortal]
  BY <1>7, <1>8
<1>10. portal'[at'] = h
  BY <1>7
<1> QED
  BY <1>1, <1>9, <1>10 DEF OthersClean


-----------------------------------------------------------------------------
(* A step of the code follows the way that leads to the end. *)
Now == <<work, <<at, portal[at], payload>>>>

LEMMA NowParts ==
    /\ Now[1] = work /\ Now[2] = <<at, portal[at], payload>>
    /\ Now[2][1] = at /\ Now[2][2] = portal[at] /\ Now[2][3] = payload
BY DEF Now

LEMMA OnTheWay ==
    ASSUME IInv, work # <<>>
    PROVE  begun # None /\ Running(Now) /\ Leads(After(Now), End(begun))
<1>1. begun # None
  BY DEF IInv, AtRest
<1>2. Leads(Now, End(begun))
  BY <1>1 DEF IInv, UnderWay, Now
<1>3. Now # End(begun)
  <2>1. End(begun)[1] = <<>>
    BY DEF End
  <2> QED
    BY <2>1, NowParts
<1> QED
  BY <1>1, <1>2, <1>3, LeadsOn

LEMMA FollowsOn ==
    ASSUME IInv, work # <<>>, begun' = begun, maxPage' = maxPage, at' \in Pages,
           OthersClean', IsFields(portal'[at']), Now' = After(Now)
    PROVE  IInv'
<1>1. begun # None /\ Leads(After(Now), End(begun))
  BY OnTheWay
<1>2. Asked(begun')
  BY <1>1 DEF IInv, UnderWay
<1>3. Leads(Now', End(begun'))
  BY <1>1
<1>4. UnderWay'
  BY <1>2, <1>3 DEF UnderWay, Now
<1> QED
  BY <1>1, <1>4 DEF IInv

LEMMA FieldSteps ==
    ASSUME IInv, Field
    PROVE  IInv'
<1>1. work # <<>> /\ work' = Tail(work)
  BY DEF Field, Is
<1>2. Running(Now) /\ begun # None
  BY <1>1, OnTheWay
<1>3. PICK i, h : i = Head(work) /\ h = portal[at] /\ IsFields(h)
  BY DEF IInv
<1>4. at \in Pages /\ OthersClean /\ at' = at /\ payload' = payload /\ begun' = begun /\ maxPage' = maxPage
  BY DEF IInv, Field
<1>5. i.op # "while" => Allowed(i, <<at, h, payload>>)
  BY <1>2, <1>3, NowParts DEF Running
<1>6. i.op # "while" => After(Now) = <<Tail(work), Effect(i, <<at, h, payload>>)>>
  BY <1>3, NowParts DEF After
<1>7. PICK s : s = <<at, h, payload>> /\ s[1] = at /\ s[2] = h /\ s[3] = payload
  <2>1. <<at, h, payload>>[1] = at /\ <<at, h, payload>>[2] = h /\ <<at, h, payload>>[3] = payload
    OBVIOUS
  <2> QED
    BY <2>1
<1>8. PICK g : portal' = [portal EXCEPT ![at] = g] /\ IsFields(g) /\ i.op # "while"
               /\ Effect(i, s) = <<at, g, payload>>
  <2>1. CASE i.op = "add"
    <3>1. i.field \in Fields
      BY <1>5, <2>1 DEF Allowed
    <3>2. portal' = [portal EXCEPT ![at] = Put(h, i.field, Sum(h[i.field], i.by))]
      BY <1>3, <2>1 DEF Field, Is, Instr, SetHere, Here, Put
    <3>3. Effect(i, s) = <<at, Put(h, i.field, Sum(h[i.field], i.by)), payload>>
      BY <1>7, <2>1 DEF Effect
    <3> QED
      BY <1>3, <2>1, <3>1, <3>2, <3>3, PutFacts
  <2>2. CASE i.op = "clear"
    <3>1. i.field \in Fields
      BY <1>5, <2>2 DEF Allowed
    <3>2. portal' = [portal EXCEPT ![at] = Put(h, i.field, 0)]
      BY <1>3, <2>2 DEF Field, Is, Instr, SetHere, Here, Put
    <3>3. Effect(i, s) = <<at, Put(h, i.field, 0), payload>>
      BY <1>7, <2>2 DEF Effect
    <3> QED
      BY <1>3, <2>2, <3>1, <3>2, <3>3, PutFacts
  <2>3. CASE i.op = "test"
    <3>1. PICK m : m = IF h["Scratch0"] = 0 THEN 1 ELSE 0
      OBVIOUS
    <3>2. PICK g : g = Put(Put(h, "Scratch1", m), "Scratch2", 0) /\ IsFields(g)
      <4>1. "Scratch1" \in Fields /\ "Scratch2" \in Fields
        BY DEF Fields
      <4>2. IsFields(Put(h, "Scratch1", m))
        BY <1>3, <4>1, PutFacts
      <4>3. IsFields(Put(Put(h, "Scratch1", m), "Scratch2", 0))
        BY <4>1, <4>2, PutFacts
      <4> QED
        BY <4>3
    <3>3. DOMAIN portal = Pages
      BY <1>4 DEF OthersClean
    <3>4. portal' = [portal EXCEPT ![at].Scratch1 = m, ![at].Scratch2 = 0]
      BY <1>3, <2>3, <3>1 DEF Field, Is, Instr, Here
    <3>5. portal' = [portal EXCEPT ![at] = g]
      BY <1>3, <1>4, <3>2, <3>3, <3>4 DEF Put
    <3>6. Effect(i, s) = <<at, g, payload>>
      BY <1>7, <2>3, <3>1, <3>2 DEF Effect
    <3> QED
      BY <2>3, <3>2, <3>5, <3>6
  <2> QED
    BY <1>3, <2>1, <2>2, <2>3 DEF Field, Is, Instr
<1>9. OthersClean' /\ portal'[at'] = g /\ IsFields(portal'[at'])
  BY <1>4, <1>8, HereChanged
<1>10. Now' = After(Now)
  BY <1>1, <1>4, <1>6, <1>7, <1>8, <1>9 DEF Now
<1> QED
  BY <1>1, <1>4, <1>9, <1>10, FollowsOn


LEMMA PayloadSteps ==
    ASSUME IInv, PayloadCase
    PROVE  IInv'
<1>1. work # <<>> /\ work' = Tail(work)
  BY DEF PayloadCase, Is
<1>2. Running(Now) /\ begun # None
  BY <1>1, OnTheWay
<1>3. PICK i, h : i = Head(work) /\ h = portal[at] /\ IsFields(h)
  BY DEF IInv
<1>4. at \in Pages /\ OthersClean /\ at' = at /\ begun' = begun /\ maxPage' = maxPage
  BY DEF IInv, PayloadCase
<1>5. i.op # "while" => After(Now) = <<Tail(work), Effect(i, <<at, h, payload>>)>>
  BY <1>3, NowParts DEF After
<1>6. PICK s : s = <<at, h, payload>> /\ s[1] = at /\ s[2] = h /\ s[3] = payload
  <2>1. <<at, h, payload>>[1] = at /\ <<at, h, payload>>[2] = h /\ <<at, h, payload>>[3] = payload
    OBVIOUS
  <2> QED
    BY <2>1
<1>7. "Value" \in Fields /\ "Scratch2" \in Fields /\ DOMAIN portal = Pages
  BY <1>4 DEF Fields, OthersClean
<1>8. PICK g : portal' = [portal EXCEPT ![at] = g] /\ IsFields(g) /\ i.op # "while"
               /\ Effect(i, s) = <<at, g, payload'>>
  <2>1. CASE i.op = "load"
    <3>1. PICK m : m = payload[at][i.index]
      OBVIOUS
    <3>2. PICK g : g = Put(Put(h, "Value", m), "Scratch2", 0) /\ IsFields(g)
      <4>1. IsFields(Put(h, "Value", m))
        BY <1>3, <1>7, PutFacts
      <4>2. IsFields(Put(Put(h, "Value", m), "Scratch2", 0))
        BY <1>7, <4>1, PutFacts
      <4> QED
        BY <4>2
    <3>3. portal' = [portal EXCEPT ![at].Value = m, ![at].Scratch2 = 0] /\ payload' = payload
      BY <1>3, <2>1, <3>1 DEF PayloadCase, Is, Instr, Here
    <3>4. portal' = [portal EXCEPT ![at] = g]
      BY <1>3, <1>4, <1>7, <3>2, <3>3 DEF Put
    <3>5. Effect(i, s) = <<at, g, payload'>>
      BY <1>6, <2>1, <3>1, <3>2, <3>3 DEF Effect
    <3> QED
      BY <2>1, <3>2, <3>4, <3>5
  <2>2. CASE i.op = "store"
    <3>1. portal' = [portal EXCEPT ![at] = Put(h, "Value", 0)]
      BY <1>3, <2>2 DEF PayloadCase, Is, Instr, SetHere, Put
    <3>2. payload' = [payload EXCEPT ![at] = Put(payload[at], i.index, h["Value"])]
      BY <1>3, <2>2 DEF PayloadCase, Is, Instr, Here, Put
    <3>3. Effect(i, s) = <<at, Put(h, "Value", 0), payload'>>
      BY <1>6, <2>2, <3>2 DEF Effect
    <3> QED
      BY <1>3, <1>7, <2>2, <3>1, <3>3, PutFacts
  <2> QED
    BY <1>3, <2>1, <2>2 DEF PayloadCase, Is, Instr
<1>9. OthersClean' /\ portal'[at'] = g /\ IsFields(portal'[at'])
  BY <1>4, <1>8, HereChanged
<1>10. Now' = After(Now)
  BY <1>1, <1>4, <1>5, <1>6, <1>8, <1>9 DEF Now
<1> QED
  BY <1>1, <1>4, <1>9, <1>10, FollowsOn

LEMMA JumpSteps ==
    ASSUME IInv, Jump
    PROVE  IInv'
<1>1. work # <<>> /\ work' = Tail(work)
  BY DEF Jump, Is
<1>2. Running(Now) /\ begun # None
  BY <1>1, OnTheWay
<1>3. PICK i, h : i = Head(work) /\ h = portal[at] /\ IsFields(h) /\ i.op = "carry"
  BY DEF IInv, Jump, Is, Instr
<1>4. /\ at \in Pages /\ OthersClean /\ at' = at + i.by
      /\ payload' = payload /\ begun' = begun /\ maxPage' = maxPage
  BY <1>3 DEF IInv, Jump, Instr
<1>5. PICK s : s = <<at, h, payload>> /\ s[1] = at /\ s[2] = h /\ s[3] = payload
  <2>1. <<at, h, payload>>[1] = at /\ <<at, h, payload>>[2] = h /\ <<at, h, payload>>[3] = payload
    OBVIOUS
  <2> QED
    BY <2>1
<1>6. Allowed(i, s)
  BY <1>2, <1>3, <1>5, NowParts DEF Running
<1>7. i.by \in Int /\ i.by # 0 /\ at + i.by \in Pages /\ \A f \in Fields \ i.fields : h[f] = 0
  BY <1>3, <1>5, <1>6 DEF Allowed
<1>8. After(Now) = <<Tail(work), <<at + i.by, h, payload>>>>
  <2>1. After(Now) = <<Tail(work), Effect(i, s)>>
    BY <1>3, <1>5, NowParts DEF After
  <2>2. Effect(i, s) = <<at + i.by, h, payload>>
    BY <1>3, <1>5 DEF Effect
  <2> QED
    BY <2>1, <2>2
<1>9. at' \in Pages /\ at' # at
  BY <1>4, <1>7, BaseFacts DEF Pages
<1>10. portal' = [portal EXCEPT
               ![at'] = [f \in Fields |-> IF f \in i.fields THEN portal[at][f] ELSE @[f]],
               ![at]  = [f \in Fields |-> IF f \in i.fields THEN 0 ELSE @[f]]]
  BY <1>3 DEF Jump, Instr, Here
<1>11. OthersClean' /\ portal'[at'] = portal[at]
  <2>1. \A f \in Fields \ i.fields : portal[at][f] = 0
    BY <1>3, <1>7
  <2> QED
    BY <1>3, <1>4, <1>9, <1>10, <2>1, HereMoved
<1>12. Now' = After(Now)
  BY <1>1, <1>3, <1>4, <1>8, <1>11 DEF Now
<1> QED
  BY <1>1, <1>3, <1>4, <1>9, <1>11, <1>12, FollowsOn

LEMMA LoopSteps ==
    ASSUME IInv, Loop
    PROVE  IInv'
<1>1. work # <<>> /\ Head(work).op = "while"
  BY DEF Loop, Is, Instr
<1>2. work' = IF portal[at][Head(work).field] # 0 THEN Head(work).body \o work ELSE Tail(work)
  BY DEF Loop, Instr, Here
<1>3. at' = at /\ portal' = portal /\ payload' = payload /\ begun' = begun /\ maxPage' = maxPage
  BY DEF Loop
<1>4. Now' = After(Now)
  <2>1. After(Now) = <<IF portal[at][Head(work).field] # 0 THEN Head(work).body \o work ELSE Tail(work),
                       <<at, portal[at], payload>>>>
    BY <1>1, NowParts DEF After
  <2> QED
    BY <1>2, <1>3, <2>1 DEF Now
<1>5. at' \in Pages /\ OthersClean' /\ IsFields(portal'[at'])
  BY <1>3 DEF IInv, OthersClean
<1> QED
  BY <1>1, <1>3, <1>4, <1>5, FollowsOn


-----------------------------------------------------------------------------
(* A request arrives; the accessor has ended. *)
LEMMA RequestFacts ==
    ASSUME IInv, Request
    PROVE  \E kind \in Kinds, o \in Offsets, v \in Bytes :
               /\ kind = "load" => v = 0
               /\ begun' = [request |-> [op |-> kind, offset |-> o], payload |-> payload, value |-> v]
               /\ begun' # None /\ begun'.request # None /\ Asked(begun')
               /\ portal' = [portal EXCEPT ![0] = Contents(o % PageCells, v, 0, 0, 0,
                                                           o \div PageCells, 0, 0, 0)]
               /\ work' = AggregateAccessor(kind)
<1>1. begun = None /\ AtRest
  BY DEF IInv, Request
<1>2. PICK kind \in Kinds, high \in Pages, index \in 0 .. PageCells - 1, v \in Bytes :
          /\ kind = "load" => v = 0
          /\ portal' = [portal EXCEPT ![0] =
                            [ZeroPortal EXCEPT !.Index = index, !.Scratch0 = high, !.Value = v]]
          /\ begun' = [request |-> [op |-> kind, offset |-> PageCells * high + index],
                       payload |-> payload, value |-> v]
          /\ work' = AggregateAccessor(kind)
  BY Zenon DEF Request, Kinds
<1>3. PICK o \in Offsets : o = PageCells * high + index /\ o \div PageCells = high /\ o % PageCells = index
  BY OffsetOf
<1>4. PICK b : b = [request |-> [op |-> kind, offset |-> o], payload |-> payload, value |-> v]
  OBVIOUS
<1>5. b.request \in Requests /\ b \in [request : Requests, payload : Payloads, value : Bytes]
  BY <1>1, <1>4 DEF Requests, Kinds, AtRest
<1>6. Asked(b) /\ b # None /\ b.request # None
  <2>1. b.request.op = "load" => b.value = 0
    BY <1>2, <1>4
  <2>2. b \in [request : Requests, payload : Payloads, value : Byte]
    BY <1>5, SizeFacts
  <2> QED
    BY <1>5, <2>1, <2>2, PortalPageAssumption DEF Asked
<1>7. [ZeroPortal EXCEPT !.Index = index, !.Scratch0 = high, !.Value = v]
          = Contents(index, v, 0, 0, 0, high, 0, 0, 0)
  <2>1. PICK g : g = Contents(0, 0, 0, 0, 0, 0, 0, 0, 0) /\ ZeroPortal = g
    BY ZeroIdle DEF Idle
  <2>2. PICK h : h = Put(g, "Index", index) /\ h = Contents(index, 0, 0, 0, 0, 0, 0, 0, 0)
    BY <2>1, PutEach
  <2>3. PICK j : j = Put(h, "Scratch0", high) /\ j = Contents(index, 0, 0, 0, 0, high, 0, 0, 0)
    BY <2>2, PutEach
  <2>4. Put(j, "Value", v) = Contents(index, v, 0, 0, 0, high, 0, 0, 0)
    BY <2>3, PutEach
  <2>5. [g EXCEPT !.Index = index, !.Scratch0 = high, !.Value = v] = Put(j, "Value", v)
    BY <2>2, <2>3 DEF Put
  <2> QED
    BY <2>1, <2>4, <2>5
<1>8. portal' = [portal EXCEPT ![0] = Contents(o % PageCells, v, 0, 0, 0, o \div PageCells, 0, 0, 0)]
  BY <1>2, <1>3, <1>7
<1>9. begun' = b
  BY <1>2, <1>3, <1>4
<1> QED
  BY <1>2, <1>4, <1>6, <1>8, <1>9

LEMMA CodeLeads ==
    ASSUME NEW c, NEW s, NEW t, Runs(c, s, t)
    PROVE  Leads(<<c, s>>, <<<<>>, t>>)
<1>1. PICK e : e = <<>> /\ IsSeq(e)
  <2>1. IsSeq(<<>>)
    BY DEF IsSeq
  <2> QED
    BY <2>1
<1>2. Leads(<<e, t>>, <<e, t>>)
  BY LeadsSelf
<1>3. Leads(<<c \o e, s>>, <<e, t>>)
  BY <1>1, <1>2 DEF Runs
<1>4. c \o e = c
  <2>1. PICK S : c \in Seq(S)
    BY DEF Runs, IsSeq
  <2> QED
    BY <1>1, <2>1, ConcatEmptySeq
<1> QED
  BY <1>1, <1>3, <1>4

LEMMA RequestSteps ==
    ASSUME IInv, Request
    PROVE  IInv'
<1>1. begun = None /\ AtRest /\ at = 0 /\ OthersClean /\ maxPage \in Pages /\ at \in Pages
  BY DEF IInv, Request, AtRest
<1>2. at' = at /\ payload' = payload /\ maxPage' = maxPage
  BY DEF Request
<1>3. PICK kind \in Kinds, o \in Offsets, v \in Bytes :
          /\ kind = "load" => v = 0
          /\ begun' = [request |-> [op |-> kind, offset |-> o], payload |-> payload, value |-> v]
          /\ begun' # None /\ begun'.request # None /\ Asked(begun')
          /\ portal' = [portal EXCEPT ![0] = Contents(o % PageCells, v, 0, 0, 0,
                                                      o \div PageCells, 0, 0, 0)]
          /\ work' = AggregateAccessor(kind)
  BY RequestFacts
<1>4. PICK l \in Byte, n \in 0 .. PageCells - 1 : l = o \div PageCells /\ n = o % PageCells
  BY OffsetFacts
<1>5. PICK h : h = Contents(n, v, 0, 0, 0, l, 0, 0, 0) /\ IsFields(h)
  BY EachField
<1>6. OthersClean' /\ portal'[at'] = h /\ IsFields(portal'[at'])
  <2>1. portal' = [portal EXCEPT ![at] = h]
    BY <1>1, <1>3, <1>4, <1>5
  <2> QED
    BY <1>1, <1>2, <1>5, <2>1, HereChanged
<1>7. PICK t : t = <<0, Contents(0, Fetched(kind, payload, l, n), 0, 0, 0, 0, 0, 0, 0),
                     Written(kind, payload, l, n, v)>>
  OBVIOUS
<1>8. Runs(AggregateAccessor(kind), <<0, h, payload>>, t)
  BY <1>1, <1>3, <1>5, <1>7, AccessorRuns
<1>9. Leads(<<AggregateAccessor(kind), <<0, h, payload>>>>, <<<<>>, t>>)
  BY <1>8, CodeLeads
<1>10. End(begun') = <<<<>>, t>>
  <2>1. PICK b : b = begun'
    OBVIOUS
  <2>2. b.request.op = kind /\ b.request.offset = o /\ b.payload = payload /\ b.value = v
    BY <1>3, <2>1
  <2>3. PageOf(b) = l /\ IndexOf(b) = n
    BY <1>4, <2>2 DEF PageOf, IndexOf
  <2>4. End(b) = <<<<>>, t>>
    BY <1>7, <2>2, <2>3 DEF End, FinalValue, FinalPayload, Idle
  <2> QED
    BY <2>1, <2>4
<1>11. <<work', <<at', portal'[at'], payload'>>>> = <<AggregateAccessor(kind), <<0, h, payload>>>>
  BY <1>1, <1>2, <1>3, <1>6
<1>12. UnderWay'
  BY <1>3, <1>9, <1>10, <1>11 DEF UnderWay
<1> QED
  BY <1>1, <1>2, <1>3, <1>6, <1>12 DEF IInv

(* The code has run out: it is where it leads to. *)
LEMMA Finished ==
    ASSUME IInv, work = <<>>, begun # None
    PROVE  /\ Asked(begun) /\ at = 0
           /\ portal[at] = Idle(FinalValue(begun)) /\ payload = FinalPayload(begun)
<1>1. Asked(begun) /\ Leads(Now, End(begun))
  BY DEF IInv, UnderWay, Now
<1>2. ~Running(Now)
  BY NowParts DEF Running
<1>3. Now = End(begun)
  BY <1>1, <1>2, LeadsOn
<1> QED
  BY <1>1, <1>3 DEF Now, End

LEMMA ReturnSteps ==
    ASSUME IInv, Return
    PROVE  IInv'
<1>1. work = <<>> /\ begun # None /\ begun' = None
  BY DEF Return
<1>2. at' = at /\ portal' = portal /\ payload' = payload /\ work' = work /\ maxPage' = maxPage
  BY DEF Return
<1>3. /\ Asked(begun) /\ at = 0
      /\ portal[at] = Idle(FinalValue(begun)) /\ payload = FinalPayload(begun)
  BY <1>1, Finished
<1>4. payload \in Payloads
  BY <1>3, FinalPayloads
<1>5. AtRest'
  BY <1>1, <1>2, <1>3, <1>4 DEF AtRest
<1>6. OthersClean' /\ IsFields(portal'[at']) /\ maxPage' \in Pages /\ at' \in Pages
  BY <1>2 DEF IInv, OthersClean
<1> QED
  BY <1>1, <1>5, <1>6 DEF IInv


-----------------------------------------------------------------------------
LEMMA Starts == Init => IInv
<1> SUFFICES ASSUME Init PROVE IInv
  OBVIOUS
<1>1. 0 \in Pages /\ maxPage \in Pages /\ at = 0 /\ begun = None /\ work = <<>>
  BY SizeFacts, BaseFacts DEF Init
<1>2. portal = [q \in Pages |-> ZeroPortal] /\ portal[at] = ZeroPortal
  BY <1>1 DEF Init
<1>3. OthersClean
  BY <1>2 DEF OthersClean
<1>4. IsFields(portal[at])
  BY <1>2 DEF IsFields, ZeroPortal
<1>5. payload \in Payloads
  <2>1. 0 \in 0 .. Base - 1
    BY BaseFacts DEF Byte
  <2> QED
    BY <2>1 DEF Init, Payloads
<1>6. AtRest
  BY <1>1, <1>2, <1>5, ZeroIdle DEF AtRest
<1> QED
  BY <1>1, <1>3, <1>4, <1>6 DEF IInv

LEMMA Stays == IInv /\ [Next]_vars => IInv'
<1> SUFFICES ASSUME IInv, [Next]_vars PROVE IInv'
  OBVIOUS
<1>1. CASE Request
  BY <1>1, RequestSteps
<1>2. CASE Field
  BY <1>2, FieldSteps
<1>3. CASE PayloadCase
  BY <1>3, PayloadSteps
<1>4. CASE Jump
  BY <1>4, JumpSteps
<1>5. CASE Loop
  BY <1>5, LoopSteps
<1>6. CASE Return
  BY <1>6, ReturnSteps
<1>7. CASE UNCHANGED vars
  BY <1>7 DEF vars, IInv, OthersClean, AtRest, UnderWay
<1> QED
  BY <1>1, <1>2, <1>3, <1>4, <1>5, <1>6, <1>7 DEF Next, Step

LEMMA Cleans == IInv => PortalsClean
<1> SUFFICES ASSUME IInv PROVE PortalsClean
  OBVIOUS
<1>1. \A q \in Pages \ {at} : portal[q] = ZeroPortal
  <2>1. OthersClean
    BY DEF IInv
  <2> QED
    BY <2>1 DEF OthersClean
<1>2. ASSUME work = <<>> PROVE at = 0 /\ \A f \in Fields \ {"Value"} : Here[f] = 0
  <2>1. PICK u : at = 0 /\ portal[at] = Idle(u)
    <3>1. CASE begun = None
      BY <3>1 DEF IInv, AtRest
    <3>2. CASE begun # None
      BY <1>2, <3>2, Finished
    <3> QED
      BY <3>1, <3>2
  <2>2. PICK h : h = portal[at] /\ h = Contents(0, u, 0, 0, 0, 0, 0, 0, 0)
    BY <2>1 DEF Idle
  <2>3. \A f \in Fields \ {"Value"} : h[f] = 0
    BY <2>2, EachField, Nine
  <2> QED
    BY <2>1, <2>2, <2>3 DEF Here
<1> QED
  BY <1>1, <1>2 DEF PortalsClean

(* Whatever is asked for, at whatever offset and of whatever size the      *)
(* program's regions are, no field of the protocol stays behind at a page  *)
(* the request has left, and at the end it is home with nothing but Value  *)
(* (emit_page_portal_jump_level, emit_portal_direct_test).                 *)
THEOREM PagesStayClean == Spec => []PortalsClean
<1>1. Init => IInv
  BY Starts
<1>2. IInv /\ [Next]_vars => IInv'
  BY Stays
<1>3. IInv => PortalsClean
  BY Cleans
<1> QED
  BY <1>1, <1>2, <1>3, PTL DEF Spec

-----------------------------------------------------------------------------
(* The payload as one array. *)
LEMMA FlatAt ==
    ASSUME NEW p, NEW o \in Offsets
    PROVE  Flat(p)[o] = p[o \div PageCells][o % PageCells]
BY DEF Flat

LEMMA FlatPut ==
    ASSUME NEW p \in Payloads, NEW o \in Offsets, NEW l, NEW n,
           l = o \div PageCells, n = o % PageCells, NEW v
    PROVE  Flat([p EXCEPT ![l] = Put(p[l], n, v)]) = [Flat(p) EXCEPT ![o] = v]
<1>1. PICK q : q = [p EXCEPT ![l] = Put(p[l], n, v)]
  OBVIOUS
<1>2. l \in Pages /\ n \in 0 .. PageCells - 1
  BY OffsetFacts
<1>3. \A k \in Offsets : Flat(q)[k] = [Flat(p) EXCEPT ![o] = v][k]
  <2> SUFFICES ASSUME NEW k \in Offsets PROVE Flat(q)[k] = [Flat(p) EXCEPT ![o] = v][k]
    OBVIOUS
  <2>1. PICK j, m : j = k \div PageCells /\ m = k % PageCells
                    /\ j \in Pages /\ m \in 0 .. PageCells - 1
    BY OffsetFacts
  <2>2. Flat(q)[k] = q[j][m] /\ Flat(p)[k] = p[j][m]
    BY <2>1, FlatAt
  <2>3. k \in DOMAIN Flat(p)
    BY DEF Flat
  <2>4. DOMAIN p = Pages /\ \A e \in Pages : DOMAIN p[e] = 0 .. PageCells - 1
    BY DEF Payloads
  <2>5. CASE k = o
    <3>1. j = l /\ m = n
      BY <2>1, <2>5
    <3>2. q[j] = Put(p[l], n, v)
      BY <1>1, <2>1, <2>4, <3>1
    <3>3. q[j][m] = v
      BY <1>2, <2>4, <3>1, <3>2 DEF Put
    <3> QED
      BY <2>2, <2>3, <2>5, <3>3
  <2>6. CASE k # o
    <3>1. j # l \/ m # n
      <4>1. ASSUME j = l, m = n PROVE FALSE
        <5>1. k = PageCells * j + m /\ o = PageCells * l + n
          BY <2>1, OffsetFacts
        <5> QED
          BY <2>6, <4>1, <5>1
      <4> QED
        BY <4>1
    <3>2. CASE j # l
      <4>1. q[j] = p[j]
        BY <1>1, <2>1, <2>4, <3>2
      <4> QED
        BY <2>2, <2>3, <2>6, <4>1
    <3>3. CASE j = l /\ m # n
      <4>1. q[j] = Put(p[j], n, v)
        BY <1>1, <2>1, <2>4, <3>3
      <4>2. q[j][m] = p[j][m]
        BY <2>1, <2>4, <3>3, <4>1 DEF Put
      <4> QED
        BY <2>2, <2>3, <2>6, <4>2
    <3> QED
      BY <3>1, <3>2, <3>3
  <2> QED
    BY <2>5, <2>6
<1>4. Flat(q) = [k \in Offsets |-> Flat(q)[k]]
  BY DEF Flat
<1>5. [Flat(p) EXCEPT ![o] = v] = [k \in Offsets |-> [Flat(p) EXCEPT ![o] = v][k]]
  <2>1. DOMAIN Flat(p) = Offsets
    BY DEF Flat
  <2> QED
    BY <2>1
<1>6. Flat(q) = [Flat(p) EXCEPT ![o] = v]
  BY <1>3, <1>4, <1>5
<1> QED
  BY <1>1, <1>6


-----------------------------------------------------------------------------
(* Requests and returns are the steps of the resolver; what the accessor   *)
(* does in between stutters.                                               *)
LEMMA BusyBars ==
    ASSUME begun # None
    PROVE  /\ ResolverPayload = Flat(begun.payload) /\ ResolverValue = begun.value
           /\ ResolverAsked = begun.request
BY DEF ResolverPayload, ResolverValue, ResolverAsked, Busy

LEMMA IdleBars ==
    ASSUME begun = None
    PROVE  /\ ResolverPayload = Flat(payload) /\ ResolverValue = portal[0].Value
           /\ ResolverAsked = None
BY DEF ResolverPayload, ResolverValue, ResolverAsked, Busy

LEMMA ResolverStarts == Init => Resolver!Init
<1> SUFFICES ASSUME Init PROVE Resolver!Init
  OBVIOUS
<1>1. begun = None /\ portal[0] = ZeroPortal
  BY BaseFacts DEF Init
<1>2. ZeroPortal["Value"] = 0
  BY DEF ZeroPortal, Fields
<1>3. Flat(payload) = [o \in Offsets |-> 0]
  <2>1. \A o \in Offsets : payload[o \div PageCells][o % PageCells] = 0
    BY OffsetFacts DEF Init
  <2> QED
    BY <2>1 DEF Flat
<1> QED
  BY <1>1, <1>2, <1>3, IdleBars DEF Resolver!Init

LEMMA RequestAsks ==
    ASSUME IInv, Request
    PROVE  Resolver!Request
<1>1. begun = None /\ payload' = payload /\ at = 0 /\ OthersClean
  BY DEF IInv, Request, AtRest
<1>2. PICK kind \in Kinds, o \in Offsets, v \in Bytes :
          /\ kind = "load" => v = 0
          /\ begun' = [request |-> [op |-> kind, offset |-> o], payload |-> payload, value |-> v]
          /\ begun' # None /\ begun'.request # None /\ Asked(begun')
          /\ portal' = [portal EXCEPT ![0] = Contents(o % PageCells, v, 0, 0, 0,
                                                      o \div PageCells, 0, 0, 0)]
          /\ work' = AggregateAccessor(kind)
  BY RequestFacts
<1>3. ResolverPayload = Flat(payload) /\ ResolverAsked = None
  BY <1>1, IdleBars
<1>4. /\ ResolverPayload' = Flat(begun'.payload) /\ ResolverValue' = begun'.value
      /\ ResolverAsked' = begun'.request
  BY <1>2 DEF ResolverPayload, ResolverValue, ResolverAsked, Busy
<1>5. /\ ResolverPayload' = ResolverPayload /\ ResolverValue' = v
      /\ ResolverAsked' = [op |-> kind, offset |-> o]
  BY <1>2, <1>3, <1>4
<1>6. CASE kind = "load"
  BY <1>2, <1>3, <1>5, <1>6 DEF Resolver!Request
<1>7. CASE kind = "store"
  BY <1>2, <1>3, <1>5, <1>7 DEF Resolver!Request
<1> QED
  BY <1>6, <1>7 DEF Kinds

LEMMA ReturnResolves ==
    ASSUME IInv, Return
    PROVE  Resolver!Resolve
<1>1. work = <<>> /\ begun # None /\ begun' = None /\ portal' = portal /\ payload' = payload
  BY DEF Return
<1>2. /\ Asked(begun) /\ at = 0
      /\ portal[at] = Idle(FinalValue(begun)) /\ payload = FinalPayload(begun)
  BY <1>1, Finished
<1>3. PICK p \in Payloads, o \in Offsets, kind \in Kinds, v \in Byte :
          p = begun.payload /\ v = begun.value /\ o = begun.request.offset /\ kind = begun.request.op
          /\ begun.request # None
  <2>1. begun.payload \in Payloads /\ begun.request \in Requests /\ begun.value \in Byte
    BY <1>2, SizeFacts DEF Asked
  <2>2. begun.request.offset \in Offsets /\ begun.request.op \in Kinds
    BY <2>1 DEF Requests, Kinds
  <2> QED
    BY <2>1, <2>2, PortalPageAssumption
<1>4. PICK l, n : l = o \div PageCells /\ n = o % PageCells /\ l = PageOf(begun) /\ n = IndexOf(begun)
  BY <1>3 DEF PageOf, IndexOf
<1>5. ResolverPayload = Flat(p) /\ ResolverValue = v /\ ResolverAsked = begun.request
  BY <1>1, <1>3, BusyBars
<1>6. portal[0]["Value"] = Fetched(kind, p, l, n)
  BY <1>2, <1>3, <1>4, EachField DEF Idle, FinalValue
<1>7. payload = Written(kind, p, l, n, v)
  BY <1>2, <1>3, <1>4 DEF FinalPayload
<1>8. /\ ResolverPayload' = Flat(Written(kind, p, l, n, v))
      /\ ResolverValue' = Fetched(kind, p, l, n) /\ ResolverAsked' = None
  BY <1>1, <1>6, <1>7 DEF ResolverPayload, ResolverValue, ResolverAsked, Busy
<1>9. CASE kind = "load"
  <2>1. Written(kind, p, l, n, v) = p /\ Fetched(kind, p, l, n) = Flat(p)[o]
    BY <1>4, <1>9, FlatAt DEF Written, Fetched
  <2> QED
    BY <1>3, <1>5, <1>8, <1>9, <2>1 DEF Resolver!Resolve
<1>10. CASE kind = "store"
  <2>1. Flat(Written(kind, p, l, n, v)) = [Flat(p) EXCEPT ![o] = v] /\ Fetched(kind, p, l, n) = 0
    BY <1>4, <1>10, FlatPut DEF Written, Fetched
  <2> QED
    BY <1>3, <1>5, <1>8, <1>10, <2>1 DEF Resolver!Resolve
<1> QED
  BY <1>9, <1>10 DEF Kinds

LEMMA OthersStutter ==
    ASSUME IInv, Field \/ PayloadCase \/ Jump \/ Loop
    PROVE  UNCHANGED Resolver!vars
<1>1. work # <<>> /\ begun' = begun
  BY DEF Field, PayloadCase, Jump, Loop, Is
<1>2. begun # None
  BY <1>1, OnTheWay
<1>3. /\ ResolverPayload' = ResolverPayload /\ ResolverValue' = ResolverValue
      /\ ResolverAsked' = ResolverAsked
  BY <1>1, <1>2 DEF ResolverPayload, ResolverValue, ResolverAsked, Busy
<1> QED
  BY <1>3 DEF Resolver!vars

LEMMA StepsResolve == IInv /\ [Next]_vars => [Resolver!Next]_(Resolver!vars)
<1> SUFFICES ASSUME IInv, [Next]_vars PROVE [Resolver!Next]_(Resolver!vars)
  OBVIOUS
<1>1. CASE Request
  BY <1>1, RequestAsks DEF Resolver!Next
<1>2. CASE Return
  BY <1>2, ReturnResolves DEF Resolver!Next
<1>3. CASE Field \/ PayloadCase \/ Jump \/ Loop
  BY <1>3, OthersStutter
<1>4. CASE UNCHANGED vars
  <2>1. begun' = begun /\ portal' = portal /\ payload' = payload
    BY <1>4 DEF vars
  <2>2. /\ ResolverPayload' = ResolverPayload /\ ResolverValue' = ResolverValue
        /\ ResolverAsked' = ResolverAsked
    BY <2>1 DEF ResolverPayload, ResolverValue, ResolverAsked, Busy
  <2> QED
    BY <2>2 DEF Resolver!vars
<1> QED
  BY <1>1, <1>2, <1>3, <1>4 DEF Next, Step

(* The accessor of a portal, jumps between pages and walks beyond the jump *)
(* table included, reads or writes the cell at the requested offset and no *)
(* other, as if in one step (emit_aggregate_accessor, page_digit_limit).   *)
THEOREM PageAccessIsAtomic == Spec => ImplementsResolver
<1>1. Init => IInv /\ Resolver!Init
  BY Starts, ResolverStarts
<1>2. IInv /\ [Next]_vars => IInv' /\ [Resolver!Next]_(Resolver!vars)
  BY Stays, StepsResolve
<1> QED
  BY <1>1, <1>2, PTL DEF Spec, ImplementsResolver, Resolver!Spec
=============================================================================
