-------------------------- MODULE DispatcherProofs --------------------------
(***************************************************************************)
(* The selection code runs exactly the body of the PC, for every set of    *)
(* entries, every base and every depth of calls.                           *)
(*                                                                         *)
(* The code is a tree of loops, and a state of it is the work that is      *)
(* left.  Leads(x, y) says that the instructions of a configuration work   *)
(* on the selection fields alone until, if ever, configuration y is        *)
(* reached.  It is proved backwards over the code, the way a weakest       *)
(* precondition is computed; that a step of the program keeps it is then   *)
(* its definition.                                                         *)
(***************************************************************************)
EXTENDS Dispatcher, CommonLemmas

Byte == 0 .. Base - 1
Selectors == {"PcHigh", "PcLow", "Condition", "Branch"}

(* What an instruction does to the selection fields s. *)
OnSelectors(i) ==
    \/ i.op \in {"add", "clear", "while"} /\ i.field \in Selectors
    \/ i.op = "copy" /\ i.field \in Selectors /\ i.to \in Selectors

Effect(i, s) ==
    CASE i.op = "add"   -> [s EXCEPT ![i.field] = Sum(s[i.field], i.by)]
      [] i.op = "clear" -> [s EXCEPT ![i.field] = 0]
      [] i.op = "copy"  -> [s EXCEPT ![i.to] = s[i.field]]
      [] OTHER          -> s

Remaining(w, s) ==
    IF Head(w).op = "while" /\ s[Head(w).field] # 0 THEN Head(w).body \o w ELSE Tail(w)

After(x) == <<Remaining(x[1], x[2]), Effect(Head(x[1]), x[2])>>

Selecting(w) == IsSeq(w) /\ Len(w) > 1 /\ OnSelectors(Head(w))

Leads(x, y) ==
    \E Z : x \in Z /\ \A z \in Z : z = y \/ (Selecting(z[1]) /\ After(z) \in Z)

-----------------------------------------------------------------------------
LEMMA LeadsSelf == ASSUME NEW x PROVE Leads(x, x)
<1>1. x \in {x} /\ \A z \in {x} : z = x
  OBVIOUS
<1> QED
  BY <1>1 DEF Leads

LEMMA LeadsBack ==
    ASSUME NEW x, NEW y, Selecting(x[1]), Leads(After(x), y)
    PROVE  Leads(x, y)
<1>1. PICK Z : After(x) \in Z /\ \A z \in Z : z = y \/ (Selecting(z[1]) /\ After(z) \in Z)
  BY DEF Leads
<1> DEFINE Y == Z \cup {x}
<1>2. x \in Y /\ \A z \in Y : z = y \/ (Selecting(z[1]) /\ After(z) \in Y)
  BY <1>1
<1> HIDE DEF Y
<1> QED
  BY <1>2 DEF Leads

LEMMA LeadsOn ==
    ASSUME NEW x, NEW y, Leads(x, y), x # y
    PROVE  Selecting(x[1]) /\ Leads(After(x), y)
<1>1. PICK Z : x \in Z /\ \A z \in Z : z = y \/ (Selecting(z[1]) /\ After(z) \in Z)
  BY DEF Leads
<1> QED
  BY <1>1 DEF Leads

LEMMA LeadsChain ==
    ASSUME NEW x, NEW y, NEW z, Leads(x, y), Leads(y, z)
    PROVE  Leads(x, z)
<1>1. PICK X : x \in X /\ \A t \in X : t = y \/ (Selecting(t[1]) /\ After(t) \in X)
  BY DEF Leads
<1>2. PICK Y : y \in Y /\ \A t \in Y : t = z \/ (Selecting(t[1]) /\ After(t) \in Y)
  BY DEF Leads
<1> DEFINE U == X \cup Y
<1>3. x \in U /\ \A t \in U : t = z \/ (Selecting(t[1]) /\ After(t) \in U)
  BY <1>1, <1>2
<1> HIDE DEF U
<1> QED
  BY <1>3 DEF Leads

-----------------------------------------------------------------------------
(* One instruction, with w to do after it. *)
LEMMA Step ==
    ASSUME NEW i, OnSelectors(i), NEW w, IsSeq(w), Len(w) > 0, NEW s, NEW y,
           Leads(<<IF i.op = "while" /\ s[i.field] # 0 THEN i.body \o (<<i>> \o w) ELSE w,
                   Effect(i, s)>>, y)
    PROVE  Leads(<<<<i>> \o w, s>>, y)
<1> DEFINE x == <<<<i>> \o w, s>>
<1>1. x[1] = <<i>> \o w /\ x[2] = s /\ Head(<<i>> \o w) = i /\ Tail(<<i>> \o w) = w
  BY Sequence
<1>2. Selecting(<<i>> \o w)
  <2>1. IsSeq(<<i>>) /\ Len(<<i>> \o w) = Len(w) + 1 /\ Len(w) \in Nat
    BY Sequence
  <2>2. IsSeq(<<i>> \o w)
    BY <2>1, Sequence
  <2> QED
    BY <1>1, <2>1, <2>2 DEF Selecting
<1>3. After(x) = <<IF i.op = "while" /\ s[i.field] # 0 THEN i.body \o (<<i>> \o w) ELSE w, Effect(i, s)>>
  BY <1>1 DEF After, Remaining
<1> HIDE DEF x
<1>4. Leads(x, y)
  BY <1>1, <1>2, <1>3, LeadsBack
<1> QED
  BY <1>4 DEF x

(* The selection fields: pc, the other PC byte, Condition and Branch.      *)
Pcs == {"PcHigh", "PcLow"}
Sel(pc, v, o, c, b) ==
    [f \in Selectors |-> IF f = pc THEN v ELSE IF f = "Condition" THEN c
                         ELSE IF f = "Branch" THEN b ELSE o]
Zero == [f \in Selectors |-> 0]

LEMMA SelFacts ==
    ASSUME NEW pc \in Pcs, NEW v, NEW o, NEW c, NEW b, NEW x
    PROVE  /\ Sel(pc, v, o, c, b)[pc] = v
           /\ Sel(pc, v, o, c, b)["Condition"] = c
           /\ Sel(pc, v, o, c, b)["Branch"] = b
           /\ [Sel(pc, v, o, c, b) EXCEPT ![pc] = x] = Sel(pc, x, o, c, b)
           /\ [Sel(pc, v, o, c, b) EXCEPT !["Condition"] = x] = Sel(pc, v, o, x, b)
           /\ [Sel(pc, v, o, c, b) EXCEPT !["Branch"] = x] = Sel(pc, v, o, c, x)
           /\ Sel(pc, 0, 0, 0, 0) = Zero
           /\ Sel("PcHigh", v, o, c, b) = Sel("PcLow", o, v, c, b)
           /\ pc \in Selectors
BY DEF Pcs, Selectors, Sel, Zero

(* The instructions, on the fields they are used on. *)
LEMMA DoAdd ==
    ASSUME NEW pc \in Pcs, NEW v, NEW o, NEW c, NEW b, NEW k, NEW w, IsSeq(w), Len(w) > 0, NEW y
    PROVE  /\ Leads(<<w, Sel(pc, Sum(v, k), o, c, b)>>, y)
                  => Leads(<<<<AddField(pc, k)>> \o w, Sel(pc, v, o, c, b)>>, y)
           /\ Leads(<<w, Sel(pc, v, o, Sum(c, k), b)>>, y)
                  => Leads(<<<<AddField("Condition", k)>> \o w, Sel(pc, v, o, c, b)>>, y)
           /\ Leads(<<w, Sel(pc, v, o, c, Sum(b, k))>>, y)
                  => Leads(<<<<AddField("Branch", k)>> \o w, Sel(pc, v, o, c, b)>>, y)
<1> DEFINE s == Sel(pc, v, o, c, b)
<1>1. ASSUME NEW f \in Selectors, Leads(<<w, [s EXCEPT ![f] = Sum(s[f], k)]>>, y)
      PROVE  Leads(<<<<AddField(f, k)>> \o w, s>>, y)
  <2>1. PICK i : i = AddField(f, k)
    OBVIOUS
  <2>2. i.op = "add" /\ i.field = f /\ i.by = k
    BY <2>1 DEF AddField
  <2>3. OnSelectors(i) /\ Effect(i, s) = [s EXCEPT ![f] = Sum(s[f], k)]
    BY <2>2 DEF OnSelectors, Effect
  <2>4. ~(i.op = "while" /\ s[i.field] # 0)
    BY <2>2
  <2> QED
    BY <1>1, <2>1, <2>3, <2>4, Step
<1>2. pc \in Selectors /\ "Condition" \in Selectors /\ "Branch" \in Selectors
  BY SelFacts DEF Selectors
<1>3. Leads(<<w, Sel(pc, Sum(v, k), o, c, b)>>, y) => Leads(<<<<AddField(pc, k)>> \o w, s>>, y)
  <2>1. [s EXCEPT ![pc] = Sum(s[pc], k)] = Sel(pc, Sum(v, k), o, c, b)
    BY SelFacts
  <2> QED
    BY <1>1, <1>2, <2>1
<1>4. Leads(<<w, Sel(pc, v, o, Sum(c, k), b)>>, y) => Leads(<<<<AddField("Condition", k)>> \o w, s>>, y)
  <2>1. [s EXCEPT !["Condition"] = Sum(s["Condition"], k)] = Sel(pc, v, o, Sum(c, k), b)
    BY SelFacts
  <2> QED
    BY <1>1, <1>2, <2>1
<1>5. Leads(<<w, Sel(pc, v, o, c, Sum(b, k))>>, y) => Leads(<<<<AddField("Branch", k)>> \o w, s>>, y)
  <2>1. [s EXCEPT !["Branch"] = Sum(s["Branch"], k)] = Sel(pc, v, o, c, Sum(b, k))
    BY SelFacts
  <2> QED
    BY <1>1, <1>2, <2>1
<1> QED
  BY <1>3, <1>4, <1>5

LEMMA DoClear ==
    ASSUME NEW pc \in Pcs, NEW v, NEW o, NEW c, NEW b, NEW w, IsSeq(w), Len(w) > 0, NEW y
    PROVE  /\ Leads(<<w, Sel(pc, 0, o, c, b)>>, y)
                  => Leads(<<<<ClearField(pc)>> \o w, Sel(pc, v, o, c, b)>>, y)
           /\ Leads(<<w, Sel(pc, v, o, 0, b)>>, y)
                  => Leads(<<<<ClearField("Condition")>> \o w, Sel(pc, v, o, c, b)>>, y)
           /\ Leads(<<w, Sel(pc, v, o, c, 0)>>, y)
                  => Leads(<<<<ClearField("Branch")>> \o w, Sel(pc, v, o, c, b)>>, y)
<1> DEFINE s == Sel(pc, v, o, c, b)
<1>1. ASSUME NEW f \in Selectors, Leads(<<w, [s EXCEPT ![f] = 0]>>, y)
      PROVE  Leads(<<<<ClearField(f)>> \o w, s>>, y)
  <2>1. PICK i : i = ClearField(f)
    OBVIOUS
  <2>2. i.op = "clear" /\ i.field = f
    BY <2>1 DEF ClearField
  <2>3. OnSelectors(i) /\ Effect(i, s) = [s EXCEPT ![f] = 0]
    BY <2>2 DEF OnSelectors, Effect
  <2>4. ~(i.op = "while" /\ s[i.field] # 0)
    BY <2>2
  <2> QED
    BY <1>1, <2>1, <2>3, <2>4, Step
<1>2. pc \in Selectors /\ "Condition" \in Selectors /\ "Branch" \in Selectors
  BY SelFacts DEF Selectors
<1>3. Leads(<<w, Sel(pc, 0, o, c, b)>>, y) => Leads(<<<<ClearField(pc)>> \o w, s>>, y)
  <2>1. [s EXCEPT ![pc] = 0] = Sel(pc, 0, o, c, b)
    BY SelFacts
  <2> QED
    BY <1>1, <1>2, <2>1
<1>4. Leads(<<w, Sel(pc, v, o, 0, b)>>, y) => Leads(<<<<ClearField("Condition")>> \o w, s>>, y)
  <2>1. [s EXCEPT !["Condition"] = 0] = Sel(pc, v, o, 0, b)
    BY SelFacts
  <2> QED
    BY <1>1, <1>2, <2>1
<1>5. Leads(<<w, Sel(pc, v, o, c, 0)>>, y) => Leads(<<<<ClearField("Branch")>> \o w, s>>, y)
  <2>1. [s EXCEPT !["Branch"] = 0] = Sel(pc, v, o, c, 0)
    BY SelFacts
  <2> QED
    BY <1>1, <1>2, <2>1
<1> QED
  BY <1>3, <1>4, <1>5

LEMMA DoCopy ==
    ASSUME NEW pc \in Pcs, NEW v, NEW o, NEW c, NEW b, NEW w, IsSeq(w), Len(w) > 0, NEW y,
           Leads(<<w, Sel(pc, v, o, v, b)>>, y)
    PROVE  Leads(<<<<CopyField(pc, "Condition")>> \o w, Sel(pc, v, o, c, b)>>, y)
<1> DEFINE s == Sel(pc, v, o, c, b)
<1>1. PICK i : i = CopyField(pc, "Condition")
  OBVIOUS
<1>2. i.op = "copy" /\ i.field = pc /\ i.to = "Condition"
  BY <1>1 DEF CopyField
<1>3. OnSelectors(i) /\ Effect(i, s) = [s EXCEPT !["Condition"] = s[pc]]
  BY <1>2, SelFacts DEF OnSelectors, Effect, Selectors
<1>4. Effect(i, s) = Sel(pc, v, o, v, b)
  BY <1>3, SelFacts
<1>5. ~(i.op = "while" /\ s[i.field] # 0)
  BY <1>2
<1> QED
  BY <1>1, <1>3, <1>4, <1>5, Step

(* A loop on a selection field, in any state of them. *)
LEMMA DoWhile ==
    ASSUME NEW f \in Selectors, NEW body, NEW s, NEW w, IsSeq(w), Len(w) > 0, NEW y
    PROVE  /\ s[f] = 0 /\ Leads(<<w, s>>, y) => Leads(<<<<While(f, body)>> \o w, s>>, y)
           /\ s[f] # 0 /\ Leads(<<body \o (<<While(f, body)>> \o w), s>>, y)
                  => Leads(<<<<While(f, body)>> \o w, s>>, y)
<1>1. PICK i : i = While(f, body)
  OBVIOUS
<1>2. i.op = "while" /\ i.field = f /\ i.body = body
  BY <1>1 DEF While
<1>3. OnSelectors(i) /\ Effect(i, s) = s
  BY <1>2 DEF OnSelectors, Effect
<1>4. CASE s[f] = 0
  <2>1. ~(i.op = "while" /\ s[i.field] # 0)
    BY <1>2, <1>4
  <2> QED
    BY <1>1, <1>3, <1>4, <2>1, Step
<1>5. CASE s[f] # 0
  <2>1. i.op = "while" /\ s[i.field] # 0
    BY <1>2, <1>5
  <2> QED
    BY <1>1, <1>2, <1>3, <1>5, <2>1, Step
<1> QED
  BY <1>4, <1>5

-----------------------------------------------------------------------------
(* Cells wrap, but not where a countdown or a comparison is right. *)
LEMMA Sums ==
    ASSUME NEW v \in Byte, NEW u \in Byte
    PROVE  /\ Base \in Nat /\ Base >= 2 /\ 0 \in Byte /\ 1 \in Byte
           /\ u <= v => Sum(v, -u) = v - u
           /\ v # u => Sum(v, -u) # 0
           /\ Sum(0, 1) = 1 /\ Sum(1, -1) = 0
           /\ Sum(v, u) \in Byte /\ Sum(v, -u) \in Byte
<1>1. Base \in Nat /\ Base >= 2
  BY DispatchAssumption
<1>2. ASSUME NEW n \in Byte PROVE n % Base = n
  <2>1. (Base * 0 + n) % Base = n
    BY <1>1, DigitsOf DEF Byte
  <2>2. Base * 0 + n = n
    BY <1>1 DEF Byte
  <2> QED
    BY <2>1, <2>2
<1>3. 0 \in Byte /\ 1 \in Byte /\ v \in Int /\ u \in Int
  BY <1>1 DEF Byte
<1>4. u <= v => Sum(v, -u) = v - u
  <2> SUFFICES ASSUME u <= v PROVE Sum(v, -u) = v - u
    OBVIOUS
  <2>1. v + (-u) = v - u /\ v - u \in Byte
    BY <1>1 DEF Byte
  <2> QED
    BY <1>2, <2>1 DEF Sum
<1>5. v # u => Sum(v, -u) # 0
  <2> SUFFICES ASSUME v # u PROVE Sum(v, -u) # 0
    OBVIOUS
  <2>1. CASE u < v
    BY <1>3, <1>4, <2>1
  <2>2. CASE v < u
    <3>1. PICK d \in Int : d = v - u /\ v + (-u) = d /\ -Base < d /\ d < 0
      BY <1>1, <2>2 DEF Byte
    <3>2. d % Base # 0
      BY <1>1, <3>1
    <3> QED
      BY <3>1, <3>2 DEF Sum
  <2> QED
    BY <1>3, <2>1, <2>2
<1>6. Sum(0, 1) = 1 /\ Sum(1, -1) = 0
  <2>1. 0 + 1 = 1 /\ 1 + (-1) = 0
    OBVIOUS
  <2> QED
    BY <1>2, <1>3, <2>1 DEF Sum
<1>7. Sum(v, u) \in Byte /\ Sum(v, -u) \in Byte
  BY <1>1, <1>3 DEF Sum, Byte
<1> QED
  BY <1>1, <1>3, <1>4, <1>5, <1>6, <1>7

-----------------------------------------------------------------------------
(* Code that falls through to the end of the cycle once the selection      *)
(* fields are zero, in whatever context.                                   *)
Passing(w, end) == IsSeq(w) /\ Len(w) > 1 /\ Leads(<<w, Zero>>, <<end, Zero>>)

LEMMA PassesWhile ==
    ASSUME NEW end, NEW w, Passing(w, end), NEW f \in Selectors, NEW body
    PROVE  Passing(<<While(f, body)>> \o w, end)
<1>1. IsSeq(w) /\ Len(w) > 1 /\ Len(w) \in Nat
  BY Cons DEF Passing
<1>2. PICK y : y = <<end, Zero>>
  OBVIOUS
<1>3. Zero[f] = 0 /\ Len(w) > 0 /\ Leads(<<w, Zero>>, y)
  BY <1>1, <1>2 DEF Zero, Passing
<1>4. Leads(<<<<While(f, body)>> \o w, Zero>>, y)
  BY <1>1, <1>3, DoWhile, Zenon
<1>5. IsSeq(<<While(f, body)>> \o w) /\ Len(<<While(f, body)>> \o w) = Len(w) + 1
  BY <1>1, Cons
<1> QED
  BY <1>1, <1>2, <1>4, <1>5 DEF Passing

LEMMA PassesGate ==
    ASSUME NEW end, NEW w, Passing(w, end), NEW body
    PROVE  Passing(Gate(body) \o w, end)
<1>1. "Branch" \in Selectors
  BY DEF Selectors
<1> QED
  BY <1>1, PassesWhile DEF Gate

(* A gate whose Branch is set lets its case run once. *)
LEMMA GateOpens ==
    ASSUME NEW pc \in Pcs, NEW v, NEW o, NEW body, IsSeq(body), NEW w, IsSeq(w), Len(w) > 1
    PROVE  Leads(<<Gate(body) \o w, Sel(pc, v, o, 0, 1)>>,
                 <<body \o (Gate(body) \o w), Sel(pc, v, o, 0, 0)>>)
<1>1. PICK loop : loop = <<AddField("Branch", -1)>> \o body
  OBVIOUS
<1>2. PICK rest : rest = Gate(body) \o w
  OBVIOUS
<1>3. PICK goal : goal = <<body \o rest, Sel(pc, v, o, 0, 0)>>
  OBVIOUS
<1>4. rest = <<While("Branch", loop)>> \o w
  BY <1>1, <1>2 DEF Gate
<1>5. IsSeq(rest) /\ Len(rest) > 1
  <2>1. IsSeq(rest) /\ Len(rest) = Len(w) + 1 /\ Len(w) \in Nat
    BY <1>4, Cons
  <2> QED
    BY <2>1
<1>6. IsSeq(body \o rest) /\ Len(body \o rest) > 0
  BY <1>5, Appended
<1>7. Leads(<<body \o rest, Sel(pc, v, o, 0, Sum(1, -1))>>, goal)
  <2>1. 0 \in Byte
    BY DispatchAssumption DEF Byte
  <2>2. Sum(1, -1) = 0
    BY <2>1, Sums
  <2> QED
    BY <1>3, <2>2, LeadsSelf
<1>8. Leads(<<<<AddField("Branch", -1)>> \o (body \o rest), Sel(pc, v, o, 0, 1)>>, goal)
  <2>1. PICK r : r = body \o rest /\ IsSeq(r) /\ Len(r) > 0
    BY <1>6
  <2> QED
    BY <1>7, <2>1, DoAdd, Zenon
<1>9. loop \o rest = <<AddField("Branch", -1)>> \o (body \o rest)
  <2>1. IsSeq(<<AddField("Branch", -1)>>)
    BY <1>5, Cons
  <2> QED
    BY <1>1, <1>5, <2>1, Assoc
<1>10. "Branch" \in Selectors /\ Sel(pc, v, o, 0, 1)["Branch"] # 0
  BY SelFacts DEF Selectors
<1>11. Leads(<<loop \o (<<While("Branch", loop)>> \o w), Sel(pc, v, o, 0, 1)>>, goal)
  BY <1>4, <1>8, <1>9
<1>12. Len(w) > 0
  BY Cons
<1>13. Leads(<<<<While("Branch", loop)>> \o w, Sel(pc, v, o, 0, 1)>>, goal)
  <2>1. PICK s : s = Sel(pc, v, o, 0, 1)
    OBVIOUS
  <2>2. s["Branch"] # 0 /\ Leads(<<loop \o (<<While("Branch", loop)>> \o w), s>>, goal)
    BY <1>10, <1>11, <2>1
  <2>3. Leads(<<<<While("Branch", loop)>> \o w, s>>, goal)
    BY <1>10, <1>12, <2>2, DoWhile, Zenon
  <2> QED
    BY <2>1, <2>3
<1> QED
  BY <1>2, <1>3, <1>4, <1>13

-----------------------------------------------------------------------------
(* The code of one equality test, flattened. *)
Flattens(p, s, c, g, w) == (((p \o s) \o c) \o g) \o w = p \o (s \o (c \o (g \o w)))

LEMMA Flat ==
    ASSUME NEW p, NEW s, NEW c, NEW g, NEW w,
           IsSeq(p), IsSeq(s), IsSeq(c), IsSeq(g), IsSeq(w)
    PROVE  /\ Flattens(p, s, c, g, w)
           /\ IsSeq(((p \o s) \o c) \o g)
<1>1. PICK e : e = p \o s /\ IsSeq(e)
  BY Appended
<1>2. PICK d : d = e \o c /\ IsSeq(d)
  BY <1>1, Appended
<1>3. PICK t : t = g \o w /\ IsSeq(t)
  BY Appended
<1>4. PICK r : r = c \o t /\ IsSeq(r)
  BY <1>3, Appended
<1>5. Associates(d, g, w) /\ Associates(e, c, t) /\ Associates(p, s, r)
  BY <1>1, <1>2, <1>3, <1>4, Associative
<1>6. (d \o g) \o w = p \o (s \o r)
  BY <1>1, <1>2, <1>3, <1>4, <1>5 DEF Associates
<1>7. IsSeq(d \o g)
  BY <1>2, Appended
<1> QED
  BY <1>1, <1>2, <1>3, <1>4, <1>6, <1>7 DEF Flattens

LEMMA SetBranch ==
    ASSUME NEW pc \in Pcs, NEW v, NEW o, NEW c, NEW b, NEW w, IsSeq(w), Len(w) > 0, NEW y,
           Leads(<<w, Sel(pc, v, o, c, 1)>>, y)
    PROVE  Leads(<<SetField("Branch", 1) \o w, Sel(pc, v, o, c, b)>>, y)
<1>1. Sum(0, 1) = 1
  <2>1. 0 \in Byte
    BY DispatchAssumption DEF Byte
  <2> QED
    BY <2>1, Sums
<1>2. Leads(<<<<AddField("Branch", 1)>> \o w, Sel(pc, v, o, c, 0)>>, y)
  <2>1. Leads(<<w, Sel(pc, v, o, c, Sum(0, 1))>>, y)
    BY <1>1, Zenon
  <2> QED
    BY <2>1, DoAdd, Zenon
<1>3. PICK r : r = <<AddField("Branch", 1)>> \o w /\ IsSeq(r) /\ Len(r) > 0
  <2>1. PICK i : i = AddField("Branch", 1)
    OBVIOUS
  <2>2. IsSeq(<<i>> \o w) /\ Len(<<i>> \o w) = Len(w) + 1 /\ Len(w) \in Nat
    BY Cons
  <2>3. Len(<<i>> \o w) > 0
    BY <2>2
  <2> QED
    BY <2>1, <2>2, <2>3
<1>4. Leads(<<<<ClearField("Branch")>> \o r, Sel(pc, v, o, c, b)>>, y)
  BY <1>2, <1>3, DoClear, Zenon
<1>5. SetField("Branch", 1) \o w = <<ClearField("Branch")>> \o r
  BY <1>3, Pair DEF SetField
<1> QED
  BY <1>4, <1>5

LEMMA ClearsBranch ==
    ASSUME NEW pc \in Pcs, NEW v, NEW o, NEW c, NEW b, NEW w, IsSeq(w), Len(w) > 0, NEW y,
           Leads(<<w, Sel(pc, v, o, 0, IF c = 0 THEN b ELSE 0)>>, y)
    PROVE  Leads(<<ClearBranchOnNonzero \o w, Sel(pc, v, o, c, b)>>, y)
<1>1. PICK loop : loop = <<ClearField("Condition"), ClearField("Branch")>>
  OBVIOUS
<1>2. ClearBranchOnNonzero = <<While("Condition", loop)>>
  BY <1>1 DEF ClearBranchOnNonzero
<1>3. "Condition" \in Selectors
  BY DEF Selectors
<1>4. PICK r : r = <<While("Condition", loop)>> \o w /\ IsSeq(r) /\ Len(r) > 0
  <2>1. PICK i : i = While("Condition", loop)
    OBVIOUS
  <2>2. IsSeq(<<i>> \o w) /\ Len(<<i>> \o w) = Len(w) + 1 /\ Len(w) \in Nat
    BY Cons
  <2>3. Len(<<i>> \o w) > 0
    BY <2>2
  <2> QED
    BY <2>1, <2>2, <2>3
<1>5. CASE c = 0
  <2>1. PICK s : s = Sel(pc, v, o, c, b)
    OBVIOUS
  <2>2. s["Condition"] = 0
    BY <1>5, <2>1, SelFacts
  <2>3. Leads(<<w, s>>, y)
    BY <1>5, <2>1
  <2>4. Leads(<<<<While("Condition", loop)>> \o w, s>>, y)
    BY <1>3, <2>2, <2>3, DoWhile, Zenon
  <2> QED
    BY <1>2, <2>1, <2>4
<1>6. CASE c # 0
  <2>1. Leads(<<w, Sel(pc, v, o, 0, 0)>>, y)
    BY <1>6
  <2>2. Leads(<<r, Sel(pc, v, o, 0, 0)>>, y)
    <3>1. PICK s : s = Sel(pc, v, o, 0, 0)
      OBVIOUS
    <3>2. s["Condition"] = 0
      BY <3>1, SelFacts
    <3>3. Leads(<<w, s>>, y)
      BY <2>1, <3>1
    <3>4. Leads(<<<<While("Condition", loop)>> \o w, s>>, y)
      BY <1>3, <3>2, <3>3, DoWhile, Zenon
    <3> QED
      BY <1>4, <3>1, <3>4
  <2>3. Leads(<<<<ClearField("Branch")>> \o r, Sel(pc, v, o, 0, b)>>, y)
    BY <1>4, <2>2, DoClear, Zenon
  <2>4. PICK q : q = <<ClearField("Branch")>> \o r /\ IsSeq(q) /\ Len(q) > 0
    <3>1. PICK i : i = ClearField("Branch")
      OBVIOUS
    <3>2. IsSeq(<<i>> \o r) /\ Len(<<i>> \o r) = Len(r) + 1 /\ Len(r) \in Nat
      BY <1>4, Cons
    <3>3. Len(<<i>> \o r) > 0
      BY <3>2
    <3> QED
      BY <3>1, <3>2, <3>3
  <2>5. Leads(<<q, Sel(pc, v, o, 0, b)>>, y)
    BY <2>3, <2>4
  <2>6. Leads(<<<<ClearField("Condition")>> \o q, Sel(pc, v, o, c, b)>>, y)
    BY <2>4, <2>5, DoClear, Zenon
  <2>7. loop \o r = <<ClearField("Condition")>> \o q
    <3>1. <<ClearField("Condition"), ClearField("Branch")>> \o r
             = <<ClearField("Condition")>> \o (<<ClearField("Branch")>> \o r)
      BY <1>4, Pair
    <3> QED
      BY <1>1, <2>4, <3>1
  <2>8. PICK s : s = Sel(pc, v, o, c, b)
    OBVIOUS
  <2>9. s["Condition"] # 0
    BY <1>6, <2>8, SelFacts
  <2>10. Leads(<<loop \o (<<While("Condition", loop)>> \o w), s>>, y)
    BY <1>4, <2>6, <2>7, <2>8
  <2>11. Leads(<<<<While("Condition", loop)>> \o w, s>>, y)
    BY <1>3, <2>9, <2>10, DoWhile, Zenon
  <2> QED
    BY <1>2, <2>8, <2>11
<1> QED
  BY <1>5, <1>6

LEMMA GateShut ==
    ASSUME NEW pc \in Pcs, NEW v, NEW o, NEW c, NEW body, NEW w, IsSeq(w), Len(w) > 0, NEW y,
           Leads(<<w, Sel(pc, v, o, c, 0)>>, y)
    PROVE  Leads(<<Gate(body) \o w, Sel(pc, v, o, c, 0)>>, y)
<1>1. PICK s : s = Sel(pc, v, o, c, 0)
  OBVIOUS
<1>2. s["Branch"] = 0 /\ "Branch" \in Selectors /\ Leads(<<w, s>>, y)
  BY <1>1, SelFacts DEF Selectors
<1>3. PICK loop : loop = <<AddField("Branch", -1)>> \o body
  OBVIOUS
<1>4. Leads(<<<<While("Branch", loop)>> \o w, s>>, y)
  BY <1>2, DoWhile, Zenon
<1> QED
  BY <1>1, <1>3, <1>4 DEF Gate

(* A test, up to its gate. *)
LEMMA EqualityTests ==
    ASSUME NEW pc \in Pcs, NEW v \in Byte, NEW u \in Byte, NEW o, NEW c, NEW b,
           NEW body, IsSeq(body), NEW w, IsSeq(w), Len(w) > 0, NEW y,
           Leads(<<Gate(<<ClearField(pc)>> \o body) \o w,
                   Sel(pc, v, o, 0, IF v = u THEN 1 ELSE 0)>>, y)
    PROVE  Leads(<<Equality(pc, u, body) \o w, Sel(pc, v, o, c, b)>>, y)
<1>1. PICK g : g = Gate(<<ClearField(pc)>> \o body)
  OBVIOUS
<1>2. PICK p : p = <<CopyField(pc, "Condition"), AddField("Condition", -u)>>
  OBVIOUS
<1>3. IsSeq(g) /\ IsSeq(p) /\ IsSeq(SetField("Branch", 1)) /\ IsSeq(ClearBranchOnNonzero)
  BY <1>1, <1>2, Cons, Pair DEF Gate, SetField, ClearBranchOnNonzero
<1>4. PICK d : d = Sum(v, -u) /\ (d = 0 <=> v = u)
  <2>1. v = u => Sum(v, -u) = 0
    <3>1. v <= v /\ v - v = 0
      BY DispatchAssumption DEF Byte
    <3> QED
      BY <3>1, Sums
  <2>2. v # u => Sum(v, -u) # 0
    BY Sums
  <2> QED
    BY <2>1, <2>2
<1>5. IsSeq(g \o w) /\ Len(g \o w) > 0
  BY <1>3, Appended
<1>6. PICK a : a = ClearBranchOnNonzero \o (g \o w) /\ IsSeq(a) /\ Len(a) > 0
  BY <1>3, <1>5, Appended
<1>7. Leads(<<a, Sel(pc, v, o, d, 1)>>, y)
  <2>1. (IF v = u THEN 1 ELSE 0) = (IF d = 0 THEN 1 ELSE 0)
    BY <1>4
  <2>2. Leads(<<g \o w, Sel(pc, v, o, 0, IF d = 0 THEN 1 ELSE 0)>>, y)
    BY <1>1, <2>1
  <2> QED
    BY <1>5, <1>6, <2>2, ClearsBranch
<1>8. PICK e : e = SetField("Branch", 1) \o a /\ IsSeq(e) /\ Len(e) > 0
  BY <1>3, <1>6, Appended
<1>9. Leads(<<e, Sel(pc, v, o, d, b)>>, y)
  BY <1>6, <1>7, <1>8, SetBranch
<1>10. PICK h : h = <<AddField("Condition", -u)>> \o e /\ IsSeq(h) /\ Len(h) > 0
  <2>1. PICK i : i = AddField("Condition", -u)
    OBVIOUS
  <2>2. IsSeq(<<i>> \o e) /\ Len(<<i>> \o e) = Len(e) + 1 /\ Len(e) \in Nat
    BY <1>8, Cons
  <2>3. Len(<<i>> \o e) > 0
    BY <2>2
  <2> QED
    BY <2>1, <2>2, <2>3
<1>11. Leads(<<h, Sel(pc, v, o, v, b)>>, y)
  <2>1. Leads(<<e, Sel(pc, v, o, Sum(v, -u), b)>>, y)
    BY <1>4, <1>9, Zenon
  <2>2. Leads(<<<<AddField("Condition", -u)>> \o e, Sel(pc, v, o, v, b)>>, y)
    BY <1>8, <2>1, DoAdd, Zenon
  <2> QED
    BY <1>10, <2>2
<1>12. Leads(<<<<CopyField(pc, "Condition")>> \o h, Sel(pc, v, o, c, b)>>, y)
  BY <1>10, <1>11, DoCopy
<1>13. Equality(pc, u, body) \o w = <<CopyField(pc, "Condition")>> \o h
  <2>1. Equality(pc, u, body) \o w = p \o e
    <3>1. PICK f : f = SetField("Branch", 1) /\ IsSeq(f)
      BY <1>3
    <3>2. PICK k : k = ClearBranchOnNonzero /\ IsSeq(k)
      BY <1>3
    <3>3. PICK i : i = Equality(pc, u, body) /\ i = ((p \o f) \o k) \o g
      <4>1. Equality(pc, u, body) = ((p \o SetField("Branch", 1)) \o ClearBranchOnNonzero) \o g
        BY <1>1, <1>2 DEF Equality
      <4> QED
        BY <3>1, <3>2, <4>1
    <3>4. i \o w = p \o (f \o (k \o (g \o w)))
      <4>1. Flattens(p, f, k, g, w)
        BY <1>3, <3>1, <3>2, Flat
      <4> QED
        BY <3>3, <4>1 DEF Flattens
    <3>5. e = f \o (k \o (g \o w))
      BY <1>6, <1>8, <3>1, <3>2
    <3> QED
      BY <3>3, <3>4, <3>5
  <2>2. p \o e = <<CopyField(pc, "Condition")>> \o h
    <3>1. PICK i, j : i = CopyField(pc, "Condition") /\ j = AddField("Condition", -u)
      OBVIOUS
    <3>2. <<i, j>> \o e = <<i>> \o (<<j>> \o e)
      BY <1>8, Pair
    <3> QED
      BY <1>2, <1>10, <3>1, <3>2
  <2> QED
    BY <2>1, <2>2
<1> QED
  BY <1>12, <1>13

LEMMA EqualityIsSeq ==
    ASSUME NEW pc, NEW u, NEW body
    PROVE  IsSeq(Equality(pc, u, body))
<1>1. PICK p, f, k, g :
        /\ p = <<CopyField(pc, "Condition"), AddField("Condition", -u)>>
        /\ f = SetField("Branch", 1) /\ k = ClearBranchOnNonzero
        /\ g = Gate(<<ClearField(pc)>> \o body)
  OBVIOUS
<1>2. IsSeq(<<>>)
  BY DEF IsSeq
<1>3. IsSeq(p) /\ IsSeq(f) /\ IsSeq(k) /\ IsSeq(g)
  BY <1>1, <1>2, Cons, Pair DEF Gate, SetField, ClearBranchOnNonzero
<1>4. IsSeq(((p \o f) \o k) \o g)
  BY <1>2, <1>3, Flat
<1>5. Equality(pc, u, body) = ((p \o f) \o k) \o g
  BY <1>1 DEF Equality
<1> QED
  BY <1>4, <1>5

LEMMA EqualityFails ==
    ASSUME NEW pc \in Pcs, NEW v \in Byte, NEW u \in Byte, v # u, NEW o, NEW c, NEW b,
           NEW body, IsSeq(body), NEW w, IsSeq(w), Len(w) > 0, NEW y,
           Leads(<<w, Sel(pc, v, o, 0, 0)>>, y)
    PROVE  Leads(<<Equality(pc, u, body) \o w, Sel(pc, v, o, c, b)>>, y)
<1>1. PICK g : g = <<ClearField(pc)>> \o body
  OBVIOUS
<1>2. Leads(<<Gate(g) \o w, Sel(pc, v, o, 0, 0)>>, y)
  BY GateShut
<1>3. Leads(<<Gate(g) \o w, Sel(pc, v, o, 0, IF v = u THEN 1 ELSE 0)>>, y)
  BY <1>2
<1> QED
  BY <1>1, <1>3, EqualityTests

LEMMA EqualityMatches ==
    ASSUME NEW pc \in Pcs, NEW v \in Byte, NEW o, NEW c, NEW b,
           NEW body, IsSeq(body), NEW w, IsSeq(w), Len(w) > 1, NEW y,
           Leads(<<body \o (Gate(<<ClearField(pc)>> \o body) \o w), Sel(pc, 0, o, 0, 0)>>, y)
    PROVE  Leads(<<Equality(pc, v, body) \o w, Sel(pc, v, o, c, b)>>, y)
<1>1. PICK g : g = <<ClearField(pc)>> \o body /\ IsSeq(g) /\ IsSeq(<<ClearField(pc)>>)
  BY Cons
<1>2. PICK r : r = Gate(g) \o w /\ IsSeq(r) /\ Len(r) > 0
  <2>1. IsSeq(Gate(g))
    BY Cons DEF Gate
  <2>2. Len(w) > 0
    BY Cons
  <2> QED
    BY <2>1, <2>2, Appended
<1>3. IsSeq(body \o r) /\ Len(body \o r) > 0
  BY <1>2, Appended
<1>4. Leads(<<body \o r, Sel(pc, 0, o, 0, 0)>>, y)
  BY <1>1, <1>2
<1>5. Leads(<<<<ClearField(pc)>> \o (body \o r), Sel(pc, v, o, 0, 0)>>, y)
  <2>1. PICK q : q = body \o r /\ IsSeq(q) /\ Len(q) > 0
    BY <1>3
  <2> QED
    BY <1>4, <2>1, DoClear, Zenon
<1>6. g \o r = <<ClearField(pc)>> \o (body \o r)
  BY <1>1, <1>2, Assoc
<1>7. Leads(<<Gate(g) \o w, Sel(pc, v, o, 0, 1)>>, <<g \o (Gate(g) \o w), Sel(pc, v, o, 0, 0)>>)
  BY <1>1, GateOpens
<1>8. Leads(<<g \o (Gate(g) \o w), Sel(pc, v, o, 0, 0)>>, y)
  BY <1>2, <1>5, <1>6
<1>9. Leads(<<Gate(g) \o w, Sel(pc, v, o, 0, 1)>>, y)
  BY <1>7, <1>8, LeadsChain
<1>10. Leads(<<Gate(g) \o w, Sel(pc, v, o, 0, IF v = v THEN 1 ELSE 0)>>, y)
  BY <1>9
<1>11. Len(w) > 0
  BY Cons
<1> QED
  BY <1>1, <1>10, <1>11, EqualityTests

LEMMA PassesEquality ==
    ASSUME NEW end, NEW w, Passing(w, end), NEW pc \in Pcs, NEW u \in Byte, u # 0,
           NEW body, IsSeq(body)
    PROVE  Passing(Equality(pc, u, body) \o w, end)
<1>1. IsSeq(w) /\ Len(w) > 1 /\ Len(w) \in Nat /\ Len(w) > 0
  <2>1. IsSeq(w) /\ Len(w) > 1 /\ Len(w) \in Nat
    BY Cons DEF Passing
  <2> QED
    BY <2>1
<1>2. PICK y : y = <<end, Zero>>
  OBVIOUS
<1>3. Leads(<<w, Sel(pc, 0, 0, 0, 0)>>, y)
  BY <1>2, SelFacts DEF Passing
<1>4. 0 \in Byte
  BY DispatchAssumption DEF Byte
<1>5. Leads(<<Equality(pc, u, body) \o w, Sel(pc, 0, 0, 0, 0)>>, y)
  BY <1>1, <1>3, <1>4, EqualityFails
<1>6. Leads(<<Equality(pc, u, body) \o w, Zero>>, y)
  BY <1>5, SelFacts
<1>7. PICK q : q = Equality(pc, u, body) /\ IsSeq(q)
  BY EqualityIsSeq
<1>8. IsSeq(q \o w) /\ Len(q \o w) > 1
  BY <1>1, <1>7, Appended
<1> QED
  BY <1>2, <1>6, <1>7, <1>8 DEF Passing

-----------------------------------------------------------------------------
(* The two recursive functions exist, and are what their definitions say:  *)
(* they are built from the last argument down.                             *)
Level(pc, span, case, f, l) ==
    <<While(pc, IF l = span THEN <<ClearField(pc), ClearField("Branch")>>
                ELSE <<AddField(pc, -1)>> \o f[l + 1])>> \o case[l]

IsLevels(pc, span, case, f) ==
    \A l \in 0 .. span : f[l] = Level(pc, span, case, f, l)

LEMMA CountdownLevels ==
    ASSUME NEW pc, NEW span \in Nat, NEW case
    PROVE  \E f : IsLevels(pc, span, case, f) /\ Countdown(pc, span, case) = f[0]
<1> DEFINE L(f, l) == Level(pc, span, case, f, l)
           Has(n) == \E f : f = [l \in span - n .. span |-> L(f, l)]
           Bad == {n \in 0 .. span : ~Has(n)}
<1>1. \A f, g, l : f[l + 1] = g[l + 1] => L(f, l) = L(g, l)
  BY DEF Level
<1>2. \A f, g : L(f, span) = L(g, span)
  BY DEF Level
<1> HIDE DEF L
<1>3. Has(0)
  <2> DEFINE g == [l \in span - 0 .. span |-> L(<<>>, span)]
  <2>1. span - 0 .. span = {span}
    OBVIOUS
  <2>2. \A l \in span - 0 .. span : L(<<>>, span) = L(g, l)
    BY <1>2, <2>1
  <2>3. g = [l \in span - 0 .. span |-> L(g, l)]
    BY <2>2
  <2> QED
    BY <2>3
<1>4. Bad = {}
  <2> SUFFICES ASSUME Bad # {} PROVE FALSE
    OBVIOUS
  <2>1. PICK n \in 0 .. span : ~Has(n) /\ \A m \in Bad : n <= m
    <3>1. Bad \subseteq Nat
      OBVIOUS
    <3>2. Min(Bad) \in Bad /\ \A m \in Bad : Min(Bad) <= m
      BY <3>1, NaturalsHaveMin
    <3> QED
      BY <3>2
  <2>2. n # 0
    BY <1>3, <2>1
  <2>3. n - 1 \in 0 .. span /\ ~(n <= n - 1)
    BY <2>2
  <2>4. Has(n - 1)
    BY <2>1, <2>3
  <2>5. PICK f : f = [l \in span - (n - 1) .. span |-> L(f, l)]
    BY <2>4
  <2> DEFINE g == [l \in span - n .. span |-> IF l = span - n THEN L(f, l) ELSE f[l]]
  <2>6. ASSUME NEW l \in span - n .. span PROVE g[l] = L(g, l)
    <3>1. CASE l = span
      <4>1. span - n # span /\ span \in span - (n - 1) .. span
        BY <2>2, <2>3
      <4>2. g[l] = f[span] /\ f[span] = L(f, span)
        BY <2>5, <3>1, <4>1
      <4> QED
        BY <1>2, <3>1, <4>2
    <3>2. CASE l # span
      <4>1. l + 1 \in span - n .. span /\ l + 1 # span - n
        BY <3>2
      <4>2. g[l + 1] = f[l + 1]
        BY <4>1
      <4>3. L(f, l) = L(g, l)
        BY <1>1, <4>2
      <4>4. CASE l = span - n
        BY <4>3, <4>4
      <4>5. CASE l # span - n
        <5>1. l \in span - (n - 1) .. span
          BY <4>5
        <5>2. g[l] = f[l] /\ f[l] = L(f, l)
          BY <2>5, <4>5, <5>1
        <5> QED
          BY <4>3, <5>2
      <4> QED
        BY <4>4, <4>5
    <3> QED
      BY <3>1, <3>2
  <2>7. g = [l \in span - n .. span |-> L(g, l)]
    BY <2>6
  <2> QED
    BY <2>1, <2>7
<1>5. \E f : f = [l \in 0 .. span |-> L(f, l)]
  <2>1. span \in 0 .. span /\ span - span = 0
    OBVIOUS
  <2>2. Has(span)
    BY <1>4, <2>1
  <2> QED
    BY <2>1, <2>2
<1> DEFINE h == CHOOSE f : f = [l \in 0 .. span |-> L(f, l)]
<1>6. h = [l \in 0 .. span |-> L(h, l)]
  BY <1>5
<1>7. Countdown(pc, span, case) = h[0]
  BY DEF Countdown, Level, L
<1> HIDE DEF h
<1>8. \A l \in 0 .. span : h[l] = L(h, l)
  BY <1>6
<1> QED
  BY <1>7, <1>8 DEF IsLevels, L

Test(pc, body, S, last, f, i) ==
    IF i > last THEN <<>>
    ELSE (IF i \in S THEN Equality(pc, i, body[i]) ELSE <<>>) \o f[i + 1]

IsTests(pc, body, S, f) ==
    \A i \in Min(S) .. Max(S) + 1 : f[i] = Test(pc, body, S, Max(S), f, i)

LEMMA EqualitiesTests ==
    ASSUME NEW pc, NEW body, NEW S, Min(S) \in Nat, Max(S) \in Nat, Min(S) <= Max(S)
    PROVE  \E f : IsTests(pc, body, S, f) /\ Equalities(pc, S, body) = f[Min(S)]
<1>1. PICK first \in Nat, last \in Nat : first = Min(S) /\ last = Max(S) /\ first <= last
  OBVIOUS
<1>2. PICK span \in Nat : last + 1 - span = first
  <2>1. last + 1 - first \in Nat /\ last + 1 - (last + 1 - first) = first
    BY <1>1
  <2> QED
    BY <2>1
<1>3. PICK end \in Nat : end = last + 1 /\ end - span = first
  BY <1>2
<1> DEFINE L(f, l) == Test(pc, body, S, last, f, l)
           Has(n) == \E f : f = [l \in end - n .. end |-> L(f, l)]
           Bad == {n \in 0 .. span : ~Has(n)}
<1>4. \A f, g, l : f[l + 1] = g[l + 1] => L(f, l) = L(g, l)
  BY DEF Test
<1>5. \A f, g : L(f, end) = L(g, end)
  <2>1. end > last
    BY <1>3
  <2> QED
    BY <2>1 DEF Test
<1> HIDE DEF L
<1>6. Has(0)
  <2> DEFINE g == [l \in end - 0 .. end |-> L(<<>>, end)]
  <2>1. end - 0 .. end = {end}
    OBVIOUS
  <2>2. \A l \in end - 0 .. end : L(<<>>, end) = L(g, l)
    BY <1>5, <2>1
  <2>3. g = [l \in end - 0 .. end |-> L(g, l)]
    BY <2>2
  <2> QED
    BY <2>3
<1>7. Bad = {}
  <2> SUFFICES ASSUME Bad # {} PROVE FALSE
    OBVIOUS
  <2>1. PICK n \in 0 .. span : ~Has(n) /\ \A m \in Bad : n <= m
    <3>1. Bad \subseteq Nat
      OBVIOUS
    <3>2. Min(Bad) \in Bad /\ \A m \in Bad : Min(Bad) <= m
      BY <3>1, NaturalsHaveMin
    <3> QED
      BY <3>2
  <2>2. n # 0
    BY <1>6, <2>1
  <2>3. n - 1 \in 0 .. span /\ ~(n <= n - 1)
    BY <2>2
  <2>4. Has(n - 1)
    BY <2>1, <2>3
  <2>5. PICK f : f = [l \in end - (n - 1) .. end |-> L(f, l)]
    BY <2>4
  <2> DEFINE g == [l \in end - n .. end |-> IF l = end - n THEN L(f, l) ELSE f[l]]
  <2>6. ASSUME NEW l \in end - n .. end PROVE g[l] = L(g, l)
    <3>1. CASE l = end
      <4>1. end - n # end /\ end \in end - (n - 1) .. end
        BY <2>2, <2>3
      <4>2. g[l] = f[end] /\ f[end] = L(f, end)
        BY <2>5, <3>1, <4>1
      <4> QED
        BY <1>5, <3>1, <4>2
    <3>2. CASE l # end
      <4>1. l + 1 \in end - n .. end /\ l + 1 # end - n
        BY <3>2
      <4>2. g[l + 1] = f[l + 1]
        BY <4>1
      <4>3. L(f, l) = L(g, l)
        BY <1>4, <4>2
      <4>4. CASE l = end - n
        BY <4>3, <4>4
      <4>5. CASE l # end - n
        <5>1. l \in end - (n - 1) .. end
          BY <4>5
        <5>2. g[l] = f[l] /\ f[l] = L(f, l)
          BY <2>5, <4>5, <5>1
        <5> QED
          BY <4>3, <5>2
      <4> QED
        BY <4>4, <4>5
    <3> QED
      BY <3>1, <3>2
  <2>7. g = [l \in end - n .. end |-> L(g, l)]
    BY <2>6
  <2> QED
    BY <2>1, <2>7
<1>8. \E f : f = [l \in first .. last + 1 |-> L(f, l)]
  <2>1. span \in 0 .. span
    OBVIOUS
  <2>2. Has(span)
    BY <1>7, <2>1
  <2> QED
    BY <1>3, <2>2
<1> DEFINE h == CHOOSE f : f = [l \in first .. last + 1 |-> L(f, l)]
<1>9. h = [l \in first .. last + 1 |-> L(h, l)]
  BY <1>8
<1>10. Equalities(pc, S, body) = h[first]
  BY <1>1 DEF Equalities, Test, L, Order
<1> HIDE DEF h
<1>11. \A l \in first .. last + 1 : h[l] = L(h, l)
  BY <1>9
<1> QED
  BY <1>1, <1>10, <1>11 DEF IsTests, L

-----------------------------------------------------------------------------
(* The body of a case is reached, with the fields cleared, and what        *)
(* follows it falls through.                                               *)
Reaches(w, s, body, t, end) ==
    \E r : Passing(r, end) /\ Leads(<<w, s>>, <<body \o r, t>>)

LEMMA ReachesBack ==
    ASSUME NEW w, NEW s, NEW u, NEW t, NEW body, NEW x, NEW end,
           Reaches(u, t, body, x, end), \A y : Leads(<<u, t>>, y) => Leads(<<w, s>>, y)
    PROVE  Reaches(w, s, body, x, end)
<1>1. PICK r : Passing(r, end) /\ Leads(<<u, t>>, <<body \o r, x>>)
  BY DEF Reaches
<1>2. Leads(<<w, s>>, <<body \o r, x>>)
  BY <1>1
<1> QED
  BY <1>1, <1>2 DEF Reaches

LEMMA PassingFacts ==
    ASSUME NEW w, NEW end, Passing(w, end)
    PROVE  IsSeq(w) /\ Len(w) > 1 /\ Len(w) \in Nat /\ Len(w) > 0
<1>1. IsSeq(w) /\ Len(w) > 1 /\ Len(w) \in Nat
  BY Cons DEF Passing
<1> QED
  BY <1>1

(* A level of a countdown: its loop, then its case. *)
LoopOf(pc, span, f, l) ==
    IF l = span THEN <<ClearField(pc), ClearField("Branch")>> ELSE <<AddField(pc, -1)>> \o f[l + 1]

LevelCode(pc, span, f, l, b) ==
    /\ IsSeq(f[l])
    /\ \A w, end : Passing(w, end) =>
          /\ f[l] \o w = <<While(pc, LoopOf(pc, span, f, l))>> \o (Gate(b) \o w)
          /\ Passing(f[l] \o w, end)

LEMMA LevelFacts ==
    ASSUME NEW pc \in Pcs, NEW span \in Nat, NEW case, NEW f, IsLevels(pc, span, case, f),
           NEW l \in 0 .. span, NEW b, case[l] = Gate(b)
    PROVE  LevelCode(pc, span, f, l, b)
<1>1. PICK loop : loop = LoopOf(pc, span, f, l)
  OBVIOUS
<1>2. PICK i : i = While(pc, loop)
  OBVIOUS
<1>3. PICK g : g = Gate(b)
  OBVIOUS
<1>4. f[l] = <<i>> \o g
  BY <1>1, <1>2, <1>3 DEF IsLevels, Level, LoopOf
<1>5. IsSeq(<<>>)
  BY DEF IsSeq
<1>6. IsSeq(g) /\ IsSeq(<<i>>)
  BY <1>3, <1>5, Cons DEF Gate
<1>7. IsSeq(f[l])
  BY <1>4, <1>6, Appended
<1>8. ASSUME NEW w, NEW end, Passing(w, end)
      PROVE  f[l] \o w = <<i>> \o (g \o w) /\ Passing(f[l] \o w, end)
  <2>1. IsSeq(w)
    BY <1>8, PassingFacts
  <2>2. (<<i>> \o g) \o w = <<i>> \o (g \o w)
    BY <1>6, <2>1, Assoc
  <2>3. f[l] \o w = <<i>> \o (g \o w)
    BY <1>4, <2>2
  <2>4. Passing(g \o w, end)
    BY <1>3, <1>8, PassesGate
  <2>5. pc \in Selectors
    BY SelFacts
  <2>6. Passing(<<While(pc, loop)>> \o (g \o w), end)
    BY <2>4, <2>5, PassesWhile
  <2> QED
    BY <1>2, <2>3, <2>6
<1> QED
  BY <1>1, <1>2, <1>3, <1>7, <1>8 DEF LevelCode

LEMMA CountdownReaches ==
    ASSUME NEW pc \in Pcs, NEW span \in Nat, NEW case, \A l \in 0 .. span : \E b : case[l] = Gate(b),
           NEW v \in Byte, v <= span, NEW body, IsSeq(body), case[v] = Gate(body),
           NEW o, NEW end, NEW w, Passing(w, end)
    PROVE  /\ Reaches(Countdown(pc, span, case) \o w, Sel(pc, v, o, 0, 1),
                      body, Sel(pc, 0, o, 0, 0), end)
           /\ IsSeq(Countdown(pc, span, case))
<1>1. PICK f : IsLevels(pc, span, case, f) /\ Countdown(pc, span, case) = f[0]
  BY CountdownLevels
<1>2. v \in Nat /\ v \in 0 .. span /\ Base \in Nat
  BY DispatchAssumption DEF Byte
<1> DEFINE Good(d) == \A x : Passing(x, end) =>
                Reaches(f[v - d] \o x, Sel(pc, d, o, 0, 1), body, Sel(pc, 0, o, 0, 0), end)
           Bad == {d \in 0 .. v : ~Good(d)}
<1>3. Good(0)
  <2> SUFFICES ASSUME NEW x, Passing(x, end)
               PROVE  Reaches(f[v] \o x, Sel(pc, 0, o, 0, 1), body, Sel(pc, 0, o, 0, 0), end)
    BY <1>2
  <2>1. IsSeq(x) /\ Len(x) > 1
    BY PassingFacts
  <2>2. PICK loop : f[v] \o x = <<While(pc, loop)>> \o (Gate(body) \o x)
    <3>1. f[v] \o x = <<While(pc, LoopOf(pc, span, f, v))>> \o (Gate(body) \o x)
      <4>1. LevelCode(pc, span, f, v, body)
        BY <1>1, <1>2, LevelFacts
      <4> QED
        BY <4>1 DEF LevelCode
    <3> QED
      BY <3>1
  <2>3. PICK q : q = Gate(body) \o x /\ Passing(q, end)
    BY PassesGate
  <2>4. Leads(<<q, Sel(pc, 0, o, 0, 1)>>, <<body \o q, Sel(pc, 0, o, 0, 0)>>)
    BY <2>1, <2>3, GateOpens
  <2>5. Leads(<<<<While(pc, loop)>> \o q, Sel(pc, 0, o, 0, 1)>>, <<body \o q, Sel(pc, 0, o, 0, 0)>>)
    <3>1. PICK s, y : s = Sel(pc, 0, o, 0, 1) /\ y = <<body \o q, Sel(pc, 0, o, 0, 0)>>
      OBVIOUS
    <3>2. s[pc] = 0 /\ pc \in Selectors /\ Leads(<<q, s>>, y)
      BY <2>4, <3>1, SelFacts
    <3>3. IsSeq(q) /\ Len(q) > 0
      BY <2>3, PassingFacts
    <3>4. Leads(<<<<While(pc, loop)>> \o q, s>>, y)
      BY <3>2, <3>3, DoWhile, Zenon
    <3> QED
      BY <3>1, <3>4
  <2>6. Leads(<<f[v] \o x, Sel(pc, 0, o, 0, 1)>>, <<body \o q, Sel(pc, 0, o, 0, 0)>>)
    BY <2>2, <2>3, <2>5
  <2> QED
    BY <2>3, <2>6 DEF Reaches
<1>4. ASSUME NEW d \in 1 .. v, Good(d - 1) PROVE Good(d)
  <2> SUFFICES ASSUME NEW x, Passing(x, end)
               PROVE  Reaches(f[v - d] \o x, Sel(pc, d, o, 0, 1), body, Sel(pc, 0, o, 0, 0), end)
    OBVIOUS
  <2>1. PICK l \in 0 .. span : l = v - d /\ l + 1 = v - (d - 1) /\ l # span /\ l + 1 \in 0 .. span
    BY <1>2
  <2>2. PICK b : case[l] = Gate(b)
    OBVIOUS
  <2>3. IsSeq(x) /\ Len(x) > 1
    BY PassingFacts
  <2>4. PICK loop : loop = <<AddField(pc, -1)>> \o f[l + 1]
    OBVIOUS
  <2>5. f[l] \o x = <<While(pc, loop)>> \o (Gate(b) \o x)
    <3>1. f[l] \o x = <<While(pc, LoopOf(pc, span, f, l))>> \o (Gate(b) \o x)
      <4>1. LevelCode(pc, span, f, l, b)
        BY <1>1, <2>2, LevelFacts
      <4> QED
        BY <4>1 DEF LevelCode
    <3>2. LoopOf(pc, span, f, l) = loop
      BY <2>1, <2>4 DEF LoopOf
    <3> QED
      BY <3>1, <3>2
  <2>6. PICK q : q = f[l] \o x /\ Passing(q, end) /\ IsSeq(q) /\ Len(q) > 1 /\ Len(q) > 0
    <3>1. Passing(f[l] \o x, end)
      <4>1. LevelCode(pc, span, f, l, b)
        BY <1>1, <2>2, LevelFacts
      <4> QED
        BY <4>1 DEF LevelCode
    <3> QED
      BY <3>1, PassingFacts
  <2>7. IsSeq(f[l + 1])
    <3>1. PICK k \in 0 .. span : k = l + 1
      BY <2>1
    <3>2. PICK c : case[k] = Gate(c)
      OBVIOUS
    <3>3. IsSeq(f[k])
      BY <1>1, <3>2, LevelFacts DEF LevelCode
    <3> QED
      BY <3>1, <3>3
  <2>8. Reaches(f[l + 1] \o q, Sel(pc, d - 1, o, 0, 1), body, Sel(pc, 0, o, 0, 0), end)
    BY <1>4, <2>1, <2>6
  <2>9. ASSUME NEW y, Leads(<<f[l + 1] \o q, Sel(pc, d - 1, o, 0, 1)>>, y)
        PROVE  Leads(<<f[l] \o x, Sel(pc, d, o, 0, 1)>>, y)
    <3>1. PICK g : g = f[l + 1] \o q /\ IsSeq(g) /\ Len(g) > 0
      BY <2>6, <2>7, Appended
    <3>2. Sum(d, -1) = d - 1
      <4>1. 1 \in Byte /\ d \in Byte /\ 1 <= d
        BY <1>2, DispatchAssumption DEF Byte
      <4> QED
        BY <4>1, Sums
    <3>3. Leads(<<g, Sel(pc, Sum(d, -1), o, 0, 1)>>, y)
      BY <2>9, <3>1, <3>2
    <3>4. Leads(<<<<AddField(pc, -1)>> \o g, Sel(pc, d, o, 0, 1)>>, y)
      BY <3>1, <3>3, DoAdd, Zenon
    <3>5. loop \o q = <<AddField(pc, -1)>> \o g
      <4>1. IsSeq(<<AddField(pc, -1)>>)
        BY <2>6, Cons
      <4> QED
        <5>1. PICK m : m = f[l + 1] /\ IsSeq(m)
          BY <2>7
        <5>2. (<<AddField(pc, -1)>> \o m) \o q = <<AddField(pc, -1)>> \o (m \o q)
          <6>1. PICK i : i = <<AddField(pc, -1)>> /\ IsSeq(i)
            BY <4>1
          <6>2. (i \o m) \o q = i \o (m \o q)
            <7>1. Associates(i, m, q)
              BY <2>6, <5>1, <6>1, Associative
            <7> QED
              BY <7>1 DEF Associates
          <6> QED
            BY <6>1, <6>2
        <5> QED
          BY <2>4, <3>1, <5>1, <5>2
    <3>6. PICK s : s = Sel(pc, d, o, 0, 1)
      OBVIOUS
    <3>7. s[pc] # 0 /\ pc \in Selectors
      BY <3>6, SelFacts
    <3>8. PICK e : e = Gate(b) \o x /\ IsSeq(e) /\ Len(e) > 0
      <4>1. Passing(Gate(b) \o x, end)
        BY PassesGate
      <4> QED
        BY <4>1, PassingFacts
    <3>9. Leads(<<loop \o (<<While(pc, loop)>> \o e), s>>, y)
      BY <2>5, <2>6, <3>4, <3>5, <3>6, <3>8
    <3>10. Leads(<<<<While(pc, loop)>> \o e, s>>, y)
      BY <3>7, <3>8, <3>9, DoWhile, Zenon
    <3> QED
      BY <2>5, <3>6, <3>8, <3>10
  <2> QED
    BY <2>1, <2>8, <2>9, ReachesBack
<1>5. Bad = {}
  <2> SUFFICES ASSUME Bad # {} PROVE FALSE
    OBVIOUS
  <2> HIDE DEF Good
  <2>1. PICK d \in 0 .. v : ~Good(d) /\ \A m \in Bad : d <= m
    <3>1. Bad \subseteq Nat
      OBVIOUS
    <3>2. Min(Bad) \in Bad /\ \A m \in Bad : Min(Bad) <= m
      BY <3>1, NaturalsHaveMin
    <3> QED
      BY <3>2
  <2>2. d # 0
    BY <1>3, <2>1
  <2>3. d \in 1 .. v /\ d - 1 \in 0 .. v /\ ~(d <= d - 1)
    BY <1>2, <2>2
  <2>4. Good(d - 1)
    BY <2>1, <2>3
  <2> QED
    BY <1>4, <2>1, <2>3, <2>4
<1>6. Good(v)
  <2>1. v \in 0 .. v
    BY <1>2
  <2> QED
    BY <1>5, <2>1
<1>7. IsSeq(f[0])
  <2>1. PICK k \in 0 .. span : k = 0
    OBVIOUS
  <2>2. PICK c : case[k] = Gate(c)
    OBVIOUS
  <2>3. IsSeq(f[k])
    BY <1>1, <2>2, LevelFacts DEF LevelCode
  <2> QED
    BY <2>1, <2>3
<1>8. v - v = 0
  BY <1>2
<1> QED
  BY <1>1, <1>6, <1>7, <1>8

(* Equality tests, one after another. *)
LEMMA EqualitiesReach ==
    ASSUME NEW pc \in Pcs, NEW S, S \subseteq Byte, NEW body, \A u \in S : IsSeq(body[u]),
           NEW v \in S, Min(S) \in S, Max(S) \in S, \A u \in S : Min(S) <= u /\ u <= Max(S),
           NEW o, NEW end, NEW w, Passing(w, end)
    PROVE  /\ Reaches(Equalities(pc, S, body) \o w, Sel(pc, v, o, 0, 0),
                      body[v], Sel(pc, 0, o, 0, 0), end)
           /\ IsSeq(Equalities(pc, S, body))
<1>1. Base \in Nat /\ \A u \in S : u \in Byte /\ u \in Nat
  BY DispatchAssumption DEF Byte
<1>2. PICK first \in Nat, last \in Nat :
          first = Min(S) /\ last = Max(S) /\ first <= v /\ v <= last /\ v \in Byte /\ v \in Nat
  BY <1>1
<1>3. PICK f : IsTests(pc, body, S, f) /\ Equalities(pc, S, body) = f[first]
  BY <1>2, EqualitiesTests
<1>4. \A i \in first .. last + 1 : f[i] = Test(pc, body, S, last, f, i)
  BY <1>2, <1>3 DEF IsTests
<1> DEFINE Arrives(u, x) == Reaches(f[u] \o x, Sel(pc, v, o, 0, 0), body[v], Sel(pc, 0, o, 0, 0), end)
           Good(u) == /\ IsSeq(f[u])
                      /\ u > 0 => \A x : Passing(x, end) => Passing(f[u] \o x, end)
                      /\ u <= v => \A x : Passing(x, end) => Arrives(u, x)
           Bad == {d \in 0 .. last + 1 - first : ~Good(last + 1 - d)}
<1>5. Good(last + 1)
  <2>1. f[last + 1] = <<>>
    BY <1>2, <1>4 DEF Test
  <2>2. IsSeq(<<>>)
    BY DEF IsSeq
  <2>3. ASSUME NEW x, Passing(x, end) PROVE Passing(f[last + 1] \o x, end)
    <3>1. <<>> \o x = x
      BY <2>3, PassingFacts, Sequence
    <3> QED
      BY <2>1, <2>3, <3>1
  <2>4. ~(last + 1 <= v)
    BY <1>2
  <2> QED
    BY <2>1, <2>2, <2>3, <2>4
<1>6. ASSUME NEW u \in first .. last, Good(u + 1) PROVE Good(u)
  <2>1. u \in Nat /\ u + 1 > 0 /\ u <= last /\ u \in first .. last + 1
    BY <1>2
  <2>2. PICK g : g = f[u + 1] /\ IsSeq(g) /\ \A x : Passing(x, end) => Passing(g \o x, end)
    BY <1>6, <2>1
  <2>3. f[u] = (IF u \in S THEN Equality(pc, u, body[u]) ELSE <<>>) \o g
    <3>1. f[u] = Test(pc, body, S, last, f, u) /\ ~(u > last)
      BY <1>4, <2>1
    <3> QED
      BY <2>2, <3>1 DEF Test
  <2>4. CASE u \notin S
    <3>1. f[u] = g
      <4>1. <<>> \o g = g
        BY <2>2, Sequence
      <4> QED
        BY <2>3, <2>4, <4>1
    <3>2. u <= v => u + 1 <= v
      BY <1>2, <2>1, <2>4
    <3>3. f[u] = f[u + 1]
      BY <2>2, <3>1
    <3> QED
      BY <1>6, <2>1, <3>2, <3>3
  <2>5. CASE u \in S
    <3>1. PICK e : e = Equality(pc, u, body[u]) /\ IsSeq(e)
      BY EqualityIsSeq
    <3>2. f[u] = e \o g
      BY <2>3, <2>5, <3>1
    <3>3. IsSeq(f[u])
      BY <2>2, <3>1, <3>2, Appended
    <3>4. ASSUME NEW x, Passing(x, end)
          PROVE  f[u] \o x = e \o (g \o x) /\ Passing(g \o x, end)
      <4>1. Associates(e, g, x)
        BY <2>2, <3>1, <3>4, PassingFacts, Associative
      <4> QED
        BY <2>2, <3>2, <3>4, <4>1 DEF Associates
    <3>5. u \in Byte /\ IsSeq(body[u])
      BY <1>1, <2>5
    <3>6. ASSUME u > 0, NEW x, Passing(x, end) PROVE Passing(f[u] \o x, end)
      <4>1. PICK q : q = g \o x /\ Passing(q, end) /\ f[u] \o x = e \o q
        BY <3>4, <3>6
      <4>2. Passing(Equality(pc, u, body[u]) \o q, end)
        BY <3>5, <3>6, <4>1, PassesEquality
      <4> QED
        BY <3>1, <4>1, <4>2
    <3>7. ASSUME u <= v, NEW x, Passing(x, end) PROVE Arrives(u, x)
      <4>1. PICK q : q = g \o x /\ Passing(q, end) /\ f[u] \o x = e \o q
        BY <3>4, <3>7
      <4>2. IsSeq(q) /\ Len(q) > 1 /\ Len(q) > 0
        BY <4>1, PassingFacts
      <4>3. CASE u = v
        <5>1. PICK r : r = Gate(<<ClearField(pc)>> \o body[v]) \o q /\ Passing(r, end)
          BY <4>1, PassesGate
        <5>2. Leads(<<body[v] \o (Gate(<<ClearField(pc)>> \o body[v]) \o q), Sel(pc, 0, o, 0, 0)>>,
                    <<body[v] \o r, Sel(pc, 0, o, 0, 0)>>)
          BY <5>1, LeadsSelf
        <5>3. Leads(<<Equality(pc, v, body[v]) \o q, Sel(pc, v, o, 0, 0)>>,
                    <<body[v] \o r, Sel(pc, 0, o, 0, 0)>>)
          BY <1>2, <3>5, <4>2, <4>3, <5>2, EqualityMatches
        <5>4. f[u] \o x = Equality(pc, v, body[v]) \o q
          BY <3>1, <4>1, <4>3
        <5> QED
          BY <5>1, <5>3, <5>4 DEF Reaches
      <4>4. CASE u # v
        <5>1. u + 1 <= v
          BY <1>2, <2>1, <3>7, <4>4
        <5>2. Reaches(q, Sel(pc, v, o, 0, 0), body[v], Sel(pc, 0, o, 0, 0), end)
          BY <1>6, <2>2, <3>7, <4>1, <5>1
        <5>3. ASSUME NEW y, Leads(<<q, Sel(pc, v, o, 0, 0)>>, y)
              PROVE  Leads(<<f[u] \o x, Sel(pc, v, o, 0, 0)>>, y)
          <6>1. Leads(<<Equality(pc, u, body[u]) \o q, Sel(pc, v, o, 0, 0)>>, y)
            BY <1>2, <3>5, <4>2, <4>4, <5>3, EqualityFails
          <6> QED
            BY <3>1, <4>1, <6>1
        <5> QED
          BY <5>2, <5>3, ReachesBack
      <4> QED
        BY <4>3, <4>4
    <3> QED
      BY <3>3, <3>6, <3>7
  <2> QED
    BY <2>4, <2>5
<1>7. Bad = {}
  <2> SUFFICES ASSUME Bad # {} PROVE FALSE
    OBVIOUS
  <2> HIDE DEF Good
  <2>1. PICK d \in 0 .. last + 1 - first : ~Good(last + 1 - d) /\ \A m \in Bad : d <= m
    <3>1. Bad \subseteq Nat
      OBVIOUS
    <3>2. Min(Bad) \in Bad /\ \A m \in Bad : Min(Bad) <= m
      BY <3>1, NaturalsHaveMin
    <3> QED
      BY <3>2
  <2>2. d # 0
    <3>1. last + 1 - 0 = last + 1
      BY <1>2
    <3> QED
      BY <1>5, <2>1, <3>1
  <2>3. d - 1 \in 0 .. last + 1 - first /\ ~(d <= d - 1)
    BY <1>2, <2>2
  <2>4. Good(last + 1 - (d - 1))
    BY <2>1, <2>3
  <2>5. last + 1 - d \in first .. last /\ last + 1 - d + 1 = last + 1 - (d - 1)
    BY <1>2, <2>2
  <2>6. PICK u \in first .. last : u = last + 1 - d /\ u + 1 = last + 1 - (d - 1)
    BY <2>5
  <2> QED
    BY <1>6, <2>1, <2>4, <2>6
<1>8. Good(first)
  <2>1. last + 1 - first \in 0 .. last + 1 - first /\ last + 1 - (last + 1 - first) = first
    BY <1>2
  <2> QED
    BY <1>7, <2>1
<1> QED
  BY <1>2, <1>3, <1>8

-----------------------------------------------------------------------------
(* A selection, of either kind, finds the body of the value it is given. *)
LEMMA SelectReaches ==
    ASSUME NEW pc \in Pcs, NEW S, S \subseteq Byte, NEW body, \A u \in S : IsSeq(body[u]),
           NEW v \in S, NEW o, NEW end, NEW w, Passing(w, end)
    PROVE  /\ Reaches(Select(pc, S, body) \o w, Sel(pc, v, o, 0, 0),
                      body[v], Sel(pc, 0, o, 0, 0), end)
           /\ IsSeq(Select(pc, S, body))
<1>1. Base \in Nat /\ Base - 1 \in Nat
  BY DispatchAssumption
<1>2. Min(S) \in S /\ Max(S) \in S /\ \A u \in S : Min(S) <= u /\ u <= Max(S)
  <2>1. S # {} /\ S \subseteq Nat /\ S \subseteq 0 .. Base - 1
    BY <1>1 DEF Byte
  <2>2. Min(S) \in S /\ \A u \in S : Min(S) <= u
    BY <2>1, NaturalsHaveMin
  <2>3. Max(S) \in S /\ \A u \in S : u <= Max(S)
    BY <1>1, <2>1, BoundedHaveMax
  <2> QED
    BY <2>2, <2>3
<1>3. CASE ~Consecutive(S)
  BY <1>2, <1>3, EqualitiesReach DEF Select
<1>4. CASE Consecutive(S)
  <2>1. PICK least \in Byte, span \in Nat :
            least = Min(S) /\ span = Max(S) - Min(S) /\ v - least \in Byte /\ v - least <= span
                /\ least <= v /\ v \in Byte
    <3>1. PICK low \in Byte, high \in Byte :
              low = Min(S) /\ high = Max(S) /\ low <= v /\ v <= high /\ v \in Byte
      BY <1>2
    <3>2. high - low \in Nat /\ v - low \in Byte /\ v - low <= high - low
      BY <1>1, <3>1 DEF Byte
    <3> QED
      BY <3>1, <3>2
  <2>2. PICK case : case = [l \in 0 .. span |-> Gate(body[least + l])]
    OBVIOUS
  <2>3. PICK n \in Byte : n = v - least /\ n <= span /\ case[n] = Gate(body[v])
    <3>1. v - least \in 0 .. span /\ least + (v - least) = v
      BY <1>1, <2>1 DEF Byte
    <3> QED
      BY <2>1, <2>2, <3>1
  <2>4. \A l \in 0 .. span : \E b : case[l] = Gate(b)
    BY <2>2
  <2>5. PICK k : k = Countdown(pc, span, case)
    OBVIOUS
  <2>6. Reaches(k \o w, Sel(pc, n, o, 0, 1), body[v], Sel(pc, 0, o, 0, 0), end) /\ IsSeq(k)
    <3>1. PICK b : b = body[v] /\ IsSeq(b) /\ case[n] = Gate(b)
      BY <2>3
    <3> QED
      BY <2>3, <2>4, <2>5, <3>1, CountdownReaches
  <2>7. PICK a, s : a = <<AddField(pc, -least)>> /\ s = SetField("Branch", 1) /\ IsSeq(a) /\ IsSeq(s)
    BY <2>6, Cons, Pair DEF SetField
  <2>8. Select(pc, S, body) = (a \o s) \o k
    BY <1>4, <2>1, <2>2, <2>5, <2>7 DEF Select
  <2>9. IsSeq(a \o s) /\ IsSeq((a \o s) \o k)
    <3>1. IsSeq(a \o s)
      BY <2>7, Appended
    <3> QED
      BY <2>6, <3>1, Appended
  <2>10. ((a \o s) \o k) \o w = a \o (s \o (k \o w)) /\ IsSeq(w) /\ IsSeq(k \o w) /\ Len(k \o w) > 0
    <3>1. IsSeq(w) /\ Len(w) > 0
      BY PassingFacts
    <3>2. PICK q : q = k \o w /\ IsSeq(q) /\ Len(q) > 0
      BY <2>6, <3>1, Appended
    <3>3. PICK p : p = a \o s /\ IsSeq(p)
      BY <2>9
    <3>4. Associates(p, k, w) /\ Associates(a, s, q)
      BY <2>6, <2>7, <3>1, <3>2, <3>3, Associative
    <3> QED
      BY <3>1, <3>2, <3>3, <3>4 DEF Associates
  <2>11. ASSUME NEW y, Leads(<<k \o w, Sel(pc, n, o, 0, 1)>>, y)
         PROVE  Leads(<<Select(pc, S, body) \o w, Sel(pc, v, o, 0, 0)>>, y)
    <3>1. PICK q : q = k \o w /\ IsSeq(q) /\ Len(q) > 0
      BY <2>10
    <3>2. PICK r : r = s \o q /\ IsSeq(r) /\ Len(r) > 0
      BY <2>7, <3>1, Appended
    <3>3. Leads(<<r, Sel(pc, n, o, 0, 0)>>, y)
      BY <2>7, <2>11, <3>1, <3>2, SetBranch
    <3>4. Sum(v, -least) = n
      BY <2>1, <2>3, Sums
    <3>5. Leads(<<r, Sel(pc, Sum(v, -least), o, 0, 0)>>, y)
      BY <3>3, <3>4, Zenon
    <3>6. Leads(<<<<AddField(pc, -least)>> \o r, Sel(pc, v, o, 0, 0)>>, y)
      BY <3>2, <3>5, DoAdd, Zenon
    <3>7. Select(pc, S, body) \o w = a \o r
      BY <2>8, <2>10, <3>1, <3>2
    <3> QED
      BY <2>7, <3>6, <3>7
  <2> QED
    BY <2>6, <2>8, <2>9, <2>11, ReachesBack
<1> QED
  BY <1>3, <1>4

-----------------------------------------------------------------------------
(* The cycle, from its first instruction to the body of the PC. *)
Outer == <<While("Active", Cycle)>>
End == <<Advance>> \o Outer

LEMMA EndPasses == Passing(End, End) /\ IsSeq(Outer)
<1>1. IsSeq(<<>>)
  BY DEF IsSeq
<1>2. IsSeq(Outer) /\ Len(Outer) = 1
  BY <1>1, Cons DEF Outer
<1>3. IsSeq(End) /\ Len(End) = Len(Outer) + 1
  BY <1>2, Cons DEF End
<1>4. Leads(<<End, Zero>>, <<End, Zero>>)
  BY LeadsSelf
<1>5. Len(End) > 1
  BY <1>2, <1>3
<1> QED
  BY <1>2, <1>3, <1>4, <1>5 DEF Passing

LEMMA CycleReaches ==
    ASSUME entries \subseteq Byte \X Byte, NEW e \in entries
    PROVE  /\ Reaches(Cycle \o Outer, Sel("PcHigh", e[1], e[2], 0, 0), <<EnterBody(e)>>, Zero, End)
           /\ IsSeq(Cycle \o Outer)
<1>1. PICK high \in Byte, low \in Byte : e = <<high, low>> /\ high = e[1] /\ low = e[2]
  OBVIOUS
<1> DEFINE Lower(h) == [l \in Lows(h) |-> <<EnterBody(<<h, l>>)>>]
           Page(h) == Select("PcLow", Lows(h), Lower(h))
           Pages == [h \in Highs |-> Page(h)]
<1>2. "PcHigh" \in Pcs /\ "PcLow" \in Pcs
  BY DEF Pcs
<1>3. Passing(End, End) /\ IsSeq(Outer) /\ IsSeq(End)
  BY EndPasses, PassingFacts
<1>4. Highs \subseteq Byte /\ high \in Highs /\ low \in Lows(high)
  BY <1>1 DEF Highs, Lows
<1>5. ASSUME NEW h \in Highs
      PROVE  /\ Lows(h) \subseteq Byte /\ Lows(h) # {}
             /\ \A l \in Lows(h) : IsSeq(Lower(h)[l])
  <2>1. Lows(h) \subseteq Byte /\ Lows(h) # {}
    BY DEF Highs, Lows
  <2>2. ASSUME NEW l \in Lows(h) PROVE IsSeq(Lower(h)[l])
    <3>1. Lower(h)[l] = <<EnterBody(<<h, l>>)>>
      OBVIOUS
    <3>2. IsSeq(<<EnterBody(<<h, l>>)>>)
      BY <1>3, Cons
    <3> QED
      BY <3>1, <3>2
  <2> QED
    BY <2>1, <2>2
<1>6. \A h \in Highs : IsSeq(Pages[h])
  <2> SUFFICES ASSUME NEW h \in Highs PROVE IsSeq(Page(h))
    OBVIOUS
  <2>1. PICK l \in Lows(h) : TRUE
    BY <1>5
  <2>2. PICK body : body = Lower(h)
    OBVIOUS
  <2>3. Lows(h) \subseteq Byte /\ \A k \in Lows(h) : IsSeq(body[k])
    BY <1>5, <2>2
  <2>4. PICK o : o = 0
    OBVIOUS
  <2>5. IsSeq(Select("PcLow", Lows(h), body))
    BY <1>2, <1>3, <2>1, <2>3, SelectReaches
  <2> QED
    BY <2>2, <2>5
<1>7. PICK pages : pages = Pages
  OBVIOUS
<1>8. pages[high] = Page(high) /\ \A h \in Highs : IsSeq(pages[h])
  BY <1>4, <1>6, <1>7
<1>9. PICK a : a = Select("PcHigh", Highs, pages)
  OBVIOUS
<1>10. Cycle = a \o <<Advance>>
  BY <1>7, <1>9 DEF Cycle
<1>11. Reaches(a \o End, Sel("PcHigh", high, low, 0, 0), Page(high), Sel("PcHigh", 0, low, 0, 0), End)
         /\ IsSeq(a)
  BY <1>2, <1>3, <1>4, <1>8, <1>9, SelectReaches
<1>12. PICK r : Passing(r, End) /\ Leads(<<a \o End, Sel("PcHigh", high, low, 0, 0)>>,
                                         <<Page(high) \o r, Sel("PcHigh", 0, low, 0, 0)>>)
  BY <1>11 DEF Reaches
<1>13. Reaches(Page(high) \o r, Sel("PcLow", low, 0, 0, 0), <<EnterBody(e)>>, Sel("PcLow", 0, 0, 0, 0), End)
  <2>1. PICK body : body = Lower(high)
    OBVIOUS
  <2>2. body[low] = <<EnterBody(e)>>
    BY <1>1, <1>4, <2>1
  <2>3. Lows(high) \subseteq Byte /\ \A k \in Lows(high) : IsSeq(body[k])
    BY <1>4, <1>5, <2>1
  <2>4. Reaches(Select("PcLow", Lows(high), body) \o r, Sel("PcLow", low, 0, 0, 0),
                body[low], Sel("PcLow", 0, 0, 0, 0), End)
    BY <1>2, <1>4, <1>12, <2>3, SelectReaches
  <2> QED
    BY <2>1, <2>2, <2>4
<1>14. PICK q : Passing(q, End) /\ Leads(<<Page(high) \o r, Sel("PcLow", low, 0, 0, 0)>>,
                                         <<<<EnterBody(e)>> \o q, Sel("PcLow", 0, 0, 0, 0)>>)
  BY <1>13 DEF Reaches
<1>15. Leads(<<Page(high) \o r, Sel("PcHigh", 0, low, 0, 0)>>, <<<<EnterBody(e)>> \o q, Zero>>)
  <2>1. Sel("PcHigh", 0, low, 0, 0) = Sel("PcLow", low, 0, 0, 0) /\ Sel("PcLow", 0, 0, 0, 0) = Zero
    BY <1>2, SelFacts
  <2> QED
    BY <1>14, <2>1
<1>16. Leads(<<a \o End, Sel("PcHigh", high, low, 0, 0)>>, <<<<EnterBody(e)>> \o q, Zero>>)
  BY <1>12, <1>15, LeadsChain
<1>17. Cycle \o Outer = a \o End /\ IsSeq(a \o End)
  <2>1. PICK s : s = <<Advance>> /\ IsSeq(s)
    BY <1>3, Cons
  <2>2. Associates(a, s, Outer)
    BY <1>3, <1>11, <2>1, Associative
  <2>3. IsSeq(a \o End)
    BY <1>3, <1>11, Appended
  <2> QED
    BY <1>10, <2>1, <2>2, <2>3 DEF Associates, End
<1> QED
  BY <1>1, <1>14, <1>16, <1>17 DEF Reaches

-----------------------------------------------------------------------------
(* The contexts: records of the fields, one at least. *)
Shape(cs) == Len(cs) \in Nat /\ Len(cs) >= 1 /\ \E V : cs \in Seq([Fields -> V])

Put(cs, f, v) == [cs EXCEPT ![Len(cs)][f] = v]

Stores(cs, f, v, ds) ==
    /\ Shape(ds) /\ Len(ds) = Len(cs)
    /\ \A i \in 1 .. Len(cs) - 1 : ds[i] = cs[i]
    /\ ds[Len(cs)][f] = v
    /\ \A g \in Fields : g # f => ds[Len(cs)][g] = cs[Len(cs)][g]

LEMMA Stored ==
    ASSUME NEW cs, Shape(cs), NEW f \in Fields, NEW v
    PROVE  Stores(cs, f, v, Put(cs, f, v))
<1>1. PICK V : cs \in Seq([Fields -> V])
  BY DEF Shape
<1>2. PICK W : W = V \cup {v}
  OBVIOUS
<1>3. PICK n \in Nat : n = Len(cs) /\ n >= 1
  BY DEF Shape
<1>4. cs[n] \in [Fields -> V] /\ \A i \in 1 .. n : cs[i] \in [Fields -> V]
  BY <1>1, <1>3
<1>5. PICK c : c = [cs[n] EXCEPT ![f] = v]
  OBVIOUS
<1>6. c \in [Fields -> W] /\ c[f] = v /\ \A g \in Fields : g # f => c[g] = cs[n][g]
  BY <1>2, <1>4, <1>5
<1>7. PICK ds : ds = [cs EXCEPT ![n] = c]
  OBVIOUS
<1>8. cs \in Seq([Fields -> W])
  <2>1. [Fields -> V] \subseteq [Fields -> W]
    BY <1>2
  <2> QED
    BY <1>1, <2>1
<1>9. ds \in Seq([Fields -> W]) /\ Len(ds) = n /\ ds[n] = c /\ \A i \in 1 .. n - 1 : ds[i] = cs[i]
  BY <1>3, <1>6, <1>7, <1>8
<1>10. Shape(ds)
  BY <1>3, <1>9 DEF Shape
<1>11. Put(cs, f, v) = ds
  BY <1>3, <1>5, <1>7 DEF Put
<1>12. Stores(cs, f, v, ds)
  BY <1>3, <1>6, <1>9, <1>10 DEF Stores
<1> QED
  BY <1>11, <1>12

(* Where a cycle stands. *)
Chosen == [f \in Selectors |-> Here[f]]

Choosing ==
    /\ fetched \in entries
    /\ Here.Active = 1
    /\ Here.NextPc = NoPc
    /\ Reaches(work, Chosen, <<EnterBody(fetched)>>, Zero, End)

Ending ==
    /\ fetched = NoPc
    /\ Leads(<<work, Chosen>>, <<End, Zero>>)
    /\ (Here.Active = 1 /\ Here.NextPc \in entries) \/ (Here.Active = 0 /\ Here.NextPc = NoPc)

Between ==
    /\ fetched = NoPc
    /\ work = Outer
    /\ Here.Condition = 0
    /\ Here.Branch = 0
    /\ Here.NextPc = NoPc
    /\ (Here.Active = 1 /\ <<Here.PcHigh, Here.PcLow>> \in entries) \/ Here.Active = 0

Stopped == fetched = NoPc /\ work = <<>>

(* The contexts below the current one wait for a return: nothing of them   *)
(* is left to be selected.                                                 *)
Waiting ==
    /\ \A i \in 1 .. Len(contexts) - 1 :
          /\ \A f \in Selectors : contexts[i][f] = 0
          /\ contexts[i].Active = 1
          /\ contexts[i].NextPc = NoPc
    /\ \A i \in 2 .. Len(contexts) : contexts[i].ReturnPc \in entries

IInv ==
    /\ entries \subseteq Codes /\ NoPc \notin entries
    /\ Shape(contexts)
    /\ Waiting
    /\ Choosing \/ Ending \/ Between \/ Stopped

(* A step on the selection fields changes nothing else. *)
Quiet ==
    /\ Shape(contexts')
    /\ Len(contexts') = Len(contexts)
    /\ \A i \in 1 .. Len(contexts) - 1 : contexts'[i] = contexts[i]
    /\ \A f \in Fields \ Selectors : Here'[f] = Here[f]
    /\ UNCHANGED <<entries, fetched, ran>>

LEMMA Below == ASSUME IInv, Quiet PROVE Waiting'
<1>1. PICK n \in Nat : n = Len(contexts) /\ n >= 1 /\ n = Len(contexts')
  BY DEF IInv, Shape, Quiet
<1>2. "ReturnPc" \in Fields \ Selectors
  BY DEF Fields, Selectors
<1>3. contexts'[n].ReturnPc = contexts[n].ReturnPc
  BY <1>1, <1>2 DEF Quiet, Here
<1>4. \A i \in 2 .. n : contexts'[i].ReturnPc \in entries'
  <2> SUFFICES ASSUME NEW i \in 2 .. n PROVE contexts'[i].ReturnPc \in entries'
    OBVIOUS
  <2>1. contexts[i].ReturnPc \in entries /\ entries' = entries
    BY <1>1 DEF IInv, Waiting, Quiet
  <2>2. CASE i = n
    BY <1>3, <2>1, <2>2
  <2>3. CASE i # n
    <3>1. i \in 1 .. n - 1
      BY <2>3
    <3> QED
      BY <1>1, <2>1, <3>1 DEF Quiet
  <2> QED
    BY <2>2, <2>3
<1>5. \A i \in 1 .. n - 1 : contexts'[i] = contexts[i]
  BY <1>1 DEF Quiet
<1> QED
  BY <1>1, <1>4, <1>5 DEF IInv, Waiting

LEMMA SelectorStep ==
    ASSUME Shape(contexts), Selecting(work), Next
    PROVE  Quiet /\ <<work', Chosen'>> = After(<<work, Chosen>>) /\ ~Is("enter") /\ ~Is("advance")
<1>1. PICK i : i = Instr /\ i = Head(work)
  BY DEF Instr
<1>2. OnSelectors(i) /\ Len(work) > 1
  BY <1>1 DEF Selecting
<1>3. work # <<>>
  BY <1>2
<1>4. i.op \in {"add", "clear", "while", "copy"}
  BY <1>2 DEF OnSelectors
<1>5. ~Is("enter") /\ ~Is("advance")
  BY <1>1, <1>4 DEF Is
<1>6. Selectors \subseteq Fields /\ "Active" \notin Selectors
  BY DEF Selectors, Fields
<1>7. ASSUME NEW f \in Selectors, NEW v, SetHere(f, v), UNCHANGED <<entries, fetched, ran>>
      PROVE  Quiet /\ Chosen' = [Chosen EXCEPT ![f] = v]
  <2>1. PICK cs, ds : cs = contexts /\ ds = contexts' /\ ds = Put(cs, f, v)
    BY <1>7 DEF SetHere, Put
  <2>2. /\ Shape(ds) /\ Len(ds) = Len(cs)
        /\ \A k \in 1 .. Len(cs) - 1 : ds[k] = cs[k]
        /\ ds[Len(cs)][f] = v
        /\ \A g \in Fields : g # f => ds[Len(cs)][g] = cs[Len(cs)][g]
    <3>1. Stores(cs, f, v, ds)
      BY <1>6, <2>1, Stored
    <3> QED
      BY <3>1 DEF Stores
  <2>3. Here' = ds[Len(cs)] /\ Here = cs[Len(cs)]
    BY <2>1, <2>2 DEF Here
  <2>4. \A g \in Selectors : Here'[g] = IF g = f THEN v ELSE Here[g]
    BY <1>6, <2>2, <2>3
  <2>5. Chosen' = [Chosen EXCEPT ![f] = v]
    BY <2>4 DEF Chosen
  <2>6. \A g \in Fields \ Selectors : Here'[g] = Here[g]
    BY <2>2, <2>3
  <2> QED
    BY <1>7, <2>1, <2>2, <2>5, <2>6 DEF Quiet
<1>8. \A f \in Selectors : Chosen[f] = Here[f]
  BY DEF Chosen
<1>9. CASE Field
  <2>1. work' = Tail(work) /\ UNCHANGED <<entries, fetched, ran>>
    BY <1>9 DEF Field
  <2>2. i.op # "while"
    BY <1>1, <1>9 DEF Field, Is
  <2>3. After(<<work, Chosen>>) = <<work', Effect(i, Chosen)>>
    BY <1>1, <2>1, <2>2 DEF After, Remaining
  <2>4. Quiet /\ Chosen' = Effect(i, Chosen)
    <3>1. CASE i.op = "add"
      <4>1. PICK f, v : f \in Selectors /\ f = i.field /\ v = Sum(Here[f], i.by) /\ SetHere(f, v)
        BY <1>1, <1>2, <1>9, <3>1 DEF Field, Is, OnSelectors
      <4>2. Quiet /\ Chosen' = [Chosen EXCEPT ![f] = v]
        BY <1>7, <2>1, <4>1
      <4>3. v = Sum(Chosen[i.field], i.by)
        BY <1>8, <4>1
      <4> QED
        BY <3>1, <4>1, <4>2, <4>3 DEF Effect
    <3>2. CASE i.op = "clear"
      <4>1. PICK f : f \in Selectors /\ f = i.field /\ SetHere(f, 0)
        BY <1>1, <1>2, <1>9, <3>2 DEF Field, Is, OnSelectors
      <4>2. Quiet /\ Chosen' = [Chosen EXCEPT ![f] = 0]
        BY <1>7, <2>1, <4>1
      <4> QED
        BY <3>2, <4>1, <4>2 DEF Effect
    <3>3. CASE i.op = "copy"
      <4>1. PICK f, v : f \in Selectors /\ f = i.to /\ i.field \in Selectors /\ v = Here[i.field] /\ SetHere(f, v)
        BY <1>1, <1>2, <1>9, <3>3 DEF Field, Is, OnSelectors
      <4>2. Quiet /\ Chosen' = [Chosen EXCEPT ![f] = v]
        BY <1>7, <2>1, <4>1
      <4>3. v = Chosen[i.field]
        BY <1>8, <4>1
      <4> QED
        BY <3>3, <4>1, <4>2, <4>3 DEF Effect
    <3> QED
      BY <1>4, <2>2, <3>1, <3>2, <3>3
  <2> QED
    BY <1>5, <2>3, <2>4
<1>10. CASE Loop
  <2>1. i.op = "while" /\ i.field \in Selectors /\ i.field # "Active"
    BY <1>1, <1>2, <1>6, <1>10 DEF Loop, Is, OnSelectors
  <2>2. UNCHANGED <<entries, contexts, ran, fetched>>
    BY <1>1, <1>10, <2>1 DEF Loop
  <2>3. Chosen' = Chosen /\ Here' = Here
    BY <2>2 DEF Chosen, Here
  <2>4. work' = IF Here[i.field] # 0 THEN i.body \o work ELSE Tail(work)
    BY <1>1, <1>10 DEF Loop
  <2>5. After(<<work, Chosen>>) = <<work', Chosen>>
    BY <1>1, <1>8, <2>1, <2>4 DEF After, Remaining, Effect
  <2>6. Quiet
    BY <2>2, <2>3 DEF Quiet
  <2> QED
    BY <1>5, <2>3, <2>5, <2>6
<1> QED
  BY <1>3, <1>5, <1>9, <1>10 DEF Next, EndCycle, Body, Finished

-----------------------------------------------------------------------------
(* The steps, by where the cycle stands. *)
LEMMA SameCode == ASSUME entries' = entries PROVE End' = End /\ Outer' = Outer /\ Cycle' = Cycle
<1>1. Highs' = Highs
  BY DEF Highs
<1>2. \A h : Lows(h)' = Lows(h)
  BY DEF Lows
<1>3. Cycle' = Cycle
  BY <1>1, <1>2 DEF Cycle
<1> QED
  BY <1>3 DEF End, Outer

LEMMA Instructions ==
    ASSUME NEW e, NEW body
    PROVE  /\ EnterBody(e).op = "enter" /\ EnterBody(e).entry = e
           /\ Advance.op = "advance"
           /\ While("Active", body).op = "while" /\ While("Active", body).field = "Active"
           /\ While("Active", body).body = body
BY DEF EnterBody, Advance, While

(* Either the end of the way is reached, or a step on the selectors is due. *)
LEMMA Due ==
    ASSUME NEW w, NEW s, NEW v, NEW t, Leads(<<w, s>>, <<v, t>>)
    PROVE  (w = v /\ s = t) \/ (Selecting(w) /\ Leads(After(<<w, s>>), <<v, t>>))
<1>1. PICK x, y : x = <<w, s>> /\ y = <<v, t>> /\ x[1] = w /\ Leads(x, y)
  OBVIOUS
<1>2. CASE x = y
  BY <1>1, <1>2
<1>3. CASE x # y
  <2>1. Selecting(x[1]) /\ Leads(After(x), y)
    BY <1>1, <1>3, LeadsOn
  <2> QED
    BY <1>1, <2>1
<1> QED
  BY <1>2, <1>3

LEMMA ChoosingStep ==
    ASSUME IInv, Choosing, Next, ~Is("enter")
    PROVE  Choosing' /\ Quiet
<1>1. PICK r : Passing(r, End) /\ Leads(<<work, Chosen>>, <<<<EnterBody(fetched)>> \o r, Zero>>)
  BY DEF Choosing, Reaches
<1>2. PICK i : i = EnterBody(fetched) /\ i.op = "enter"
  BY Instructions
<1>3. PICK q : q = <<i>> \o r /\ Head(q) = i /\ q # <<>>
  BY <1>1, PassingFacts, Cons
<1>4. work # q
  BY <1>2, <1>3 DEF Is, Instr
<1>5. Leads(<<work, Chosen>>, <<q, Zero>>)
  BY <1>1, <1>2, <1>3
<1>6. Selecting(work) /\ Leads(After(<<work, Chosen>>), <<q, Zero>>)
  BY <1>4, <1>5, Due
<1>7. Quiet /\ <<work', Chosen'>> = After(<<work, Chosen>>)
  BY <1>6, SelectorStep DEF IInv
<1>8. End' = End /\ fetched' = fetched /\ entries' = entries
  BY <1>7, SameCode DEF Quiet
<1>9. "Active" \in Fields \ Selectors /\ "NextPc" \in Fields \ Selectors
  BY DEF Fields, Selectors
<1>10. Here'.Active = Here.Active /\ Here'.NextPc = Here.NextPc
  BY <1>7, <1>9 DEF Quiet
<1>11. Reaches(work', Chosen', <<EnterBody(fetched)>>, Zero, End)
  BY <1>1, <1>2, <1>3, <1>6, <1>7 DEF Reaches
<1>12. Choosing'
  BY <1>8, <1>10, <1>11 DEF Choosing
<1> QED
  BY <1>7, <1>12

LEMMA EndingStep ==
    ASSUME IInv, Ending, Next, ~Is("advance")
    PROVE  Ending' /\ Quiet
<1>1. IsSeq(Outer)
  BY EndPasses
<1>2. PICK i : i = Advance /\ i.op = "advance"
  BY Instructions
<1>3. Head(End) = i /\ End # <<>>
  BY <1>1, <1>2, Cons DEF End
<1>4. work # End
  BY <1>2, <1>3 DEF Is, Instr
<1>5. Leads(<<work, Chosen>>, <<End, Zero>>)
  BY DEF Ending
<1>6. Selecting(work) /\ Leads(After(<<work, Chosen>>), <<End, Zero>>)
  BY <1>4, <1>5, Due
<1>7. Quiet /\ <<work', Chosen'>> = After(<<work, Chosen>>)
  BY <1>6, SelectorStep DEF IInv
<1>8. End' = End /\ fetched' = fetched /\ entries' = entries
  BY <1>7, SameCode DEF Quiet
<1>9. "Active" \in Fields \ Selectors /\ "NextPc" \in Fields \ Selectors
  BY DEF Fields, Selectors
<1>10. Here'.Active = Here.Active /\ Here'.NextPc = Here.NextPc
  BY <1>7, <1>9 DEF Quiet
<1>11. Leads(<<work', Chosen'>>, <<End, Zero>>)
  BY <1>6, <1>7
<1>12. Ending'
  BY <1>8, <1>10, <1>11 DEF Ending
<1> QED
  BY <1>7, <1>12

(* At the body: the selection fields of its context are zero. *)
LEMMA AtBody ==
    ASSUME IInv, Is("enter")
    PROVE  /\ Choosing /\ Instr.entry = fetched
           /\ Passing(Tail(work), End)
           /\ \A f \in Selectors : Here[f] = 0
<1>1. IsSeq(Outer)
  BY EndPasses
<1>2. ~Between /\ ~Stopped
  <2>1. ASSUME Between PROVE FALSE
    <3>1. PICK i : i = While("Active", Cycle) /\ i.op = "while"
      BY Instructions
    <3>2. work = <<i>> /\ Head(work) = i
      BY <2>1, <3>1 DEF Between, Outer
    <3> QED
      BY <3>1, <3>2 DEF Is, Instr
  <2> QED
    BY <2>1 DEF Stopped, Is
<1>3. PICK i : i = Head(work) /\ i.op = "enter" /\ ~OnSelectors(i)
  BY DEF Is, Instr, OnSelectors
<1>4. ~Selecting(work)
  BY <1>3 DEF Selecting
<1>5. ~Ending
  <2> SUFFICES ASSUME Ending PROVE FALSE
    OBVIOUS
  <2>1. Leads(<<work, Chosen>>, <<End, Zero>>)
    BY DEF Ending
  <2>2. work = End
    BY <1>4, <2>1, Due
  <2>3. PICK a : a = Advance /\ a.op = "advance"
    BY Instructions
  <2>4. Head(work) = a
    BY <1>1, <2>2, <2>3, Cons DEF End
  <2> QED
    BY <1>3, <2>3, <2>4
<1>6. Choosing
  BY <1>2, <1>5 DEF IInv
<1>7. PICK r : Passing(r, End) /\ Leads(<<work, Chosen>>, <<<<EnterBody(fetched)>> \o r, Zero>>)
  BY <1>6 DEF Choosing, Reaches
<1>8. PICK e : e = EnterBody(fetched) /\ e.entry = fetched
  BY Instructions
<1>9. PICK q : q = <<e>> \o r /\ Head(q) = e /\ Tail(q) = r
  BY <1>7, PassingFacts, Cons
<1>10. Leads(<<work, Chosen>>, <<q, Zero>>)
  BY <1>7, <1>8, <1>9
<1>11. work = q /\ Chosen = Zero
  BY <1>4, <1>10, Due
<1>12. Head(work) = e /\ Tail(work) = r
  BY <1>9, <1>11
<1>13. \A f \in Selectors : Here[f] = 0
  <2>1. \A f \in Selectors : Chosen[f] = Here[f] /\ Zero[f] = 0
    BY DEF Chosen, Zero
  <2> QED
    BY <1>11, <2>1
<1> QED
  BY <1>6, <1>7, <1>8, <1>12, <1>13 DEF Instr

LEMMA AtAdvance ==
    ASSUME IInv, Is("advance")
    PROVE  Ending /\ work = End /\ Tail(work) = Outer /\ \A f \in Selectors : Here[f] = 0
<1>1. IsSeq(Outer)
  BY EndPasses
<1>2. ~Between /\ ~Stopped
  <2>1. ASSUME Between PROVE FALSE
    <3>1. PICK i : i = While("Active", Cycle) /\ i.op = "while"
      BY Instructions
    <3>2. work = <<i>> /\ Head(work) = i
      BY <2>1, <3>1 DEF Between, Outer
    <3> QED
      BY <3>1, <3>2 DEF Is, Instr
  <2> QED
    BY <2>1 DEF Stopped, Is
<1>3. PICK i : i = Head(work) /\ i.op = "advance" /\ ~OnSelectors(i)
  BY DEF Is, Instr, OnSelectors
<1>4. ~Selecting(work)
  BY <1>3 DEF Selecting
<1>5. ~Choosing
  <2> SUFFICES ASSUME Choosing PROVE FALSE
    OBVIOUS
  <2>1. PICK r : Passing(r, End) /\ Leads(<<work, Chosen>>, <<<<EnterBody(fetched)>> \o r, Zero>>)
    BY DEF Choosing, Reaches
  <2>2. PICK e : e = EnterBody(fetched) /\ e.op = "enter"
    BY Instructions
  <2>3. PICK q : q = <<e>> \o r /\ Head(q) = e
    BY <2>1, PassingFacts, Cons
  <2>4. Leads(<<work, Chosen>>, <<q, Zero>>)
    BY <2>1, <2>2, <2>3
  <2>5. work = q
    BY <1>4, <2>4, Due
  <2> QED
    BY <1>3, <2>2, <2>3, <2>5
<1>6. Ending
  BY <1>2, <1>5 DEF IInv
<1>7. Leads(<<work, Chosen>>, <<End, Zero>>)
  BY <1>6 DEF Ending
<1>8. work = End /\ Chosen = Zero
  BY <1>4, <1>7, Due
<1>9. Tail(work) = Outer
  BY <1>1, <1>8, Cons DEF End
<1>10. \A f \in Selectors : Here[f] = 0
  <2>1. \A f \in Selectors : Chosen[f] = Here[f] /\ Zero[f] = 0
    BY DEF Chosen, Zero
  <2> QED
    BY <1>8, <2>1
<1> QED
  BY <1>6, <1>8, <1>9, <1>10

LEMMA EndCycleStep ==
    ASSUME IInv, EndCycle
    PROVE  /\ Between'
           /\ Shape(contexts') /\ Len(contexts') = Len(contexts)
           /\ \A i \in 1 .. Len(contexts) - 1 : contexts'[i] = contexts[i]
           /\ Here'.ReturnPc = Here.ReturnPc /\ Here'.Active = Here.Active
           /\ <<Here'.PcHigh, Here'.PcLow>> = Here.NextPc
           /\ entries' = entries /\ ran' = ran
           /\ Ending /\ work = End
<1>1. Ending /\ work = End /\ Tail(work) = Outer /\ \A f \in Selectors : Here[f] = 0
  BY AtAdvance DEF EndCycle
<1>2. PICK cs, n : cs = contexts /\ n = Len(cs) /\ Shape(cs)
  BY DEF IInv
<1>3. PICK c1, c2, c3 : /\ c1 = Put(cs, "PcHigh", Here.NextPc[1])
                        /\ c2 = Put(c1, "PcLow", Here.NextPc[2])
                        /\ c3 = Put(c2, "NextPc", NoPc)
  OBVIOUS
<1>4. "PcHigh" \in Fields /\ "PcLow" \in Fields /\ "NextPc" \in Fields
  BY DEF Fields
<1>5. Stores(cs, "PcHigh", Here.NextPc[1], c1) /\ Shape(c1) /\ Len(c1) = n
  <2>1. Stores(cs, "PcHigh", Here.NextPc[1], c1)
    BY <1>2, <1>3, <1>4, Stored
  <2> QED
    BY <1>2, <2>1 DEF Stores
<1>6. Stores(c1, "PcLow", Here.NextPc[2], c2) /\ Shape(c2) /\ Len(c2) = n
  <2>1. Stores(c1, "PcLow", Here.NextPc[2], c2)
    BY <1>3, <1>4, <1>5, Stored
  <2> QED
    BY <1>5, <2>1 DEF Stores
<1>7. Stores(c2, "NextPc", NoPc, c3) /\ Shape(c3) /\ Len(c3) = n
  <2>1. Stores(c2, "NextPc", NoPc, c3)
    BY <1>3, <1>4, <1>6, Stored
  <2> QED
    BY <1>6, <2>1 DEF Stores
<1>8. contexts' = c3
  <2>1. contexts' = [cs EXCEPT ![n].PcHigh = Here.NextPc[1], ![n].PcLow = Here.NextPc[2], ![n].NextPc = NoPc]
    BY <1>2 DEF EndCycle
  <2>2. c3 = [[[cs EXCEPT ![n].PcHigh = Here.NextPc[1]] EXCEPT ![n].PcLow = Here.NextPc[2]] EXCEPT ![n].NextPc = NoPc]
    BY <1>2, <1>3, <1>5, <1>6 DEF Put
  <2> QED
    BY <2>1, <2>2
<1>9. Here = cs[n] /\ Here' = c3[n]
  BY <1>2, <1>7, <1>8 DEF Here
<1>10. Here'.PcHigh = Here.NextPc[1] /\ Here'.PcLow = Here.NextPc[2] /\ Here'.NextPc = NoPc
         /\ \A f \in Fields \ {"PcHigh", "PcLow", "NextPc"} : Here'[f] = Here[f]
  BY <1>2, <1>4, <1>5, <1>6, <1>7, <1>9 DEF Stores
<1>11. \A i \in 1 .. n - 1 : c3[i] = cs[i]
  BY <1>2, <1>5, <1>6, <1>7 DEF Stores
<1>12. Here'.Active = Here.Active /\ Here'.ReturnPc = Here.ReturnPc /\ Here'.Condition = 0 /\ Here'.Branch = 0
  <2>1. /\ "Active" \in Fields \ {"PcHigh", "PcLow", "NextPc"} /\ "ReturnPc" \in Fields \ {"PcHigh", "PcLow", "NextPc"}
        /\ "Condition" \in Fields \ {"PcHigh", "PcLow", "NextPc"} /\ "Branch" \in Fields \ {"PcHigh", "PcLow", "NextPc"}
    BY DEF Fields
  <2>2. Here.Condition = 0 /\ Here.Branch = 0
    BY <1>1 DEF Selectors
  <2> QED
    BY <1>10, <2>1, <2>2
<1>13. <<Here.NextPc[1], Here.NextPc[2]>> = Here.NextPc
  <2>1. CASE Here.NextPc \in entries
    BY <2>1, DispatchAssumption DEF IInv
  <2>2. CASE Here.NextPc = NoPc
    BY <2>2 DEF NoPc
  <2> QED
    BY <1>1, <2>1, <2>2 DEF Ending
<1>14. entries' = entries /\ ran' = ran /\ work' = Tail(work) /\ fetched' = NoPc
  BY DEF EndCycle
<1>15. Between'
  <2>1. Outer' = Outer
    BY <1>14, SameCode
  <2> QED
    BY <1>1, <1>10, <1>12, <1>13, <1>14, <2>1 DEF Between, Ending
<1> QED
  BY <1>1, <1>2, <1>7, <1>8, <1>10, <1>11, <1>12, <1>13, <1>14, <1>15

(* What a body leaves: the instructions that fall through. *)
LEMMA Falls ==
    ASSUME IInv, Body, \A f \in Selectors : Here'[f] = 0,
           \/ Here'.Active = 1 /\ Here'.NextPc \in entries
           \/ Here'.Active = 0 /\ Here'.NextPc = NoPc
    PROVE  Ending'
<1>1. Passing(Tail(work), End)
  BY AtBody DEF Body
<1>2. work' = Tail(work) /\ fetched' = NoPc /\ entries' = entries
  BY DEF Body
<1>3. Chosen' = Zero
  BY DEF Chosen, Zero
<1>4. End' = End
  BY <1>2, SameCode
<1>5. Leads(<<work', Chosen'>>, <<End', Zero>>)
  BY <1>1, <1>2, <1>3, <1>4 DEF Passing
<1> QED
  BY <1>2, <1>5 DEF Ending

LEMMA FreshFacts ==
    ASSUME NEW next, NEW ret
    PROVE  /\ \A f \in Selectors : FreshContext(next, ret)[f] = 0
           /\ FreshContext(next, ret).Active = 1
           /\ FreshContext(next, ret).NextPc = next
           /\ FreshContext(next, ret).ReturnPc = ret
           /\ FreshContext(next, ret) \in [Fields -> {0, 1, next, ret}]
BY DEF FreshContext, Fields, Selectors

(* The contexts after a body. *)
LEMMA StoreStep ==
    ASSUME Shape(contexts), NEW f \in Fields, NEW v, SetHere(f, v)
    PROVE  /\ Shape(contexts') /\ Len(contexts') = Len(contexts)
           /\ \A i \in 1 .. Len(contexts) - 1 : contexts'[i] = contexts[i]
           /\ Here'[f] = v /\ \A g \in Fields : g # f => Here'[g] = Here[g]
<1>1. PICK cs, ds : cs = contexts /\ ds = contexts' /\ ds = Put(cs, f, v)
  BY DEF SetHere, Put
<1>2. Stores(cs, f, v, ds)
  BY <1>1, Stored
<1>3. Here = cs[Len(cs)] /\ Here' = ds[Len(cs)]
  BY <1>1, <1>2 DEF Here, Stores
<1> QED
  BY <1>1, <1>2, <1>3 DEF Stores

LEMMA CallStep ==
    ASSUME Shape(contexts), NEW next, NEW ret, contexts' = Append(contexts, FreshContext(next, ret))
    PROVE  /\ Shape(contexts') /\ Len(contexts') = Len(contexts) + 1
           /\ \A i \in 1 .. Len(contexts) : contexts'[i] = contexts[i]
           /\ contexts'[Len(contexts) + 1] = FreshContext(next, ret)
           /\ Here' = FreshContext(next, ret)
<1>1. PICK cs, ds, c : cs = contexts /\ ds = contexts' /\ c = FreshContext(next, ret) /\ ds = Append(cs, c)
  OBVIOUS
<1>2. PICK V : cs \in Seq([Fields -> V])
  BY <1>1 DEF Shape
<1>3. PICK W : W = V \cup {0, 1, next, ret}
  OBVIOUS
<1>4. c \in [Fields -> W]
  <2>1. c \in [Fields -> {0, 1, next, ret}]
    BY <1>1, FreshFacts
  <2> QED
    BY <1>3, <2>1
<1>5. cs \in Seq([Fields -> W])
  <2>1. [Fields -> V] \subseteq [Fields -> W]
    BY <1>3
  <2> QED
    BY <1>2, <2>1
<1>6. PICK n \in Nat : n = Len(cs) /\ n >= 1
  BY <1>1 DEF Shape
<1>7. /\ ds \in Seq([Fields -> W]) /\ Len(ds) = n + 1
      /\ \A i \in 1 .. n : ds[i] = cs[i]
      /\ ds[n + 1] = c
  BY <1>1, <1>4, <1>5, <1>6
<1>8. Shape(ds)
  <2>1. n + 1 \in Nat /\ n + 1 >= 1
    OBVIOUS
  <2>2. Len(ds) \in Nat /\ Len(ds) >= 1 /\ ds \in Seq([Fields -> W])
    BY <1>7, <2>1
  <2> QED
    BY <2>2 DEF Shape
<1>9. Here' = c
  BY <1>1, <1>7 DEF Here
<1> QED
  BY <1>1, <1>6, <1>7, <1>8, <1>9

LEMMA ReturnStep ==
    ASSUME Shape(contexts), Len(contexts) > 1,
           contexts' = [SubSeq(contexts, 1, Len(contexts) - 1) EXCEPT
                          ![Len(contexts) - 1].NextPc = Here.ReturnPc]
    PROVE  /\ Shape(contexts') /\ Len(contexts') = Len(contexts) - 1
           /\ \A i \in 1 .. Len(contexts) - 2 : contexts'[i] = contexts[i]
           /\ Here'.NextPc = Here.ReturnPc
           /\ \A g \in Fields : g # "NextPc" => Here'[g] = contexts[Len(contexts) - 1][g]
<1>1. PICK cs, ds, ret : cs = contexts /\ ds = contexts' /\ ret = Here.ReturnPc
  OBVIOUS
<1>2. PICK n \in Nat : n = Len(cs) /\ n > 1
  BY <1>1 DEF Shape
<1>3. PICK V : cs \in Seq([Fields -> V])
  BY <1>1 DEF Shape
<1>4. PICK m \in Nat : m = n - 1 /\ m >= 1 /\ m <= n
  BY <1>2
<1>5. PICK bs : bs = SubSeq(cs, 1, m)
  OBVIOUS
<1>6. bs \in Seq([Fields -> V]) /\ Len(bs) = m /\ \A i \in 1 .. m : bs[i] = cs[i]
  BY <1>2, <1>3, <1>4, <1>5
<1>7. Shape(bs)
  BY <1>4, <1>6 DEF Shape
<1>8. ds = Put(bs, "NextPc", ret)
  BY <1>1, <1>2, <1>4, <1>5, <1>6 DEF Put
<1>9. "NextPc" \in Fields
  BY DEF Fields
<1>10. Stores(bs, "NextPc", ret, ds)
  BY <1>7, <1>8, <1>9, Stored
<1>11. Shape(ds) /\ Len(ds) = m /\ \A i \in 1 .. m - 1 : ds[i] = cs[i]
  BY <1>4, <1>6, <1>10 DEF Stores
<1>12. Here' = ds[m]
  BY <1>1, <1>11 DEF Here
<1>13. Here'.NextPc = ret /\ \A g \in Fields : g # "NextPc" => Here'[g] = cs[m][g]
  <2>1. bs[m] = cs[m]
    BY <1>4, <1>6
  <2> QED
    BY <1>6, <1>10, <1>12, <2>1 DEF Stores
<1>14. m - 1 = n - 2
  BY <1>2, <1>4
<1> QED
  BY <1>1, <1>2, <1>4, <1>11, <1>13, <1>14

LEMMA BodyStep ==
    ASSUME IInv, Body
    PROVE  IInv'
<1>1. /\ Choosing /\ \A f \in Selectors : Here[f] = 0
      /\ entries' = entries
  BY AtBody DEF Body
<1>2. Shape(contexts) /\ Here.Active = 1 /\ Here.NextPc = NoPc
  BY <1>1 DEF IInv, Choosing
<1>3. PICK n \in Nat : n = Len(contexts) /\ n >= 1 /\ Here = contexts[n]
  BY <1>2 DEF Shape, Here
<1>4. Selectors \subseteq Fields /\ "NextPc" \in Fields \ Selectors /\ "Active" \in Fields \ Selectors
         /\ "ReturnPc" \in Fields \ Selectors
  BY DEF Fields, Selectors
<1>5. entries' \subseteq Codes /\ NoPc \notin entries'
  BY <1>1 DEF IInv
<1>6. ASSUME NEW f \in {"NextPc", "Active"}, NEW v, SetHere(f, v)
      PROVE  /\ Shape(contexts') /\ Waiting'
             /\ \A g \in Selectors : Here'[g] = 0
             /\ Here'[f] = v /\ \A g \in {"NextPc", "Active"} : g # f => Here'[g] = Here[g]
  <2>1. f \in Fields /\ f \notin Selectors /\ f # "ReturnPc"
    BY <1>4
  <2>2. /\ Shape(contexts') /\ Len(contexts') = n
        /\ \A i \in 1 .. n - 1 : contexts'[i] = contexts[i]
        /\ Here'[f] = v /\ \A g \in Fields : g # f => Here'[g] = Here[g]
    BY <1>2, <1>3, <1>6, <2>1, StoreStep
  <2>3. \A g \in Selectors : Here'[g] = 0
    BY <1>1, <1>4, <2>1, <2>2
  <2>4. Here' = contexts'[n] /\ Here'.ReturnPc = Here.ReturnPc
    BY <1>4, <2>1, <2>2 DEF Here
  <2>5. \A i \in 2 .. n : contexts'[i].ReturnPc \in entries
    <3> SUFFICES ASSUME NEW i \in 2 .. n PROVE contexts'[i].ReturnPc \in entries
      OBVIOUS
    <3>1. contexts[i].ReturnPc \in entries
      BY <1>3 DEF IInv, Waiting
    <3>2. CASE i = n
      BY <1>3, <2>4, <3>1, <3>2
    <3>3. CASE i # n
      <4>1. i \in 1 .. n - 1
        BY <3>3
      <4> QED
        BY <2>2, <3>1, <4>1
    <3> QED
      BY <3>2, <3>3
  <2>6. Waiting'
    BY <1>1, <1>3, <2>2, <2>5 DEF IInv, Waiting
  <2> QED
    BY <1>4, <2>2, <2>3, <2>6
<1>7. ASSUME NEW next \in entries, SetHere("NextPc", next) PROVE IInv'
  <2>1. /\ Shape(contexts') /\ Waiting' /\ \A g \in Selectors : Here'[g] = 0
        /\ Here'.NextPc = next /\ Here'.Active = 1
    BY <1>2, <1>6, <1>7
  <2>2. Ending'
    BY <1>7, <2>1, Falls
  <2> QED
    BY <1>5, <2>1, <2>2 DEF IInv
<1>8. ASSUME SetHere("Active", 0) PROVE IInv'
  <2>1. /\ Shape(contexts') /\ Waiting' /\ \A g \in Selectors : Here'[g] = 0
        /\ Here'.NextPc = NoPc /\ Here'.Active = 0
    BY <1>2, <1>6, <1>8
  <2>2. Ending'
    BY <2>1, Falls
  <2> QED
    BY <1>5, <2>1, <2>2 DEF IInv
<1>9. ASSUME NEW entry \in entries, NEW ret \in entries,
             contexts' = Append(contexts, FreshContext(entry, ret))
      PROVE  IInv'
  <2>1. /\ Shape(contexts') /\ Len(contexts') = n + 1
        /\ \A i \in 1 .. n : contexts'[i] = contexts[i]
        /\ contexts'[n + 1] = FreshContext(entry, ret)
        /\ Here' = FreshContext(entry, ret)
    BY <1>2, <1>3, <1>9, CallStep
  <2>2. \A f \in Selectors : Here'[f] = 0
    BY <2>1, FreshFacts
  <2>3. Here'.Active = 1 /\ Here'.NextPc = entry /\ contexts'[n + 1].ReturnPc = ret
    BY <2>1, FreshFacts
  <2>4. \A i \in 2 .. n + 1 : contexts'[i].ReturnPc \in entries
    <3> SUFFICES ASSUME NEW i \in 2 .. n + 1 PROVE contexts'[i].ReturnPc \in entries
      OBVIOUS
    <3>1. CASE i = n + 1
      BY <2>3, <3>1
    <3>2. CASE i # n + 1
      <4>1. i \in 2 .. n /\ i \in 1 .. n
        BY <3>2
      <4> QED
        BY <1>3, <2>1, <4>1 DEF IInv, Waiting
    <3> QED
      BY <3>1, <3>2
  <2>5. \A i \in 1 .. n : /\ \A f \in Selectors : contexts'[i][f] = 0
                          /\ contexts'[i].Active = 1
                          /\ contexts'[i].NextPc = NoPc
    <3> SUFFICES ASSUME NEW i \in 1 .. n
                 PROVE  /\ \A f \in Selectors : contexts[i][f] = 0
                        /\ contexts[i].Active = 1
                        /\ contexts[i].NextPc = NoPc
      BY <2>1
    <3>1. CASE i = n
      BY <1>1, <1>2, <1>3, <3>1
    <3>2. CASE i # n
      <4>1. i \in 1 .. n - 1
        BY <3>2
      <4> QED
        BY <1>3, <4>1 DEF IInv, Waiting
    <3> QED
      BY <3>1, <3>2
  <2>6. Waiting'
    <3>1. n + 1 - 1 = n
      OBVIOUS
    <3> QED
      BY <1>1, <2>1, <2>4, <2>5, <3>1 DEF Waiting
  <2>7. Ending'
    BY <2>2, <2>3, <1>9, Falls
  <2> QED
    BY <1>5, <2>1, <2>6, <2>7 DEF IInv
<1>10. ASSUME Len(contexts) > 1,
              contexts' = [SubSeq(contexts, 1, Len(contexts) - 1) EXCEPT
                             ![Len(contexts) - 1].NextPc = Here.ReturnPc]
       PROVE  IInv'
  <2>1. PICK m \in Nat : m = n - 1 /\ m >= 1 /\ m \in 1 .. Len(contexts) - 1 /\ n \in 2 .. Len(contexts)
    BY <1>3, <1>10
  <2>2. /\ Shape(contexts') /\ Len(contexts') = m
        /\ \A i \in 1 .. m - 1 : contexts'[i] = contexts[i]
        /\ Here'.NextPc = Here.ReturnPc
        /\ \A g \in Fields : g # "NextPc" => Here'[g] = contexts[m][g]
    <3>1. Len(contexts) - 1 = m /\ Len(contexts) - 2 = m - 1
      BY <1>3, <2>1
    <3> QED
      BY <1>2, <1>10, <3>1, ReturnStep
  <2>3. /\ \A f \in Selectors : contexts[m][f] = 0
        /\ contexts[m].Active = 1
        /\ Here.ReturnPc \in entries
    BY <1>3, <2>1 DEF IInv, Waiting
  <2>4. \A f \in Selectors : Here'[f] = 0
    BY <1>4, <2>2, <2>3
  <2>5. Here'.Active = 1 /\ Here'.NextPc \in entries /\ Here'.ReturnPc = contexts[m].ReturnPc
    BY <1>4, <2>2, <2>3
  <2>6. Here' = contexts'[m]
    BY <2>2 DEF Here
  <2>7. \A i \in 2 .. m : contexts'[i].ReturnPc \in entries
    <3> SUFFICES ASSUME NEW i \in 2 .. m PROVE contexts'[i].ReturnPc \in entries
      OBVIOUS
    <3>1. contexts[i].ReturnPc \in entries
      <4>1. i \in 2 .. Len(contexts)
        BY <1>3, <2>1
      <4> QED
        BY <4>1 DEF IInv, Waiting
    <3>2. CASE i = m
      BY <2>5, <2>6, <3>1, <3>2
    <3>3. CASE i # m
      <4>1. i \in 1 .. m - 1
        BY <3>3
      <4> QED
        BY <2>2, <3>1, <4>1
    <3> QED
      BY <3>2, <3>3
  <2>8. \A i \in 1 .. m - 1 : /\ \A f \in Selectors : contexts'[i][f] = 0
                              /\ contexts'[i].Active = 1
                              /\ contexts'[i].NextPc = NoPc
    <3> SUFFICES ASSUME NEW i \in 1 .. m - 1
                 PROVE  /\ \A f \in Selectors : contexts[i][f] = 0
                        /\ contexts[i].Active = 1
                        /\ contexts[i].NextPc = NoPc
      BY <2>2
    <3>1. i \in 1 .. Len(contexts) - 1
      BY <1>3, <2>1
    <3> QED
      BY <3>1 DEF IInv, Waiting
  <2>9. Waiting'
    BY <1>1, <2>2, <2>7, <2>8 DEF Waiting
  <2>10. Ending'
    BY <2>4, <2>5, Falls
  <2> QED
    BY <1>5, <2>2, <2>9, <2>10 DEF IInv
<1> QED
  BY <1>7, <1>8, <1>9, <1>10 DEF Body

LEMMA BetweenStep ==
    ASSUME IInv, Between, Next
    PROVE  /\ UNCHANGED <<entries, contexts, ran>>
           /\ \/ Here.Active = 1 /\ Choosing' /\ fetched' = <<Here.PcHigh, Here.PcLow>>
              \/ Here.Active = 0 /\ Stopped'
<1>1. PICK i : i = While("Active", Cycle) /\ i.op = "while" /\ i.field = "Active" /\ i.body = Cycle
  BY Instructions
<1>2. work = <<i>> /\ Instr = i /\ Tail(work) = <<>> /\ work # <<>>
  BY <1>1 DEF Between, Outer, Instr
<1>3. Loop
  BY <1>1, <1>2 DEF Next, Field, EndCycle, Body, Finished, Is
<1>4. /\ UNCHANGED <<entries, contexts, ran>>
      /\ work' = IF Here.Active # 0 THEN Cycle \o work ELSE <<>>
      /\ fetched' = IF Here.Active # 0 THEN <<Here.PcHigh, Here.PcLow>> ELSE fetched
  BY <1>1, <1>2, <1>3 DEF Loop
<1>5. Here' = Here /\ Chosen' = Chosen /\ End' = End
  BY <1>4, SameCode DEF Here, Chosen
<1>6. CASE Here.Active = 0
  BY <1>4, <1>6 DEF Between, Stopped
<1>7. CASE Here.Active = 1 /\ <<Here.PcHigh, Here.PcLow>> \in entries
  <2>1. PICK e \in entries : e = <<Here.PcHigh, Here.PcLow>> /\ e[1] = Here.PcHigh /\ e[2] = Here.PcLow
    BY <1>7
  <2>2. entries \subseteq Byte \X Byte
    BY DispatchAssumption DEF IInv, Byte
  <2>3. Chosen = Sel("PcHigh", e[1], e[2], 0, 0)
    BY <2>1 DEF Chosen, Sel, Selectors, Between
  <2>4. Reaches(Cycle \o Outer, Chosen, <<EnterBody(e)>>, Zero, End)
    BY <2>2, <2>3, CycleReaches
  <2>5. work' = Cycle \o Outer /\ fetched' = e
    BY <1>4, <1>7, <2>1 DEF Between
  <2>6. Choosing'
    BY <1>4, <1>5, <1>7, <2>4, <2>5 DEF Choosing, Between
  <2> QED
    BY <1>4, <1>7, <2>1, <2>5, <2>6
<1> QED
  BY <1>6, <1>7 DEF Between

LEMMA StoppedStep == ASSUME Stopped, Next PROVE UNCHANGED vars
BY DEF Stopped, Next, Field, Loop, EndCycle, Body, Finished, Is

LEMMA InitHolds == ASSUME Init PROVE IInv
<1>1. PICK e \in entries :
          contexts = <<[FreshContext(NoPc, NoPc) EXCEPT !.PcHigh = e[1], !.PcLow = e[2]]>>
  <2>1. \E e \in entries :
          contexts = <<[FreshContext(NoPc, NoPc) EXCEPT !.PcHigh = e[1], !.PcLow = e[2]]>>
    BY Zenon DEF Init
  <2> QED
    BY <2>1, Zenon
<1>2. PICK c, d : c = FreshContext(NoPc, NoPc) /\ d = [c EXCEPT !.PcHigh = e[1], !.PcLow = e[2]]
  BY Zenon
<1>3. entries \subseteq Codes /\ NoPc \notin entries /\ fetched = NoPc /\ work = Outer
  BY DEF Init, Outer
<1>4. contexts = <<d>>
  BY <1>1, <1>2
<1>5. /\ c \in [Fields -> {0, 1, NoPc}]
      /\ c.Active = 1 /\ c.NextPc = NoPc /\ c["Condition"] = 0 /\ c["Branch"] = 0
  <2>1. "Condition" \in Selectors /\ "Branch" \in Selectors
    BY DEF Selectors
  <2>2. {0, 1, NoPc, NoPc} = {0, 1, NoPc}
    OBVIOUS
  <2> QED
    BY <1>2, <2>1, <2>2, FreshFacts
<1>6. /\ d \in [Fields -> {0, 1, NoPc, e[1], e[2]}]
      /\ d.Active = 1 /\ d.NextPc = NoPc /\ d.Condition = 0 /\ d.Branch = 0
      /\ d.PcHigh = e[1] /\ d.PcLow = e[2]
  BY <1>2, <1>5 DEF Fields
<1>7. Len(contexts) = 1 /\ Here = d
  BY <1>4 DEF Here
<1>8. Shape(contexts)
  <2>1. <<d>> \in Seq([Fields -> {0, 1, NoPc, e[1], e[2]}])
    BY <1>6
  <2> QED
    <3>1. Len(contexts) \in Nat /\ Len(contexts) >= 1
      BY <1>7
    <3>2. contexts \in Seq([Fields -> {0, 1, NoPc, e[1], e[2]}])
      BY <1>4, <2>1
    <3> QED
      BY <3>1, <3>2 DEF Shape
<1>9. <<e[1], e[2]>> \in entries
  BY <1>3, DispatchAssumption
<1>10. Between
  BY <1>3, <1>6, <1>7, <1>9 DEF Between
<1>11. Waiting
  <2>1. 1 .. Len(contexts) - 1 = {} /\ 2 .. Len(contexts) = {}
    BY <1>7
  <2> QED
    BY <2>1 DEF Waiting
<1> QED
  BY <1>3, <1>8, <1>10, <1>11 DEF IInv

LEMMA NextHolds == ASSUME IInv, [Next]_vars PROVE IInv'
<1>1. CASE UNCHANGED vars
  <2>1. UNCHANGED <<entries, contexts, work, fetched>>
    BY <1>1 DEF vars
  <2>2. Here' = Here /\ Chosen' = Chosen /\ End' = End /\ Outer' = Outer
    BY <2>1, SameCode DEF Here, Chosen
  <2>3. Waiting' = Waiting
    BY <2>1 DEF Waiting
  <2>4. Choosing' = Choosing /\ Ending' = Ending /\ Between' = Between /\ Stopped' = Stopped
    BY <2>1, <2>2 DEF Choosing, Ending, Between, Stopped
  <2> QED
    BY <2>1, <2>3, <2>4 DEF IInv
<1>2. CASE Next
  <2>1. entries \subseteq Codes /\ NoPc \notin entries
    BY DEF IInv
  <2>2. ASSUME Quiet PROVE entries' = entries /\ Shape(contexts') /\ Waiting'
    BY <2>2, Below DEF Quiet
  <2>3. CASE Is("enter")
    <3>1. Body
      BY <1>2, <2>3 DEF Next, Field, Loop, EndCycle, Finished, Is
    <3> QED
      BY <3>1, BodyStep
  <2>4. CASE Is("advance")
    <3>1. EndCycle
      BY <1>2, <2>4 DEF Next, Field, Loop, Body, Finished, Is
    <3>2. /\ Between' /\ Shape(contexts') /\ Len(contexts') = Len(contexts)
          /\ \A i \in 1 .. Len(contexts) - 1 : contexts'[i] = contexts[i]
          /\ Here'.ReturnPc = Here.ReturnPc /\ entries' = entries
      BY <3>1, EndCycleStep
    <3>3. Waiting'
      <4>1. PICK n \in Nat : n = Len(contexts) /\ n >= 1 /\ Here = contexts[n] /\ Here' = contexts'[n]
        BY <3>2 DEF IInv, Shape, Here
      <4>2. ASSUME NEW i \in 2 .. n PROVE contexts'[i].ReturnPc \in entries
        <5>1. contexts[i].ReturnPc \in entries
          BY <4>1 DEF IInv, Waiting
        <5>2. CASE i = n
          BY <3>2, <4>1, <5>1, <5>2
        <5>3. CASE i # n
          <6>1. i \in 1 .. n - 1
            BY <5>3
          <6> QED
            BY <3>2, <4>1, <5>1, <6>1
        <5> QED
          BY <5>2, <5>3
      <4> QED
        BY <3>2, <4>1, <4>2 DEF IInv, Waiting
    <3> QED
      BY <2>1, <3>2, <3>3 DEF IInv
  <2>5. CASE ~Is("enter") /\ ~Is("advance")
    <3>1. CASE Choosing
      <4>1. Choosing' /\ Quiet
        BY <1>2, <2>5, <3>1, ChoosingStep
      <4> QED
        BY <2>1, <2>2, <4>1 DEF IInv
    <3>2. CASE Ending
      <4>1. Ending' /\ Quiet
        BY <1>2, <2>5, <3>2, EndingStep
      <4> QED
        BY <2>1, <2>2, <4>1 DEF IInv
    <3>3. CASE Between
      <4>1. UNCHANGED <<entries, contexts>> /\ (Choosing' \/ Stopped')
        BY <1>2, <3>3, BetweenStep
      <4>2. Waiting' /\ Shape(contexts')
        BY <4>1 DEF Waiting, IInv
      <4> QED
        BY <2>1, <4>1, <4>2 DEF IInv
    <3>4. CASE Stopped
      <4>1. UNCHANGED vars
        BY <1>2, <3>4, StoppedStep
      <4> QED
        BY <1>1, <4>1
    <3> QED
      BY <3>1, <3>2, <3>3, <3>4 DEF IInv
  <2> QED
    BY <2>3, <2>4, <2>5
<1> QED
  BY <1>1, <1>2

LEMMA InvariantHolds == Spec => []IInv
<1>1. Init => IInv
  BY InitHolds
<1>2. IInv /\ [Next]_vars => IInv'
  BY NextHolds
<1> QED
  BY <1>1, <1>2, PTL DEF Spec

(* A body starts with the selection fields of its context zero, and the    *)
(* contexts that wait for a return have them zero: no test that follows    *)
(* the body in the same cycle can match, in whatever context it ended.     *)
THEOREM SelectionHolds == Spec => []SelectionClean
<1>1. IInv => SelectionClean
  <2> SUFFICES ASSUME IInv PROVE SelectionClean
    OBVIOUS
  <2>1. {"PcHigh", "PcLow", "Condition", "Branch"} = Selectors
    BY DEF Selectors
  <2>2. Is("enter") => Here.NextPc = NoPc /\ ~Selects(Here)
    BY <2>1, AtBody DEF Choosing, Selects
  <2>3. \A i \in 1 .. Len(contexts) - 1 : ~Selects(contexts[i])
    BY <2>1 DEF IInv, Waiting, Selects
  <2> QED
    BY <2>2, <2>3 DEF SelectionClean
<1> QED
  BY <1>1, InvariantHolds, PTL

-----------------------------------------------------------------------------
(* The refinement. *)
Entry(pc, ret) == [pc |-> pc, ret |-> ret]

LEMMA StackIs ==
    /\ Stack = [i \in 1 .. Len(contexts) |->
                  Entry(IF i < Len(contexts) THEN NoPc ELSE Pc, contexts[i].ReturnPc)]
    /\ Stack' = [i \in 1 .. Len(contexts') |->
                  Entry(IF i < Len(contexts') THEN NoPc ELSE Pc', contexts'[i].ReturnPc)]
BY DEF Stack, Entry

LEMMA SameStack ==
    ASSUME Len(contexts') = Len(contexts), Pc' = Pc,
           \A i \in 1 .. Len(contexts) : contexts'[i].ReturnPc = contexts[i].ReturnPc
    PROVE  Stack' = Stack
BY StackIs

LEMMA Long ==
    ASSUME NEW w, NEW s, NEW v, NEW t, Leads(<<w, s>>, <<v, t>>), Len(v) > 1
    PROVE  Len(w) > 1
<1>1. (w = v /\ s = t) \/ Selecting(w)
  BY Due
<1> QED
  BY <1>1 DEF Selecting

LEMMA LongEnd == Len(End) > 1 /\ Len(Outer) = 1
<1>1. Len(End) > 1
  BY EndPasses, PassingFacts
<1>2. Len(Outer) = 1
  BY DEF Outer
<1> QED
  BY <1>1, <1>2

(* What the abstract PC is, before and after a step. *)
LEMMA PcIs ==
    ASSUME IInv
    PROVE  /\ Choosing => Pc = fetched /\ fetched \in entries
           /\ Ending => Pc = Here.NextPc
           /\ Between => Pc = <<Here.PcHigh, Here.PcLow>>
<1>1. Choosing => Pc = fetched /\ fetched \in entries
  BY DEF IInv, Choosing, Pc
<1>2. ASSUME Ending PROVE Pc = Here.NextPc
  <2>1. Len(work) > 1
    BY <1>2, LongEnd, Long DEF Ending
  <2> QED
    BY <1>2, <2>1 DEF Ending, Pc, InCycle
<1>3. ASSUME Between PROVE Pc = <<Here.PcHigh, Here.PcLow>>
  <2>1. ~(Len(work) > 1)
    BY <1>3, LongEnd DEF Between
  <2> QED
    BY <1>3, <2>1 DEF Between, Pc, InCycle
<1> QED
  BY <1>1, <1>2, <1>3

LEMMA PcIsNext ==
    ASSUME IInv', entries' = entries
    PROVE  /\ Choosing' => Pc' = fetched'
           /\ Ending' => Pc' = Here'.NextPc
           /\ Between' => Pc' = <<Here'.PcHigh, Here'.PcLow>>
<1>1. Choosing' => Pc' = fetched'
  BY DEF IInv, Choosing, Pc
<1>2. ASSUME Ending' PROVE Pc' = Here'.NextPc
  <2>1. End' = End
    BY SameCode
  <2>2. Leads(<<work', Chosen'>>, <<End, Zero>>)
    BY <1>2, <2>1 DEF Ending
  <2>3. Len(work') > 1
    BY <2>2, LongEnd, Long
  <2> QED
    BY <1>2, <2>3 DEF Ending, Pc, InCycle
<1>3. ASSUME Between' PROVE Pc' = <<Here'.PcHigh, Here'.PcLow>>
  <2>1. ~(Len(work') > 1)
    <3>1. Outer' = Outer
      BY SameCode
    <3>2. work' = Outer
      BY <1>3, <3>1 DEF Between
    <3> QED
      BY <3>2, LongEnd
  <2> QED
    BY <1>3, <2>1 DEF Between, Pc, InCycle
<1> QED
  BY <1>1, <1>2, <1>3

AtomicVars == <<entries, Stack, Here.Active = 1, ran>>

LEMMA Stutters ==
    ASSUME IInv, IInv', Next, ~Is("enter")
    PROVE  AtomicVars' = AtomicVars
<1>1. PICK n \in Nat : n = Len(contexts) /\ n >= 1 /\ Here = contexts[n]
  BY DEF IInv, Shape, Here
<1>2. ASSUME /\ Len(contexts') = n
             /\ \A i \in 1 .. n - 1 : contexts'[i] = contexts[i]
             /\ Here'.ReturnPc = Here.ReturnPc /\ Here'.Active = Here.Active
             /\ entries' = entries /\ ran' = ran /\ Pc' = Pc
      PROVE  AtomicVars' = AtomicVars
  <2>1. Here' = contexts'[n]
    BY <1>2 DEF Here
  <2>2. \A i \in 1 .. n : contexts'[i].ReturnPc = contexts[i].ReturnPc
    <3> SUFFICES ASSUME NEW i \in 1 .. n PROVE contexts'[i].ReturnPc = contexts[i].ReturnPc
      OBVIOUS
    <3>1. CASE i = n
      BY <1>1, <1>2, <2>1, <3>1
    <3>2. CASE i # n
      <4>1. i \in 1 .. n - 1
        BY <3>2
      <4> QED
        BY <1>2, <4>1
    <3> QED
      BY <3>1, <3>2
  <2>3. Stack' = Stack
    BY <1>1, <1>2, <2>2, SameStack
  <2> QED
    BY <1>2, <2>3 DEF AtomicVars
<1>3. ASSUME Quiet, Pc' = Pc PROVE AtomicVars' = AtomicVars
  <2>1. "ReturnPc" \in Fields \ Selectors /\ "Active" \in Fields \ Selectors
    BY DEF Fields, Selectors
  <2>2. Here'.ReturnPc = Here.ReturnPc /\ Here'.Active = Here.Active
    BY <1>3, <2>1 DEF Quiet
  <2> QED
    BY <1>1, <1>2, <1>3, <2>2 DEF Quiet
<1>4. CASE Is("advance")
  <2>1. EndCycle
    BY <1>4 DEF Next, Field, Loop, Body, Finished, Is
  <2>2. /\ Between' /\ Ending /\ entries' = entries /\ ran' = ran
        /\ Len(contexts') = n /\ \A i \in 1 .. n - 1 : contexts'[i] = contexts[i]
        /\ Here'.ReturnPc = Here.ReturnPc /\ Here'.Active = Here.Active
        /\ <<Here'.PcHigh, Here'.PcLow>> = Here.NextPc
    BY <1>1, <2>1, EndCycleStep
  <2>3. Pc' = Pc
    BY <2>2, PcIs, PcIsNext
  <2> QED
    BY <1>2, <2>2, <2>3
<1>5. CASE ~Is("advance")
  <2>1. CASE Choosing
    <3>1. Choosing' /\ Quiet
      BY <1>5, <2>1, ChoosingStep
    <3>2. Pc' = Pc
      BY <2>1, <3>1, PcIs, PcIsNext DEF Quiet
    <3> QED
      BY <1>3, <3>1, <3>2
  <2>2. CASE Ending
    <3>1. Ending' /\ Quiet
      BY <1>5, <2>2, EndingStep
    <3>2. "NextPc" \in Fields \ Selectors
      BY DEF Fields, Selectors
    <3>3. Pc' = Pc
      BY <2>2, <3>1, <3>2, PcIs, PcIsNext DEF Quiet
    <3> QED
      BY <1>3, <3>1, <3>3
  <2>3. CASE Between
    <3>1. /\ UNCHANGED <<entries, contexts, ran>>
          /\ \/ Here.Active = 1 /\ Choosing' /\ fetched' = <<Here.PcHigh, Here.PcLow>>
             \/ Here.Active = 0 /\ Stopped'
      BY <2>3, BetweenStep
    <3>2. Here' = Here
      BY <3>1 DEF Here
    <3>3. Pc = <<Here.PcHigh, Here.PcLow>>
      BY <2>3, PcIs
    <3>4. CASE Choosing' /\ fetched' = <<Here.PcHigh, Here.PcLow>>
      BY <1>1, <1>2, <3>1, <3>2, <3>3, <3>4, PcIsNext
    <3>5. CASE Stopped'
      <4>1. ~(Len(work') > 1)
        BY <3>5 DEF Stopped
      <4>2. Pc' = <<Here.PcHigh, Here.PcLow>>
        BY <3>2, <3>5, <4>1 DEF Stopped, Pc, InCycle
      <4> QED
        BY <1>1, <1>2, <3>1, <3>2, <3>3, <4>2
    <3> QED
      BY <3>1, <3>4, <3>5
  <2>4. CASE Stopped
    <3>1. UNCHANGED vars
      BY <2>4, StoppedStep
    <3> QED
      BY <3>1 DEF vars, AtomicVars, Stack, Pc, Here, InCycle
  <2> QED
    BY <2>1, <2>2, <2>3, <2>4 DEF IInv
<1> QED
  BY <1>4, <1>5

(* The stack of the abstract dispatcher, for n contexts with the return    *)
(* addresses r: only the last has a PC.                                    *)
Tower(n, r, p) == [i \in 1 .. n |-> Entry(IF i < n THEN NoPc ELSE p, r[i])]

LEMMA TowerFacts ==
    ASSUME NEW n \in Nat, n >= 1, NEW r, NEW p
    PROVE  /\ Len(Tower(n, r, p)) = n
           /\ Tower(n, r, p)[n] = Entry(p, r[n])
           /\ \A i \in 1 .. n - 1 : Tower(n, r, p)[i] = Entry(NoPc, r[i])
           /\ \E S : Tower(n, r, p) \in Seq(S)
<1>1. PICK s : s = Tower(n, r, p)
  OBVIOUS
<1>2. PICK S : S = {s[i] : i \in 1 .. n}
  OBVIOUS
<1>3. s = [i \in 1 .. n |-> s[i]] /\ DOMAIN s = 1 .. n
  BY <1>1 DEF Tower
<1>4. s \in [1 .. n -> S]
  BY <1>2, <1>3
<1>5. s \in Seq(S) /\ Len(s) = n
  BY <1>3, <1>4
<1>6. s[n] = Entry(p, r[n]) /\ \A i \in 1 .. n - 1 : s[i] = Entry(NoPc, r[i])
  BY <1>1 DEF Tower
<1> QED
  BY <1>1, <1>5, <1>6

Agree(n, u, r) == \A i \in 1 .. n : u[i] = r[i]

WithPc(s, q) == [s EXCEPT ![Len(s)].pc = q]

LEMMA TowerGoes ==
    ASSUME NEW n \in Nat, n >= 1, NEW r, NEW p, NEW q, NEW u, Agree(n, u, r)
    PROVE  Tower(n, u, q) = WithPc(Tower(n, r, p), q)
<1>1. PICK s : s = Tower(n, r, p)
  OBVIOUS
<1>2. Len(s) = n /\ s[n] = Entry(p, r[n]) /\ \A i \in 1 .. n - 1 : s[i] = Entry(NoPc, r[i])
  BY <1>1, TowerFacts
<1>3. s = [i \in 1 .. n |-> s[i]]
  BY <1>1 DEF Tower
<1>4. PICK e : e = [s[n] EXCEPT !.pc = q]
  OBVIOUS
<1>5. e = Entry(q, r[n])
  BY <1>2, <1>4 DEF Entry
<1>6. PICK t : t = [s EXCEPT ![n] = e]
  OBVIOUS
<1>7. t = [i \in 1 .. n |-> IF i = n THEN e ELSE s[i]]
  BY <1>3, <1>6
<1>8. \A i \in 1 .. n : (IF i = n THEN e ELSE s[i]) = Entry(IF i < n THEN NoPc ELSE q, u[i])
  <2> SUFFICES ASSUME NEW i \in 1 .. n
               PROVE  (IF i = n THEN e ELSE s[i]) = Entry(IF i < n THEN NoPc ELSE q, u[i])
    OBVIOUS
  <2>1. CASE i = n
    BY <1>5, <2>1 DEF Agree
  <2>2. CASE i # n
    <3>1. i \in 1 .. n - 1 /\ i < n
      BY <2>2
    <3> QED
      BY <1>2, <2>2, <3>1 DEF Agree
  <2> QED
    BY <2>1, <2>2
<1>9. t = Tower(n, u, q)
  BY <1>7, <1>8 DEF Tower
<1>10. WithPc(s, q) = t
  BY <1>2, <1>4, <1>6 DEF WithPc
<1> QED
  BY <1>1, <1>9, <1>10

LEMMA TowerGrows ==
    ASSUME NEW n \in Nat, n >= 1, NEW r, NEW p, NEW q, NEW u, Agree(n, u, r),
           NEW s, s = Tower(n, r, p)
    PROVE  Tower(n + 1, u, q)
             = SubSeq(s, 1, Len(s) - 1) \o <<[s[Len(s)] EXCEPT !.pc = NoPc], Entry(q, u[n + 1])>>
<1>1. PICK S : s \in Seq(S)
  BY TowerFacts
<1>2. Len(s) = n /\ s[n] = Entry(p, r[n]) /\ \A i \in 1 .. n - 1 : s[i] = Entry(NoPc, r[i])
  BY TowerFacts
<1>3. PICK a, b : a = [s[n] EXCEPT !.pc = NoPc] /\ b = Entry(q, u[n + 1])
  OBVIOUS
<1>4. a = Entry(NoPc, r[n])
  BY <1>2, <1>3 DEF Entry
<1>5. PICK m \in Nat : m = n - 1 /\ m <= n
  OBVIOUS
<1>6. PICK low : low = SubSeq(s, 1, m)
  OBVIOUS
<1>7. low \in Seq(S) /\ Len(low) = m /\ \A i \in 1 .. m : low[i] = s[i]
  BY <1>1, <1>2, <1>5, <1>6
<1>8. PICK T : T = S \cup {a, b}
  OBVIOUS
<1>9. low \in Seq(T) /\ <<a, b>> \in Seq(T)
  <2>1. S \subseteq T /\ a \in T /\ b \in T
    BY <1>8
  <2> QED
    BY <1>7, <2>1
<1>10. PICK t : t = low \o <<a, b>>
  OBVIOUS
<1>11. Len(t) = n + 1 /\ t \in Seq(T)
  BY <1>5, <1>7, <1>9, <1>10
<1>12. t[n] = a /\ t[n + 1] = b /\ \A i \in 1 .. m : t[i] = s[i]
  <2>1. PICK pair \in Seq(T) : pair = <<a, b>> /\ Len(pair) = 2 /\ pair[1] = a /\ pair[2] = b
    BY <1>9
  <2>2. t = low \o pair /\ Len(low) = m
    BY <1>7, <1>10, <2>1
  <2>3. \A i \in 1 .. m : t[i] = low[i]
    BY <1>9, <2>1, <2>2
  <2>4. \A i \in 1 .. 2 : t[m + i] = pair[i]
    BY <1>9, <2>1, <2>2
  <2>5. t[m + 1] = pair[1] /\ t[m + 2] = pair[2] /\ m + 1 = n /\ m + 2 = n + 1
    BY <1>5, <2>4
  <2> QED
    BY <1>7, <2>1, <2>3, <2>5
<1>13. t = [i \in 1 .. n + 1 |-> t[i]]
  BY <1>11
<1>14. \A i \in 1 .. n + 1 : t[i] = Entry(IF i < n + 1 THEN NoPc ELSE q, u[i])
  <2> SUFFICES ASSUME NEW i \in 1 .. n + 1 PROVE t[i] = Entry(IF i < n + 1 THEN NoPc ELSE q, u[i])
    OBVIOUS
  <2>1. CASE i = n + 1
    BY <1>3, <1>12, <2>1
  <2>2. CASE i = n
    BY <1>4, <1>12, <2>2 DEF Agree
  <2>3. CASE i # n + 1 /\ i # n
    <3>1. i \in 1 .. n - 1 /\ i \in 1 .. m /\ i < n + 1 /\ i \in 1 .. n
      BY <1>5, <2>3
    <3> QED
      BY <1>2, <1>12, <3>1 DEF Agree
  <2> QED
    BY <2>1, <2>2, <2>3
<1>15. Tower(n + 1, u, q) = t
  BY <1>13, <1>14 DEF Tower
<1> QED
  BY <1>2, <1>3, <1>5, <1>6, <1>10, <1>15

Rest(s) == SubSeq(s, 1, Len(s) - 1)

LEMMA TowerShrinks ==
    ASSUME NEW n \in Nat, n > 1, NEW r, NEW p, NEW q, NEW u, Agree(n - 1, u, r)
    PROVE  Tower(n - 1, u, q) = WithPc(Rest(Tower(n, r, p)), q)
<1>1. PICK s, low : s = Tower(n, r, p) /\ low = SubSeq(s, 1, Len(s) - 1)
  OBVIOUS
<1>2. PICK S : s \in Seq(S)
  BY <1>1, TowerFacts
<1>3. Len(s) = n /\ \A i \in 1 .. n - 1 : s[i] = Entry(NoPc, r[i])
  BY <1>1, TowerFacts
<1>4. PICK m \in Nat : m = n - 1 /\ m <= n /\ m >= 1
  OBVIOUS
<1>5. low \in Seq(S) /\ Len(low) = m /\ \A i \in 1 .. m : low[i] = s[i]
  BY <1>1, <1>2, <1>3, <1>4
<1>6. low = [i \in 1 .. m |-> low[i]]
  BY <1>5
<1>7. \A i \in 1 .. m : low[i] = Entry(IF i < m THEN NoPc ELSE NoPc, r[i])
  BY <1>3, <1>4, <1>5
<1>8. low = Tower(m, r, NoPc)
  BY <1>6, <1>7 DEF Tower
<1>9. Agree(m, u, r)
  BY <1>4
<1>10. Tower(m, u, q) = WithPc(Tower(m, r, NoPc), q)
  BY <1>4, <1>9, TowerGoes
<1>11. Tower(m, u, q) = WithPc(low, q)
  BY <1>8, <1>10
<1> QED
  BY <1>1, <1>4, <1>11 DEF Rest

Returns == [i \in 1 .. Len(contexts) |-> contexts[i].ReturnPc]

LEMMA StackTower ==
    /\ Stack = Tower(Len(contexts), Returns, Pc)
    /\ Stack' = Tower(Len(contexts'), Returns', Pc')
BY StackIs DEF Tower, Returns

(* The abstract step, in terms of the abstract stack alone. *)
Runs(s) == s[Len(s)].pc \in entries /\ ran' = s[Len(s)].pc /\ entries' = entries

LEMMA Maps ==
    ASSUME NEW s, s = Stack, NEW t, t = Stack', Here.Active = 1, Runs(s),
           \/ \E next \in entries : t = WithPc(s, next) /\ Here'.Active = 1
           \/ \E entry, ret \in entries :
                 /\ Len(s) < MaxContexts
                 /\ t = SubSeq(s, 1, Len(s) - 1)
                          \o <<[s[Len(s)] EXCEPT !.pc = NoPc], Entry(entry, ret)>>
                 /\ Here'.Active = 1
           \/ /\ Len(s) > 1
              /\ t = WithPc(SubSeq(s, 1, Len(s) - 1), s[Len(s)].ret)
              /\ Here'.Active = 1
           \/ t = WithPc(s, NoPc) /\ Here'.Active = 0
    PROVE  Atomic!Next
<1>1. /\ Atomic!NoPc = NoPc
      /\ Atomic!Top = s[Len(s)]
      /\ Atomic!Below = SubSeq(s, 1, Len(s) - 1)
      /\ Atomic!Runs
  <2>1. Atomic!NoPc = NoPc
    BY DEF Atomic!NoPc, NoPc
  <2>2. Atomic!Top = s[Len(s)]
    BY DEF Atomic!Top
  <2>3. Atomic!Below = SubSeq(s, 1, Len(s) - 1)
    BY DEF Atomic!Below
  <2>4. Atomic!Runs
    BY <2>2 DEF Atomic!Runs, Runs
  <2> QED
    BY <2>1, <2>2, <2>3, <2>4
<1>2. CASE \E next \in entries : t = WithPc(s, next) /\ Here'.Active = 1
  <2>1. PICK next \in entries : t = WithPc(s, next) /\ Here'.Active = 1
    BY <1>2
  <2>2. Atomic!Goto(next)
    BY <1>1, <2>1 DEF Atomic!Goto, WithPc
  <2> QED
    BY <2>2 DEF Atomic!Next
<1>3. CASE \E entry, ret \in entries :
              /\ Len(s) < MaxContexts
              /\ t = SubSeq(s, 1, Len(s) - 1)
                       \o <<[s[Len(s)] EXCEPT !.pc = NoPc], Entry(entry, ret)>>
              /\ Here'.Active = 1
  <2>1. PICK entry \in entries, ret \in entries :
              /\ Len(s) < MaxContexts
              /\ t = SubSeq(s, 1, Len(s) - 1)
                       \o <<[s[Len(s)] EXCEPT !.pc = NoPc], Entry(entry, ret)>>
              /\ Here'.Active = 1
    BY <1>3, Zenon
  <2>2. Atomic!Call(entry, ret)
    BY <1>1, <2>1 DEF Atomic!Call, Entry
  <2> QED
    BY <2>2 DEF Atomic!Next
<1>4. CASE /\ Len(s) > 1
           /\ t = WithPc(SubSeq(s, 1, Len(s) - 1), s[Len(s)].ret)
           /\ Here'.Active = 1
  <2>1. Atomic!Return
    BY <1>1, <1>4 DEF Atomic!Return, WithPc
  <2> QED
    BY <2>1 DEF Atomic!Next
<1>5. CASE t = WithPc(s, NoPc) /\ Here'.Active = 0
  <2>1. Atomic!Halt
    BY <1>1, <1>5 DEF Atomic!Halt, WithPc
  <2> QED
    BY <2>1 DEF Atomic!Next
<1> QED
  BY <1>2, <1>3, <1>4, <1>5

LEMMA BodyMaps == ASSUME IInv, Body PROVE Atomic!Next
<1>1. /\ Choosing /\ Instr.entry = fetched /\ Passing(Tail(work), End)
      /\ \A f \in Selectors : Here[f] = 0
  BY AtBody DEF Body
<1>2. /\ ran' = fetched /\ fetched' = NoPc /\ work' = Tail(work) /\ entries' = entries
      /\ Here.Active = 1 /\ Here.NextPc = NoPc
  BY <1>1 DEF Body, Choosing
<1>3. Pc = fetched /\ fetched \in entries
  BY <1>1, PcIs
<1>4. Pc' = Here'.NextPc
  <2>1. Len(work') > 1
    BY <1>1, <1>2, PassingFacts
  <2> QED
    BY <1>2, <2>1 DEF Pc, InCycle
<1>5. Shape(contexts)
  BY DEF IInv
<1>6. PICK n \in Nat : n = Len(contexts) /\ n >= 1 /\ Here = contexts[n]
  BY <1>5 DEF Shape, Here
<1>7. PICK r, p, s : r = Returns /\ p = Pc /\ s = Stack /\ s = Tower(n, r, p)
  BY <1>6, StackTower
<1>8. PICK u, q, t : u = Returns' /\ q = Pc' /\ t = Stack' /\ t = Tower(Len(contexts'), u, q)
  BY StackTower
<1>9. Len(s) = n /\ s[n] = Entry(p, r[n]) /\ r[n] = Here.ReturnPc
  BY <1>6, <1>7, TowerFacts DEF Returns
<1>10. Runs(s)
  BY <1>2, <1>3, <1>7, <1>9 DEF Runs, Entry
<1>11. ASSUME NEW f \in {"NextPc", "Active"}, NEW v, SetHere(f, v)
       PROVE  /\ t = WithPc(s, q)
              /\ Here'[f] = v /\ \A g \in {"NextPc", "Active"} : g # f => Here'[g] = Here[g]
  <2>1. f \in Fields /\ {"NextPc", "Active", "ReturnPc"} \subseteq Fields /\ f # "ReturnPc"
    BY DEF Fields
  <2>2. /\ Len(contexts') = n /\ \A i \in 1 .. n - 1 : contexts'[i] = contexts[i]
        /\ Here'[f] = v /\ \A g \in Fields : g # f => Here'[g] = Here[g]
    BY <1>5, <1>6, <1>11, <2>1, StoreStep
  <2>3. Here' = contexts'[n] /\ Here'.ReturnPc = Here.ReturnPc
    BY <2>1, <2>2 DEF Here
  <2>4. ASSUME NEW i \in 1 .. n PROVE u[i] = r[i]
    <3>1. u[i] = contexts'[i].ReturnPc /\ r[i] = contexts[i].ReturnPc
      BY <1>6, <1>7, <1>8, <2>2 DEF Returns
    <3>2. CASE i = n
      BY <1>6, <2>3, <3>1, <3>2
    <3>3. CASE i # n
      <4>1. i \in 1 .. n - 1
        BY <3>3
      <4> QED
        BY <2>2, <3>1, <4>1
    <3> QED
      BY <3>2, <3>3
  <2>5. Agree(n, u, r)
    BY <2>4 DEF Agree
  <2>6. Tower(n, u, q) = WithPc(Tower(n, r, p), q)
    BY <1>6, <2>5, TowerGoes
  <2> QED
    BY <1>7, <1>8, <2>1, <2>2, <2>6
<1>12. ASSUME NEW next \in entries, SetHere("NextPc", next) PROVE Atomic!Next
  <2>1. t = WithPc(s, q) /\ Here'.NextPc = next /\ Here'.Active = Here.Active
    BY <1>11, <1>12
  <2>2. t = WithPc(s, next) /\ Here'.Active = 1
    BY <1>2, <1>4, <1>8, <2>1
  <2> QED
    BY <1>2, <1>7, <1>8, <1>10, <2>2, Maps
<1>13. ASSUME SetHere("Active", 0) PROVE Atomic!Next
  <2>1. t = WithPc(s, q) /\ Here'.Active = 0 /\ Here'.NextPc = Here.NextPc
    BY <1>11, <1>13
  <2>2. t = WithPc(s, NoPc) /\ Here'.Active = 0
    BY <1>2, <1>4, <1>8, <2>1
  <2> QED
    BY <1>2, <1>7, <1>8, <1>10, <2>2, Maps
<1>14. ASSUME NEW entry \in entries, NEW ret \in entries, n < MaxContexts,
              contexts' = Append(contexts, FreshContext(entry, ret))
       PROVE  Atomic!Next
  <2>1. /\ Len(contexts') = n + 1
        /\ \A i \in 1 .. n : contexts'[i] = contexts[i]
        /\ contexts'[n + 1] = FreshContext(entry, ret)
        /\ Here' = FreshContext(entry, ret)
    BY <1>5, <1>6, <1>14, CallStep
  <2>2. Here'.Active = 1 /\ q = entry /\ u[n + 1] = ret
    <3>1. n + 1 \in 1 .. Len(contexts')
      BY <2>1
    <3>2. u[n + 1] = contexts'[n + 1].ReturnPc
      BY <1>8, <3>1 DEF Returns
    <3> QED
      BY <1>4, <1>8, <2>1, <3>2, FreshFacts
  <2>3. Agree(n, u, r)
    BY <1>6, <1>7, <1>8, <2>1 DEF Agree, Returns
  <2>4. t = SubSeq(s, 1, Len(s) - 1) \o <<[s[Len(s)] EXCEPT !.pc = NoPc], Entry(q, u[n + 1])>>
    BY <1>6, <1>7, <1>8, <2>1, <2>3, TowerGrows
  <2>5. \E e, a \in entries :
          /\ Len(s) < MaxContexts
          /\ t = SubSeq(s, 1, Len(s) - 1) \o <<[s[Len(s)] EXCEPT !.pc = NoPc], Entry(e, a)>>
          /\ Here'.Active = 1
    BY <1>9, <1>14, <2>2, <2>4
  <2> QED
    BY <1>2, <1>7, <1>8, <1>10, <2>5, Maps
<1>15. ASSUME n > 1,
              contexts' = [SubSeq(contexts, 1, Len(contexts) - 1) EXCEPT
                             ![Len(contexts) - 1].NextPc = Here.ReturnPc]
       PROVE  Atomic!Next
  <2>1. /\ Len(contexts') = n - 1
        /\ \A i \in 1 .. n - 2 : contexts'[i] = contexts[i]
        /\ Here'.NextPc = Here.ReturnPc
        /\ \A g \in Fields : g # "NextPc" => Here'[g] = contexts[n - 1][g]
    BY <1>5, <1>6, <1>15, ReturnStep
  <2>2. PICK m \in Nat : m = n - 1 /\ m >= 1 /\ m - 1 = n - 2 /\ m \in 1 .. Len(contexts) - 1
    BY <1>6, <1>15
  <2>3. Here' = contexts'[m] /\ Here'.ReturnPc = contexts[m].ReturnPc /\ Here'.Active = contexts[m].Active
    BY <2>1, <2>2 DEF Here, Fields
  <2>4. Here'.Active = 1
    BY <2>2, <2>3 DEF IInv, Waiting
  <2>5. ASSUME NEW i \in 1 .. m PROVE u[i] = r[i]
    <3>1. u[i] = contexts'[i].ReturnPc /\ r[i] = contexts[i].ReturnPc
      BY <1>6, <1>7, <1>8, <2>1, <2>2 DEF Returns
    <3>2. CASE i = m
      BY <2>3, <3>1, <3>2
    <3>3. CASE i # m
      <4>1. i \in 1 .. n - 2
        BY <2>2, <3>3
      <4> QED
        BY <2>1, <3>1, <4>1
    <3> QED
      BY <3>2, <3>3
  <2>6. Agree(n - 1, u, r)
    BY <2>2, <2>5 DEF Agree
  <2>7. PICK low : low = SubSeq(s, 1, Len(s) - 1)
    OBVIOUS
  <2>8. Tower(n - 1, u, q) = WithPc(low, q)
    <3>1. Tower(n - 1, u, q) = WithPc(Rest(Tower(n, r, p)), q)
      BY <1>15, <2>6, TowerShrinks
    <3> QED
      BY <1>7, <2>7, <3>1 DEF Rest
  <2>9. q = s[Len(s)].ret
    BY <1>4, <1>8, <1>9, <2>1 DEF Entry
  <2>10. t = WithPc(SubSeq(s, 1, Len(s) - 1), s[Len(s)].ret) /\ Len(s) > 1
    BY <1>8, <1>9, <1>15, <2>1, <2>7, <2>8, <2>9
  <2> QED
    BY <1>2, <1>7, <1>8, <1>10, <2>4, <2>10, Maps
<1> QED
  BY <1>6, <1>12, <1>13, <1>14, <1>15 DEF Body

LEMMA InitMaps == ASSUME Init PROVE Atomic!Init
<1>1. IInv /\ Between
  <2>1. IInv
    BY InitHolds
  <2>2. fetched = NoPc /\ work # <<>> /\ NoPc \notin entries /\ work = Outer /\ ~(Len(work) > 1)
    BY LongEnd DEF Init, Outer
  <2>3. ~Choosing /\ ~Stopped
    BY <2>2 DEF Choosing, Stopped
  <2>4. ~Ending
    BY <2>2, LongEnd, Long DEF Ending
  <2> QED
    BY <2>1, <2>3, <2>4 DEF IInv
<1>2. PICK e \in entries :
          contexts = <<[FreshContext(NoPc, NoPc) EXCEPT !.PcHigh = e[1], !.PcLow = e[2]]>>
  <2>1. \E e \in entries :
          contexts = <<[FreshContext(NoPc, NoPc) EXCEPT !.PcHigh = e[1], !.PcLow = e[2]]>>
    BY Zenon DEF Init
  <2> QED
    BY <2>1, Zenon
<1>3. PICK c, d : c = FreshContext(NoPc, NoPc) /\ d = [c EXCEPT !.PcHigh = e[1], !.PcLow = e[2]]
  BY Zenon
<1>4. contexts = <<d>>
  BY <1>2, <1>3
<1>5. d.Active = 1 /\ d.ReturnPc = NoPc /\ d.PcHigh = e[1] /\ d.PcLow = e[2]
  <2>1. c \in [Fields -> {0, 1, NoPc}] /\ c.Active = 1 /\ c.ReturnPc = NoPc
    <3>1. {0, 1, NoPc, NoPc} = {0, 1, NoPc}
      OBVIOUS
    <3> QED
      BY <1>3, <3>1, FreshFacts
  <2> QED
    BY <1>3, <2>1 DEF Fields
<1>6. Here = d /\ Len(contexts) = 1 /\ contexts[1] = d
  BY <1>4 DEF Here
<1>7. <<e[1], e[2]>> = e
  BY DispatchAssumption DEF Init
<1>8. Pc = e
  BY <1>1, <1>5, <1>6, <1>7, PcIs
<1>9. Stack = <<Entry(e, NoPc)>>
  <2>1. Stack = [i \in 1 .. 1 |-> Entry(IF i < 1 THEN NoPc ELSE e, contexts[i].ReturnPc)]
    BY <1>6, <1>8, StackIs
  <2>2. \A i \in 1 .. 1 : Entry(IF i < 1 THEN NoPc ELSE e, contexts[i].ReturnPc) = Entry(e, NoPc)
    BY <1>5, <1>6
  <2> QED
    BY <2>1, <2>2
<1>10. Here.Active = 1 /\ ran = NoPc /\ entries \in SUBSET (Codes \ {NoPc}) \ {{}}
  BY <1>5, <1>6 DEF Init
<1>11. Atomic!NoPc = NoPc
  BY DEF Atomic!NoPc, NoPc
<1> QED
  BY <1>9, <1>10, <1>11 DEF Atomic!Init, Entry

(* Each cycle runs the body of the PC it started with, once, and no other, *)
(* whatever the entries, the numbering and the depth of calls: the         *)
(* generated selection code is an atomic choice by the PC.                 *)
THEOREM DispatchIsAtomic == Spec => ImplementsAtomicDispatch
<1>1. Init => IInv /\ Atomic!Init
  BY InitHolds, InitMaps
<1>2. IInv /\ [Next]_vars => IInv' /\ [Atomic!Next]_(Atomic!vars)
  <2> SUFFICES ASSUME IInv, [Next]_vars PROVE IInv' /\ [Atomic!Next]_(Atomic!vars)
    OBVIOUS
  <2>1. IInv'
    BY NextHolds
  <2>2. CASE UNCHANGED vars
    BY <2>1, <2>2 DEF vars, Atomic!vars, Stack, Pc, Here, InCycle
  <2>3. CASE Next /\ Is("enter")
    <3>1. Body
      BY <2>3 DEF Next, Field, Loop, EndCycle, Finished, Is
    <3> QED
      BY <2>1, <3>1, BodyMaps
  <2>4. CASE Next /\ ~Is("enter")
    <3>1. AtomicVars' = AtomicVars
      BY <2>1, <2>4, Stutters
    <3> QED
      BY <2>1, <3>1 DEF AtomicVars, Atomic!vars
  <2> QED
    BY <2>2, <2>3, <2>4
<1> QED
  BY <1>1, <1>2, PTL DEF Spec, ImplementsAtomicDispatch, Atomic!Spec
=============================================================================
