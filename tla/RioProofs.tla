------------------------------ MODULE RioProofs ------------------------------
(* Whatever the kernel hands out or takes at a time, the robust I/O package  *)
(* of proxylab/csapp.c delivers the stream whole (module Rio).  The stream   *)
(* is at any moment in four parts: what the calls have delivered, what the   *)
(* call in progress has moved, what is in the buffer of the package and what *)
(* is still to come; a step moves the beginning of a part to the end of the  *)
(* one before it.                                                            *)
EXTENDS Rio, FiniteSetTheorems, SequenceTheorems, TLAPS

-----------------------------------------------------------------------------
(* Natural numbers.                                                          *)

\* Of the numbers in a set there is a least, which stands for an induction.
LEMMA LeastExists ==
    ASSUME NEW T \in SUBSET Nat, T # {}
    PROVE  \E x \in T : \A y \in T : x <= y
<1>1. IsWellFoundedOn(OpToRel(<, Nat), Nat)
  BY NatLessThanWellFounded
<1>2. PICK x \in T : \A y \in T : ~(<<y, x>> \in OpToRel(<, Nat))
  BY <1>1, WFMin
<1>3. ASSUME NEW y \in T PROVE x <= y
  <2>1. ~(<<y, x>> \in OpToRel(<, Nat))
    BY <1>2
  <2>2. QED
    BY <2>1 DEF OpToRel
<1>4. QED
  BY <1>3
-----------------------------------------------------------------------------
(* DeliveredBy is recursive; it is got from any function that satisfies its  *)
(* equation.                                                                 *)

DataOf(r) == IF r.rc < 0 THEN << >> ELSE r.data

Gathers(f, s) ==
    f = [n \in 0 .. Len(s) |->
            IF n = 0 THEN << >> ELSE f[n - 1] \o DataOf(s[n])]

\* The equation has a solution for every sequence.
LEMMA GathersExist ==
    ASSUME NEW s, Len(s) \in Nat
    PROVE  \E f : Gathers(f, s)
<1> DEFINE Upto(f, n) ==
                f = [m \in 0 .. n |->
                        IF m = 0 THEN << >> ELSE f[m - 1] \o DataOf(s[m])]
           T == {n \in Nat : ~\E f : Upto(f, n)}
<1>1. \E f : Upto(f, 0)
  <2> DEFINE f == [m \in 0 .. 0 |-> << >>]
  <2>1. \A m \in 0 .. 0 : m = 0
    OBVIOUS
  <2>2. Upto(f, 0)
    BY <2>1
  <2> HIDE DEF f
  <2>3. QED
    BY <2>2
<1>2. ASSUME NEW n \in Nat, n # 0, NEW f, Upto(f, n - 1)
      PROVE  \E g : Upto(g, n)
  <2> DEFINE g == [m \in 0 .. n |->
                     IF m = n THEN f[n - 1] \o DataOf(s[n]) ELSE f[m]]
  <2>1. \A m \in 0 .. n - 1 :
          f[m] = IF m = 0 THEN << >> ELSE f[m - 1] \o DataOf(s[m])
    BY <1>2
  <2>2. ASSUME NEW m \in 0 .. n
        PROVE  g[m] = IF m = 0 THEN << >> ELSE g[m - 1] \o DataOf(s[m])
    <3>1. CASE m = n
      <4>1. n - 1 \in 0 .. n /\ n - 1 # n
        BY <1>2
      <4>2. QED
        BY <1>2, <3>1, <4>1
    <3>2. CASE m # n
      <4>1. m \in 0 .. n - 1 /\ (m # 0 => m - 1 \in 0 .. n /\ m - 1 # n)
        BY <1>2, <3>2
      <4>2. QED
        BY <2>1, <3>2, <4>1
    <3>3. QED
      BY <3>1, <3>2
  <2>3. Upto(g, n)
    BY <2>2
  <2> HIDE DEF g
  <2>4. QED
    BY <2>3
<1> HIDE DEF Upto
<1>3. CASE T # {}
  <2>1. PICK n \in T : \A m \in T : n <= m
    <3>1. T \in SUBSET Nat
      OBVIOUS
    <3> HIDE DEF T
    <3>2. QED
      BY <1>3, <3>1, LeastExists
  <2>2. n \in Nat /\ n # 0 /\ ~\E f : Upto(f, n)
    BY <1>1, <2>1
  <2>3. n - 1 \in Nat /\ ~(n <= n - 1)
    BY <2>2
  <2>4. n - 1 \notin T
    BY <2>1, <2>3
  <2>5. \E f : Upto(f, n - 1)
    BY <2>3, <2>4
  <2>6. QED
    BY <1>2, <2>2, <2>5
<1>4. CASE T = {}
  <2>1. \E f : Upto(f, Len(s))
    BY <1>4
  <2>2. QED
    BY <2>1 DEF Upto, Gathers
<1>5. QED
  BY <1>3, <1>4

\* It has one solution.
LEMMA GathersAreUnique ==
    ASSUME NEW s, Len(s) \in Nat, NEW f, NEW g, Gathers(f, s), Gathers(g, s)
    PROVE  f = g
<1> DEFINE D == 0 .. Len(s)
           T == {n \in D : f[n] # g[n]}
<1>1. /\ f = [n \in D |-> f[n]] /\ g = [n \in D |-> g[n]]
      /\ \A n \in D : f[n] = IF n = 0 THEN << >> ELSE f[n - 1] \o DataOf(s[n])
      /\ \A n \in D : g[n] = IF n = 0 THEN << >> ELSE g[n - 1] \o DataOf(s[n])
  BY DEF Gathers
<1>2. CASE T # {}
  <2>1. T \in SUBSET Nat
    OBVIOUS
  <2>2. PICK n \in T : \A m \in T : n <= m
    <3> HIDE DEF T
    <3>1. QED
      BY <1>2, <2>1, LeastExists
  <2>3. n \in D /\ f[n] # g[n]
    BY <2>2
  <2>4. n # 0
    BY <1>1, <2>3
  <2>5. n - 1 \in D /\ ~(n <= n - 1)
    BY <2>3, <2>4
  <2>6. n - 1 \notin T
    BY <2>2, <2>5
  <2>7. f[n - 1] = g[n - 1]
    BY <2>5, <2>6
  <2>8. QED
    BY <1>1, <2>3, <2>4, <2>7
<1>3. CASE T = {}
  <2>1. \A n \in D : f[n] = g[n]
    BY <1>3
  <2> HIDE DEF D
  <2>2. [n \in D |-> f[n]] = [n \in D |-> g[n]]
    BY <2>1
  <2>3. QED
    BY <1>1, <2>2
<1>4. QED
  BY <1>2, <1>3

\* What a sequence of results delivers is the last value of the solution.
LEMMA DeliveredByIs ==
    ASSUME NEW s, Len(s) \in Nat, NEW f, Gathers(f, s)
    PROVE  DeliveredBy(s) = f[Len(s)]
<1>1. DeliveredBy(s) = (CHOOSE g : Gathers(g, s))[Len(s)]
  BY Zenon DEF DeliveredBy, Gathers, DataOf
<1>2. Gathers(CHOOSE g : Gathers(g, s), s)
  BY Zenon
<1> DEFINE h == CHOOSE g : Gathers(g, s)
<1> HIDE DEF h
<1>3. h = f
  BY <1>2, GathersAreUnique DEF h
<1>4. QED
  BY <1>1, <1>3 DEF h

\* Nothing has been delivered by no calls.
LEMMA DeliveredByNone == DeliveredBy(<< >>) = << >>
<1>1. PICK s : s = << >>
  OBVIOUS
<1>2. Len(s) \in Nat /\ Len(s) = 0
  BY <1>1
<1>3. PICK f : Gathers(f, s)
  BY <1>2, GathersExist
<1>4. \A n \in 0 .. Len(s) :
        f[n] = IF n = 0 THEN << >> ELSE f[n - 1] \o DataOf(s[n])
  BY <1>3 DEF Gathers
<1>5. f[0] = << >>
  BY <1>2, <1>4
<1>6. QED
  BY <1>1, <1>2, <1>3, <1>5, DeliveredByIs

\* One more call delivers its data after all the others'.
LEMMA DeliveredByMore ==
    ASSUME NEW R, NEW s \in Seq(R), NEW r \in R, NEW t, t = Append(s, r)
    PROVE  DeliveredBy(t) = DeliveredBy(s) \o DataOf(r)
<1> DEFINE len == Len(s)
<1>1. /\ len \in Nat /\ Len(t) = len + 1 /\ Len(t) \in Nat /\ t[len + 1] = r
      /\ \A n \in 1 .. len : t[n] = s[n]
  OBVIOUS
<1>2. PICK f : Gathers(f, t)
  BY <1>1, GathersExist
<1> HIDE DEF len
<1>3. \A n \in 0 .. len + 1 :
        f[n] = IF n = 0 THEN << >> ELSE f[n - 1] \o DataOf(t[n])
  BY <1>1, <1>2 DEF Gathers
<1> DEFINE g == [n \in 0 .. len |-> f[n]]
<1>4. Gathers(g, s)
  <2>1. ASSUME NEW n \in 0 .. len
        PROVE  g[n] = IF n = 0 THEN << >> ELSE g[n - 1] \o DataOf(s[n])
    <3>1. n \in 0 .. len + 1 /\ (n # 0 => n - 1 \in 0 .. len /\ n \in 1 .. len)
      BY <1>1, <2>1
    <3>2. g[n] = f[n] /\ (n # 0 => g[n - 1] = f[n - 1] /\ t[n] = s[n])
      BY <1>1, <2>1, <3>1
    <3> HIDE DEF g
    <3>3. QED
      BY <1>3, <3>1, <3>2
  <2>2. g = [n \in 0 .. len |->
                IF n = 0 THEN << >> ELSE g[n - 1] \o DataOf(s[n])]
    BY <2>1
  <2> HIDE DEF g
  <2>3. QED
    BY <2>2 DEF Gathers, len
<1>5. len \in 0 .. len /\ len + 1 \in 0 .. len + 1 /\ len + 1 # 0
      /\ (len + 1) - 1 = len
  BY <1>1
<1>6. g[len] = f[len]
  BY <1>5
<1>7. DeliveredBy(s) = g[len]
  <2> HIDE DEF g
  <2>1. QED
    BY <1>1, <1>4, DeliveredByIs DEF len
<1>8. DeliveredBy(t) = f[len + 1]
  BY <1>1, <1>2, DeliveredByIs
<1>9. f[len + 1] = f[len] \o DataOf(r)
  BY <1>1, <1>3, <1>5
<1>10. QED
  BY <1>6, <1>7, <1>8, <1>9
-----------------------------------------------------------------------------
(* The stream in four parts, one after the other: what has been delivered,   *)
(* what the call in progress has moved, what the buffer of the package has   *)
(* and what is still to come.                                                *)

Str == Seq(Characters)
Cat(a, b) == a \o b
Joined(d, u, b, i) == Cat(Cat(Cat(d, u), b), i)

\* A string is cut after its first k characters.
LEMMA CutInTwo ==
    ASSUME NEW b \in Str, NEW k \in 0 .. Len(b)
    PROVE  /\ First(b, k) \in Str /\ Len(First(b, k)) = k
           /\ Rest(b, k) \in Str /\ Len(Rest(b, k)) = Len(b) - k
           /\ Cat(First(b, k), Rest(b, k)) = b
           /\ \A j \in 1 .. k : First(b, k)[j] = b[j]
<1>1. Len(b) \in Nat /\ b \in [1 .. Len(b) -> Characters]
  BY DEF Str
<1>2. /\ First(b, k) \in Str /\ Len(First(b, k)) = k
      /\ \A j \in 1 .. k : First(b, k)[j] = b[j]
  <2>1. \A j \in 1 .. k : b[j] \in Characters
    BY <1>1
  <2>2. /\ SubSeq(b, 1, k) \in Seq(Characters)
        /\ Len(SubSeq(b, 1, k)) = IF 1 <= k THEN k - 1 + 1 ELSE 0
        /\ \A j \in 1 .. k - 1 + 1 : SubSeq(b, 1, k)[j] = b[1 + j - 1]
    BY <2>1, SubSeqProperties
  <2>3. QED
    BY <1>1, <2>2 DEF First, Str
<1>3. Rest(b, k) \in Str /\ Len(Rest(b, k)) = Len(b) - k
  <2>1. \A j \in k + 1 .. Len(b) : b[j] \in Characters
    BY <1>1
  <2>2. k + 1 \in Int /\ Len(b) \in Int
    BY <1>1
  <2>3. /\ SubSeq(b, k + 1, Len(b)) \in Seq(Characters)
        /\ Len(SubSeq(b, k + 1, Len(b))) =
                IF k + 1 <= Len(b) THEN Len(b) - (k + 1) + 1 ELSE 0
    BY <2>1, <2>2, SubSeqProperties
  <2>4. PICK n \in Nat : n = Len(b)
    BY <1>1
  <2>5. k \in 0 .. n
    BY <2>4
  <2>6. (IF k + 1 <= n THEN n - (k + 1) + 1 ELSE 0) = n - k
    BY <2>5
  <2>7. QED
    BY <2>3, <2>4, <2>6 DEF Rest, Str
<1>4. Cat(First(b, k), Rest(b, k)) = b
  <2>1. /\ 1 \in 1 .. Len(b) + 1 /\ k \in 1 - 1 .. Len(b)
        /\ Len(b) \in k .. Len(b)
    BY <1>1
  <2>2. SubSeq(b, 1, k) \o SubSeq(b, k + 1, Len(b)) = SubSeq(b, 1, Len(b))
    BY <2>1, ConcatAdjacentSubSeq DEF Str
  <2>3. SubSeq(b, 1, Len(b)) = b
    BY SubSeqFull DEF Str
  <2>4. QED
    BY <2>2, <2>3 DEF First, Rest, Cat
<1>5. QED
  BY <1>2, <1>3, <1>4

LEMMA CatType ==
    ASSUME NEW a \in Str, NEW b \in Str
    PROVE  /\ Cat(a, b) \in Str /\ Len(Cat(a, b)) = Len(a) + Len(b)
           /\ Len(a) \in Nat /\ Len(b) \in Nat
BY ConcatProperties DEF Str, Cat

LEMMA CatAssoc ==
    ASSUME NEW a \in Str, NEW b \in Str, NEW c \in Str
    PROVE  Cat(Cat(a, b), c) = Cat(a, Cat(b, c))
BY ConcatAssociative DEF Str, Cat

LEMMA CatNone ==
    ASSUME NEW a \in Str
    PROVE  Cat(a, << >>) = a /\ Cat(<< >>, a) = a /\ << >> \in Str
BY ConcatEmptySeq, EmptySeq DEF Str, Cat

\* What is taken from the buffer goes to the end of what the call has.
LEMMA JoinTake ==
    ASSUME NEW d \in Str, NEW u \in Str, NEW b \in Str, NEW i \in Str,
           NEW k \in 0 .. Len(b)
    PROVE  Joined(d, Cat(u, First(b, k)), Rest(b, k), i) = Joined(d, u, b, i)
<1>1. PICK f, r : f = First(b, k) /\ r = Rest(b, k)
  OBVIOUS
<1>2. f \in Str /\ r \in Str /\ Cat(f, r) = b
  BY <1>1, CutInTwo
<1>3. Cat(d, Cat(u, f)) = Cat(Cat(d, u), f) /\ Cat(d, u) \in Str
  BY <1>2, CatAssoc, CatType
<1>4. Cat(Cat(Cat(d, u), f), r) = Cat(Cat(d, u), b)
  BY <1>2, <1>3, CatAssoc
<1>5. QED
  BY <1>1, <1>3, <1>4 DEF Joined

\* What is read goes to the end of an empty buffer, or of what the call has.
LEMMA JoinRead ==
    ASSUME NEW d \in Str, NEW u \in Str, NEW i \in Str, NEW k \in 0 .. Len(i)
    PROVE  /\ Joined(d, u, First(i, k), Rest(i, k)) = Joined(d, u, << >>, i)
           /\ Joined(d, Cat(u, First(i, k)), << >>, Rest(i, k))
                = Joined(d, u, << >>, i)
<1>1. PICK f, r : f = First(i, k) /\ r = Rest(i, k)
  OBVIOUS
<1>2. f \in Str /\ r \in Str /\ Cat(f, r) = i
  BY <1>1, CutInTwo
<1>3. Cat(d, Cat(u, f)) = Cat(Cat(d, u), f) /\ Cat(d, u) \in Str
  BY <1>2, CatAssoc, CatType
<1>4. /\ Cat(Cat(Cat(d, u), f), r) = Cat(Cat(d, u), i)
      /\ Cat(Cat(d, u), f) \in Str
  BY <1>2, <1>3, CatAssoc, CatType
<1>5. /\ Cat(Cat(d, u), << >>) = Cat(d, u)
      /\ Cat(Cat(Cat(d, u), f), << >>) = Cat(Cat(d, u), f)
  BY <1>3, <1>4, CatNone
<1>6. QED
  BY <1>1, <1>3, <1>4, <1>5 DEF Joined

\* A call that returns delivers all it has.
LEMMA JoinReturn ==
    ASSUME NEW d \in Str, NEW u \in Str, NEW b \in Str, NEW i \in Str
    PROVE  Joined(Cat(d, u), << >>, b, i) = Joined(d, u, b, i)
BY CatType, CatNone DEF Joined

\* What has been delivered is the beginning of the stream.
LEMMA JoinedBegins ==
    ASSUME NEW d \in Str, NEW u \in Str, NEW b \in Str, NEW i \in Str
    PROVE  d = First(Joined(d, u, b, i), Len(d))
<1>1. PICK rest : rest = Cat(Cat(u, b), i)
  OBVIOUS
<1>2. rest \in Str /\ Cat(u, b) \in Str
  BY <1>1, CatType
<1>3. Joined(d, u, b, i) = Cat(d, rest)
  BY <1>1, <1>2, CatAssoc DEF Joined
<1>4. Len(d) \in Nat
  BY DEF Str
<1>5. CASE Len(d) = 0
  <2>1. d = << >>
    BY <1>5 DEF Str
  <2>2. \A s : SubSeq(s, 1, 0) = << >>
    BY SubSeqEmpty
  <2>3. QED
    BY <1>5, <2>1, <2>2 DEF First
<1>6. CASE Len(d) # 0
  <2>1. 1 \in 1 .. Len(d) /\ Len(d) \in 1 .. Len(d)
    BY <1>4, <1>6
  <2>2. SubSeq(d \o rest, 1, Len(d)) = SubSeq(d, 1, Len(d))
    BY <1>2, <2>1, SubSeqOfConcat1 DEF Str
  <2>3. SubSeq(d, 1, Len(d)) = d
    BY SubSeqFull DEF Str
  <2>4. QED
    BY <1>3, <2>2, <2>3 DEF First, Cat
<1>7. QED
  BY <1>5, <1>6
-----------------------------------------------------------------------------
(* The invariant.                                                            *)

Calls == Readers \cup {"rio_writen"}
Bufferers == {"rio_readlineb", "rio_readnb"}
Results == [call : Calls, rc : Int, data : Str]

Shapes ==
    /\ Stream \in Str /\ incoming \in Str /\ rio_buf \in Str /\ usrbuf \in Str
    /\ reset \in BOOLEAN
    /\ call \in Calls \cup {"none"}
    /\ returned \in Seq(Results)
    /\ Delivered \in Str

\* As long as no call has failed, the four parts are the stream.
Whole == ~Failed => Joined(Delivered, usrbuf, rio_buf, incoming) = Stream

\* What a call that fails had moved is not delivered, and nothing comes after.
Begins ==
    /\ Delivered = First(Stream, Len(Delivered))
    /\ Failed => call = "none"

\* Only the buffered calls leave something in the buffer of the package, and
\* nothing is left in that of the caller.
BufferUsed ==
    /\ call = "none" => usrbuf = << >>
    /\ call \in {"rio_readn", "rio_writen"} => rio_buf = << >>
    /\ call = "none" /\ ~Buffered => rio_buf = << >>

\* The call in progress has not finished: the line it reads has not ended, and
\* there is room for more.
Unfinished ==
    /\ call = "rio_readlineb" =>
         /\ \A j \in 1 .. Len(usrbuf) : usrbuf[j] # Newline
         /\ Len(usrbuf) < MaxLine - 1
    /\ call \in {"rio_readnb", "rio_readn"} => Len(usrbuf) < MaxLine

\* A result of rio_readlineb is a line.
Line(r) ==
    r.call = "rio_readlineb" /\ r.rc > 0 =>
        /\ r.rc = Len(r.data)
        /\ \A j \in 1 .. r.rc - 1 : r.data[j] # Newline
        /\ \/ r.data[r.rc] = Newline
           \/ r.rc = MaxLine - 1
           \/ Eof /\ rio_buf = << >>
Lines == \A k \in DOMAIN returned : Line(returned[k])

RioInv == Shapes /\ Whole /\ Begins /\ BufferUsed /\ Unfinished /\ Lines

LEMMA InvEnough == RioInv => NothingLostOrRepeated
BY DEF RioInv, Whole, Begins, Lines, Line, NothingLostOrRepeated, Joined, Cat

LEMMA InitInv == Init => RioInv
<1> SUFFICES ASSUME Init PROVE RioInv
  OBVIOUS
<1>1. << >> \in Str /\ Stream \in Str /\ << >> \in Seq(Results)
  BY StreamsAssumption, EmptySeq DEF Init, Str
<1>2. Delivered = << >>
  BY DeliveredByNone DEF Delivered, Init
<1>3. Shapes
  BY <1>1, <1>2 DEF Shapes, Init
<1>4. Whole /\ Begins
  <2>1. PICK s : s = Stream
    OBVIOUS
  <2>2. Cat(<< >>, << >>) = << >> /\ Cat(<< >>, s) = s
    BY <1>1, <2>1, CatNone
  <2>3. Joined(<< >>, << >>, << >>, s) = s
    BY <2>2 DEF Joined
  <2>4. << >> = First(s, Len(<< >>))
    BY <1>1, <2>1, <2>3, JoinedBegins
  <2>5. ~Failed
    BY DEF Failed, Init
  <2>6. QED
    BY <1>2, <2>1, <2>3, <2>4, <2>5 DEF Whole, Begins, Init
<1>5. BufferUsed /\ Unfinished /\ Lines
  BY DEF BufferUsed, Unfinished, Lines, Init
<1>6. QED
  BY <1>3, <1>4, <1>5 DEF RioInv

-----------------------------------------------------------------------------
(* What a step of a call does: it moves data, or it returns.                 *)

\* What is said of the results as long as nothing returns.
LEMMA NothingReturned ==
    ASSUME Shapes, returned' = returned
    PROVE  /\ Delivered' = Delivered /\ Failed' = Failed /\ Over' = Over
           /\ Buffered' = Buffered /\ Unbuffered' = Unbuffered
BY DEF Delivered, DeliveredBy, Failed, Over, Buffered, Unbuffered

\* A result is added to the others, and delivers its data unless it failed.
LEMMA ReturnDelivers ==
    ASSUME Shapes, call # "none", NEW rc \in Int, NEW data \in Str,
           Return(rc, data)
    PROVE  /\ returned' \in Seq(Results)
           /\ DOMAIN returned' = 1 .. Len(returned) + 1
           /\ \A k \in DOMAIN returned : returned'[k] = returned[k]
           /\ DOMAIN returned = 1 .. Len(returned) /\ Len(returned) \in Nat
           /\ returned'[Len(returned) + 1] =
                    [call |-> call, rc |-> rc, data |-> data]
           /\ Delivered' = IF rc < 0 THEN Delivered ELSE Cat(Delivered, data)
           /\ Failed' <=> Failed \/ rc < 0
           /\ Buffered' <=> Buffered \/ call \in Bufferers
<1>1. PICK r : r = [call |-> call, rc |-> rc, data |-> data]
  OBVIOUS
<1>2. r \in Results /\ r.call = call /\ r.rc = rc /\ r.data = data
  BY <1>1 DEF Shapes, Results
<1>3. PICK s : s = returned
  OBVIOUS
<1>4. PICK t : t = Append(s, r)
  OBVIOUS
<1>5. s \in Seq(Results) /\ returned' = t
  BY <1>1, <1>3, <1>4 DEF Shapes, Return
<1>6. /\ t \in Seq(Results) /\ DOMAIN t = 1 .. Len(s) + 1
      /\ DOMAIN s = 1 .. Len(s) /\ Len(s) \in Nat
      /\ \A k \in DOMAIN s : t[k] = s[k]
      /\ t[Len(s) + 1] = r
  BY <1>2, <1>4, <1>5
<1>7. \A k \in DOMAIN t : k \in DOMAIN s \/ k = Len(s) + 1
  BY <1>6
<1>8. Delivered' = IF rc < 0 THEN Delivered ELSE Cat(Delivered, data)
  <2>1. DeliveredBy(t) = DeliveredBy(s) \o DataOf(r)
    BY <1>2, <1>4, <1>5, DeliveredByMore
  <2>2. Delivered' = DeliveredBy(t) /\ Delivered = DeliveredBy(s)
    BY <1>3, <1>5 DEF Delivered, DeliveredBy
  <2>3. CASE rc < 0
    <3>1. DataOf(r) = << >>
      BY <1>2, <2>3 DEF DataOf
    <3>2. Cat(Delivered, << >>) = Delivered
      BY CatNone DEF Shapes
    <3>3. QED
      BY <2>1, <2>2, <2>3, <3>1, <3>2 DEF Cat
  <2>4. CASE ~(rc < 0)
    BY <1>2, <2>1, <2>2, <2>4 DEF DataOf, Cat
  <2>5. QED
    BY <2>3, <2>4
<1>9. Failed' <=> Failed \/ rc < 0
  <2>1. Failed <=> \E k \in DOMAIN s : s[k].rc < 0
    BY <1>3 DEF Failed
  <2>2. Failed' <=> \E k \in DOMAIN t : t[k].rc < 0
    BY <1>5 DEF Failed
  <2>3. Len(s) + 1 \in DOMAIN t /\ DOMAIN s \subseteq DOMAIN t
    BY <1>6
  <2>4. QED
    BY <1>2, <1>6, <1>7, <2>1, <2>2, <2>3
<1>10. Buffered' <=> Buffered \/ call \in Bufferers
  <2>1. Buffered <=> \E k \in DOMAIN s : s[k].call \in Bufferers
    BY <1>3 DEF Buffered, Bufferers
  <2>2. Buffered' <=> \E k \in DOMAIN t : t[k].call \in Bufferers
    BY <1>5 DEF Buffered, Bufferers
  <2>3. Len(s) + 1 \in DOMAIN t /\ DOMAIN s \subseteq DOMAIN t
    BY <1>6
  <2>4. QED
    BY <1>2, <1>6, <1>7, <2>1, <2>2, <2>3
<1>11. QED
  BY <1>1, <1>3, <1>5, <1>6, <1>8, <1>9, <1>10
-----------------------------------------------------------------------------
\* The end of the stream stays the end.
Ended == Eof /\ rio_buf = << >>

\* A call that goes on moves data from one part of the stream to the next.
LEMMA MoveKeeps ==
    ASSUME RioInv, call # "none", call' = call,
           UNCHANGED <<Stream, reset, returned>>,
           rio_buf' \in Str, usrbuf' \in Str, incoming' \in Str,
           Joined(Delivered, usrbuf', rio_buf', incoming')
                = Joined(Delivered, usrbuf, rio_buf, incoming),
           call \notin Bufferers => rio_buf' = << >>,
           Ended => Ended', Unfinished'
    PROVE  RioInv'
<1>1. Shapes /\ Delivered \in Str /\ call \in Calls
  BY DEF RioInv, Shapes
<1>2. /\ Delivered' = Delivered /\ Failed' = Failed /\ Buffered' = Buffered
  BY <1>1, NothingReturned
<1>3. ~Failed
  BY DEF RioInv, Begins
<1>4. Shapes'
  BY <1>1, <1>2 DEF Shapes
<1>5. Whole'
  BY <1>2, <1>3 DEF RioInv, Whole
<1>6. Begins'
  BY <1>2, <1>3 DEF RioInv, Begins
<1>7. BufferUsed'
  BY DEF BufferUsed, Bufferers
<1>8. Lines'
  BY DEF RioInv, Lines, Line, Ended
<1>9. QED
  BY <1>4, <1>5, <1>6, <1>7, <1>8 DEF RioInv

\* A call that returns delivers what follows what has been delivered before.
LEMMA ReturnKeeps ==
    ASSUME RioInv, call # "none", NEW rc \in Int, NEW data \in Str,
           Return(rc, data), UNCHANGED <<Stream, reset>>,
           rio_buf' \in Str, incoming' \in Str,
           rc >= 0 => Joined(Cat(Delivered, data), << >>, rio_buf', incoming')
                        = Joined(Delivered, usrbuf, rio_buf, incoming),
           call \notin Bufferers => rio_buf' = << >>,
           Ended => Ended',
           call = "rio_readlineb" /\ rc > 0 =>
                /\ rc = Len(data)
                /\ \A j \in 1 .. rc - 1 : data[j] # Newline
                /\ data[rc] = Newline \/ rc = MaxLine - 1 \/ Ended'
    PROVE  RioInv'
<1>1. Shapes /\ Delivered \in Str /\ call \in Calls
  BY DEF RioInv, Shapes
<1>2. /\ returned' \in Seq(Results)
      /\ DOMAIN returned' = 1 .. Len(returned) + 1
      /\ \A k \in DOMAIN returned : returned'[k] = returned[k]
      /\ DOMAIN returned = 1 .. Len(returned) /\ Len(returned) \in Nat
      /\ returned'[Len(returned) + 1] =
               [call |-> call, rc |-> rc, data |-> data]
      /\ Delivered' = IF rc < 0 THEN Delivered ELSE Cat(Delivered, data)
      /\ Failed' <=> Failed \/ rc < 0
      /\ Buffered' <=> Buffered \/ call \in Bufferers
  BY <1>1, ReturnDelivers
<1>3. ~Failed /\ Joined(Delivered, usrbuf, rio_buf, incoming) = Stream
  BY DEF RioInv, Begins, Whole
<1>4. << >> \in Str /\ Cat(Delivered, data) \in Str
  BY <1>1, CatNone, CatType
<1>5. Shapes'
  BY <1>1, <1>2, <1>4 DEF Shapes, Return
<1>6. Whole'
  BY <1>2, <1>3 DEF Whole, Return
<1>7. Begins'
  <2>1. CASE rc < 0
    BY <1>2, <2>1 DEF RioInv, Begins, Return
  <2>2. CASE rc >= 0
    <3>1. ~(rc < 0)
      BY <2>2
    <3>2. PICK d : d = Cat(Delivered, data)
      OBVIOUS
    <3>3. PICK b : b = rio_buf'
      OBVIOUS
    <3>4. PICK i : i = incoming'
      OBVIOUS
    <3>5. d = First(Joined(d, << >>, b, i), Len(d))
      BY <1>4, <3>2, <3>3, <3>4, JoinedBegins
    <3>6. d = First(Stream, Len(d))
      BY <1>3, <2>2, <3>2, <3>3, <3>4, <3>5
    <3>7. Delivered' = d
      BY <1>2, <3>1, <3>2
    <3>8. Delivered' = First(Stream', Len(Delivered'))
      BY <3>6, <3>7
    <3>9. QED
      BY <3>8 DEF Begins, Return
  <2>3. QED
    BY <2>1, <2>2
<1>8. BufferUsed' /\ Unfinished'
  BY <1>2 DEF BufferUsed, Unfinished, Return
<1>9. Lines'
  <2>1. PICK t : t = returned'
    OBVIOUS
  <2>2. ASSUME NEW k \in DOMAIN t PROVE Line(t[k])'
    <3>1. CASE k \in DOMAIN returned
      <4>1. Line(returned[k]) /\ t[k] = returned[k]
        BY <1>2, <2>1, <3>1 DEF RioInv, Lines
      <4>2. QED
        BY <4>1 DEF Line, Ended
    <3>2. CASE k \notin DOMAIN returned
      <4>1. k = Len(returned) + 1
        BY <1>2, <2>1, <2>2, <3>2
      <4>2. t[k] = [call |-> call, rc |-> rc, data |-> data]
        BY <1>2, <2>1, <4>1
      <4>3. QED
        BY <4>2 DEF Line, Ended
    <3>3. QED
      BY <3>1, <3>2
  <2>3. QED
    BY <2>1, <2>2 DEF Lines
<1>10. QED
  BY <1>5, <1>6, <1>7, <1>8, <1>9 DEF RioInv
-----------------------------------------------------------------------------
(* The steps.                                                                *)

\* A call begins with an empty buffer of its own.
LEMMA CallKeeps ==
    ASSUME RioInv, (\E f \in Readers : Call(f)) \/ CallWrite
    PROVE  RioInv'
<1>1. /\ Shapes /\ call = "none" /\ usrbuf = << >> /\ call' \in Calls
      /\ UNCHANGED <<Stream, reset, incoming, rio_buf, returned, usrbuf>>
  BY DEF RioInv, BufferUsed, Call, CallWrite, Calls
<1>2. /\ Delivered' = Delivered /\ Failed' = Failed /\ Buffered' = Buffered
  BY <1>1, NothingReturned
<1>3. ~Failed
  <2>1. ~Over \/ returned = << >>
    BY DEF Call, CallWrite
  <2>2. \A k \in DOMAIN returned : returned[k].rc \in Int
    <3>1. PICK s : s = returned
      OBVIOUS
    <3>2. s \in Seq(Results)
      BY <1>1, <3>1 DEF Shapes
    <3>3. \A k \in DOMAIN s : s[k] \in Results
      BY <3>2
    <3>4. \A r \in Results : r.rc \in Int
      BY DEF Results
    <3>5. QED
      BY <3>1, <3>3, <3>4
  <2>3. \A k \in DOMAIN returned : returned[k].rc < 0 => returned[k].rc <= 0
    BY <2>2
  <2>4. CASE ~Over
    BY <2>3, <2>4 DEF Over, Failed
  <2>5. CASE returned = << >>
    BY <2>5 DEF Failed
  <2>6. QED
    BY <2>1, <2>4, <2>5
<1>4. ~Buffered \/ call' \in Bufferers
  BY DEF Call, CallWrite, Buffered, Bufferers, Readers
<1>5. Shapes'
  BY <1>1, <1>2 DEF Shapes
<1>6. Whole' /\ Begins'
  BY <1>1, <1>2, <1>3 DEF RioInv, Whole, Begins
<1>7. call' # "none"
  BY <1>1 DEF Calls, Readers
<1>8. BufferUsed'
  BY <1>1, <1>2, <1>4, <1>7 DEF RioInv, BufferUsed, Bufferers
<1>9. Unfinished'
  <2>1. /\ Len(usrbuf) = 0 /\ Len(usrbuf) < MaxLine - 1
        /\ Len(usrbuf) < MaxLine
    BY <1>1, SizeAssumption
  <2>2. \A j \in 1 .. Len(usrbuf) : FALSE
    BY <2>1
  <2>3. QED
    BY <1>1, <2>1, <2>2 DEF Unfinished
<1>10. Lines'
  BY <1>1 DEF RioInv, Lines, Line, Eof
<1>11. QED
  BY <1>5, <1>6, <1>8, <1>9, <1>10 DEF RioInv

\* An interrupted call tries again.
LEMMA InterruptKeeps ==
    ASSUME RioInv, Interrupted \/ UNCHANGED vars
    PROVE  RioInv'
<1>1. UNCHANGED <<Stream, reset, incoming, rio_buf, call, usrbuf, returned>>
  BY DEF Interrupted, vars
<1>2. /\ Delivered' = Delivered /\ Failed' = Failed /\ Buffered' = Buffered
  BY <1>1, NothingReturned DEF RioInv
<1>3. Shapes' /\ Whole' /\ Begins'
  BY <1>1, <1>2 DEF RioInv, Shapes, Whole, Begins
<1>4. BufferUsed' /\ Unfinished'
  BY <1>1, <1>2 DEF RioInv, BufferUsed, Unfinished
<1>5. Lines'
  BY <1>1 DEF RioInv, Lines, Line, Eof
<1>6. QED
  BY <1>3, <1>4, <1>5 DEF RioInv

\* read fills the buffer of the package with the beginning of what is to come.
LEMMA RefillKeeps == ASSUME RioInv, Refill PROVE RioInv'
<1>1. Shapes /\ call \in Bufferers /\ rio_buf = << >>
  BY DEF RioInv, Refill, Waiting, Bufferers
<1>2. PICK i : i = incoming
  OBVIOUS
<1>3. i \in Str /\ Len(i) \in Nat
  BY <1>1, <1>2 DEF Shapes, Str
<1>4. PICK k \in 1 .. Least(RIO_BUFSIZE, Len(i)) :
            rio_buf' = First(i, k) /\ incoming' = Rest(i, k)
  BY <1>2 DEF Refill
<1>5. k \in 0 .. Len(i) /\ Len(i) # 0
  BY <1>3, <1>4, SizeAssumption DEF Least
<1>6. rio_buf' \in Str /\ incoming' \in Str
  BY <1>3, <1>4, <1>5, CutInTwo
<1>7. PICK d, u : d = Delivered /\ u = usrbuf
  OBVIOUS
<1>8. d \in Str /\ u \in Str
  BY <1>1, <1>7 DEF Shapes
<1>9. Joined(d, u, First(i, k), Rest(i, k)) = Joined(d, u, << >>, i)
  BY <1>3, <1>5, <1>8, JoinRead
<1>10. /\ UNCHANGED <<Stream, reset, call, usrbuf, returned>>
       /\ call # "none"
  BY <1>1 DEF Refill, Bufferers
<1>11. ~Ended
  BY <1>2, <1>5 DEF Ended, Eof
<1>12. Unfinished'
  BY <1>10 DEF RioInv, Unfinished
<1>13. Joined(Delivered, usrbuf', rio_buf', incoming')
            = Joined(Delivered, usrbuf, rio_buf, incoming)
  BY <1>1, <1>2, <1>4, <1>7, <1>9, <1>10
<1>14. usrbuf' \in Str
  BY <1>1, <1>10 DEF Shapes
<1>15. QED
  BY <1>1, <1>6, <1>10, <1>11, <1>12, <1>13, <1>14, MoveKeeps

\* At the end of the stream a call returns what it has.
LEMMA ReadEofKeeps == ASSUME RioInv, ReadEof PROVE RioInv'
<1>1. Shapes /\ call \in Bufferers /\ Eof /\ rio_buf = << >>
  BY DEF RioInv, ReadEof, Waiting, Bufferers
<1>2. PICK u : u = usrbuf
  OBVIOUS
<1>3. PICK rc : rc = Len(u)
  OBVIOUS
<1>4. u \in Str /\ rc \in Int /\ rc >= 0
  BY <1>1, <1>2, <1>3 DEF Shapes, Str
<1>5. /\ Return(rc, u) /\ UNCHANGED <<Stream, reset, incoming, rio_buf>>
      /\ call # "none"
  BY <1>1, <1>2, <1>3 DEF ReadEof, Bufferers
<1>6. Ended'
  BY <1>1, <1>5 DEF Ended, Eof
<1>7. Joined(Cat(Delivered, u), << >>, rio_buf', incoming')
            = Joined(Delivered, usrbuf, rio_buf, incoming)
  BY <1>1, <1>2, <1>5, JoinReturn DEF Shapes
<1>8. call = "rio_readlineb" /\ rc > 0 =>
        /\ rc = Len(u)
        /\ \A j \in 1 .. rc - 1 : u[j] # Newline
        /\ u[rc] = Newline \/ rc = MaxLine - 1 \/ Ended'
  <2>1. \A j \in 1 .. rc - 1 : j \in 1 .. Len(u)
    BY <1>3, <1>4
  <2>2. QED
    BY <1>2, <1>3, <1>6, <2>1 DEF RioInv, Unfinished
<1>9. rio_buf' \in Str /\ incoming' \in Str
  BY <1>1, <1>5 DEF Shapes
<1>10. QED
  BY <1>1, <1>4, <1>5, <1>6, <1>7, <1>8, <1>9, ReturnKeeps

\* Where an error ends the stream, what the call has is lost.
LEMMA ReadErrorKeeps == ASSUME RioInv, ReadError PROVE RioInv'
<1>1. Shapes /\ call \in Bufferers
  BY DEF RioInv, ReadError, Waiting, Bufferers
<1>2. /\ Return(-1, << >>) /\ UNCHANGED <<Stream, reset, incoming, rio_buf>>
      /\ call # "none"
  BY <1>1 DEF ReadError, Bufferers
<1>3. << >> \in Str /\ -1 \in Int /\ ~(-1 >= 0) /\ ~(-1 > 0)
  BY EmptySeq DEF Str
<1>4. Ended => Ended'
  BY <1>2 DEF Ended, Eof
<1>5. rio_buf' \in Str /\ incoming' \in Str
  BY <1>1, <1>2 DEF Shapes
<1>6. PICK rc, data : rc = -1 /\ data = << >>
  OBVIOUS
<1>7. /\ Return(rc, data) /\ data \in Str /\ rc \in Int
      /\ ~(rc >= 0) /\ ~(rc > 0)
  BY <1>2, <1>3, <1>6
<1>8. QED
  BY <1>1, <1>2, <1>4, <1>5, <1>7, ReturnKeeps
-----------------------------------------------------------------------------
\* rio_readlineb takes a character, and with the last one returns the line.
LEMMA TakeCharacterKeeps == ASSUME RioInv, TakeCharacter PROVE RioInv'
<1>1. /\ Shapes /\ call = "rio_readlineb" /\ call \in Bufferers
      /\ call # "none" /\ rio_buf # << >>
  BY DEF RioInv, TakeCharacter, Bufferers
<1>2. PICK d, u, b, i :
        d = Delivered /\ u = usrbuf /\ b = rio_buf /\ i = incoming
  OBVIOUS
<1>3. /\ d \in Str /\ u \in Str /\ b \in Str /\ i \in Str
      /\ Len(b) \in Nat /\ Len(u) \in Nat /\ Len(b) # 0 /\ 1 \in 0 .. Len(b)
  BY <1>1, <1>2 DEF Shapes, Str
<1>4. PICK line : line = Append(u, b[1])
  OBVIOUS
<1>5. /\ line \in Str /\ Len(line) = Len(u) + 1 /\ line[Len(u) + 1] = b[1]
      /\ \A j \in 1 .. Len(u) : line[j] = u[j]
  BY <1>3, <1>4 DEF Str
<1>6. line = Cat(u, First(b, 1))
  <2>1. First(b, 1) = << b[1] >>
    <3>1. PICK f : f = First(b, 1)
      OBVIOUS
    <3>2. f \in Str /\ Len(f) = 1 /\ \A j \in 1 .. 1 : f[j] = b[j]
      BY <1>3, <3>1, CutInTwo
    <3>3. f[1] = b[1]
      BY <3>2
    <3>4. f = << b[1] >>
      BY <3>2, <3>3 DEF Str
    <3>5. QED
      BY <3>1, <3>4
  <2>2. b[1] \in Characters
    BY <1>3 DEF Str
  <2>3. Append(u, b[1]) = u \o << b[1] >>
    BY <1>3, <2>2, AppendIsConcat DEF Str
  <2>4. QED
    BY <1>4, <2>1, <2>3 DEF Cat
<1>7. /\ rio_buf' = Rest(b, 1) /\ rio_buf' \in Str
      /\ incoming' \in Str /\ UNCHANGED <<Stream, reset, incoming>>
  BY <1>1, <1>2, <1>3, CutInTwo DEF TakeCharacter, Shapes
<1>8. Joined(d, line, Rest(b, 1), i) = Joined(d, u, b, i)
  BY <1>3, <1>6, JoinTake
<1>9. ~Ended
  BY <1>1 DEF Ended
<1>10. /\ \A j \in 1 .. Len(u) : line[j] # Newline
       /\ Len(u) < MaxLine - 1
  BY <1>1, <1>2, <1>5 DEF RioInv, Unfinished
<1>11. CASE b[1] = Newline \/ Len(line) = MaxLine - 1
  <2>1. PICK rc : rc = Len(line)
    OBVIOUS
  <2>2. /\ Return(rc, line) /\ rc \in Int /\ rc = Len(u) + 1 /\ rc - 1 = Len(u)
    BY <1>2, <1>3, <1>4, <1>5, <1>11, <2>1 DEF TakeCharacter, LineLength
  <2>3. Joined(Cat(d, line), << >>, rio_buf', i) = Joined(d, line, rio_buf', i)
    <3>1. PICK r : r = rio_buf'
      OBVIOUS
    <3>2. r \in Str
      BY <1>7, <3>1
    <3>3. Joined(Cat(d, line), << >>, r, i) = Joined(d, line, r, i)
      BY <1>3, <1>5, <3>2, JoinReturn
    <3>4. QED
      BY <3>1, <3>3
  <2>4. Joined(Cat(Delivered, line), << >>, rio_buf', incoming')
            = Joined(Delivered, usrbuf, rio_buf, incoming)
    BY <1>2, <1>7, <1>8, <2>3
  <2>5. /\ rc = Len(line)
        /\ \A j \in 1 .. rc - 1 : line[j] # Newline
        /\ line[rc] = Newline \/ rc = MaxLine - 1
    BY <1>5, <1>10, <1>11, <2>1, <2>2
  <2>6. QED
    BY <1>1, <1>5, <1>7, <1>9, <2>2, <2>4, <2>5, ReturnKeeps
<1>12. CASE ~(b[1] = Newline \/ Len(line) = MaxLine - 1)
  <2>1. usrbuf' = line /\ call' = call /\ returned' = returned
    BY <1>2, <1>4, <1>12 DEF TakeCharacter
  <2>2. Unfinished'
    <3>1. \A j \in 1 .. Len(line) : j \in 1 .. Len(u) \/ j = Len(u) + 1
      BY <1>3, <1>5
    <3>2. \A j \in 1 .. Len(line) : line[j] # Newline
      BY <1>5, <1>10, <1>12, <3>1
    <3>3. Len(line) < MaxLine - 1
      BY <1>3, <1>5, <1>10, <1>12, SizeAssumption
    <3>4. QED
      BY <1>1, <2>1, <3>2, <3>3 DEF Unfinished
  <2>3. Joined(Delivered, usrbuf', rio_buf', incoming')
            = Joined(Delivered, usrbuf, rio_buf, incoming)
    BY <1>2, <1>7, <1>8, <2>1
  <2>4. usrbuf' \in Str
    BY <1>5, <2>1
  <2>5. QED
    BY <1>1, <1>7, <1>9, <2>1, <2>2, <2>3, <2>4, MoveKeeps
<1>13. QED
  BY <1>11, <1>12

\* What a call has room for is at most what there is.
LEMMA LeastBounds ==
    ASSUME NEW x \in Nat, NEW y \in Nat, NEW k \in Nat, k <= Least(x, y)
    PROVE  k <= x /\ k \in 0 .. y
BY DEF Least

\* The data of a call that is complete.
LEMMA DataKeeps ==
    ASSUME RioInv, call \in {"rio_readnb", "rio_readn"}, NEW got \in Str,
           UNCHANGED <<Stream, reset>>, rio_buf' \in Str, incoming' \in Str,
           call = "rio_readn" => rio_buf' = << >>, ~Ended,
           Joined(Delivered, got, rio_buf', incoming')
                = Joined(Delivered, usrbuf, rio_buf, incoming),
           \/ Return(Len(got), got)
           \/ /\ usrbuf' = got /\ UNCHANGED <<call, returned>>
              /\ Len(got) < MaxLine
    PROVE  RioInv'
<1>1. Shapes /\ call # "none" /\ call # "rio_readlineb"
  BY DEF RioInv
<1>2. call \notin Bufferers => rio_buf' = << >>
  BY DEF Bufferers
<1>3. CASE Return(Len(got), got)
  <2>1. PICK rc : rc = Len(got)
    OBVIOUS
  <2>2. rc \in Int /\ Return(rc, got)
    BY <1>3, <2>1 DEF Str
  <2>3. Joined(Cat(Delivered, got), << >>, rio_buf', incoming')
            = Joined(Delivered, usrbuf, rio_buf, incoming)
    <3>1. PICK d, r, i : d = Delivered /\ r = rio_buf' /\ i = incoming'
      OBVIOUS
    <3>2. Joined(Cat(d, got), << >>, r, i) = Joined(d, got, r, i)
      BY <1>1, <3>1, JoinReturn DEF Shapes
    <3>3. QED
      BY <3>1, <3>2
  <2>4. QED
    BY <1>1, <1>2, <2>2, <2>3, ReturnKeeps
<1>4. CASE /\ usrbuf' = got /\ UNCHANGED <<call, returned>>
           /\ Len(got) < MaxLine
  <2>1. Unfinished'
    BY <1>1, <1>4 DEF Unfinished
  <2>2. QED
    BY <1>1, <1>2, <1>4, <2>1, MoveKeeps
<1>5. QED
  BY <1>3, <1>4

\* rio_readnb takes what the buffer has of what it still wants.
LEMMA TakeBytesKeeps == ASSUME RioInv, TakeBytes PROVE RioInv'
<1>1. Shapes /\ call = "rio_readnb" /\ rio_buf # << >>
  BY DEF RioInv, TakeBytes
<1>2. PICK d, u, b, i :
        d = Delivered /\ u = usrbuf /\ b = rio_buf /\ i = incoming
  OBVIOUS
<1>3. /\ d \in Str /\ u \in Str /\ b \in Str /\ i \in Str
      /\ Len(b) \in Nat /\ Len(u) \in Nat /\ Len(u) < MaxLine
  BY <1>1, <1>2 DEF Shapes, Str, RioInv, Unfinished
<1>4. PICK k : k = Least(MaxLine - Len(u), Len(b))
  OBVIOUS
<1>5. k \in Nat /\ k <= MaxLine - Len(u) /\ k \in 0 .. Len(b)
  <2>1. PICK m, n \in Nat : m = Len(u) /\ n = Len(b)
    BY <1>3
  <2>2. MaxLine - m \in Nat
    BY <1>3, <2>1, SizeAssumption
  <2>3. Least(MaxLine - m, n) \in Nat
    BY <2>2 DEF Least
  <2>4. k \in Nat /\ k <= Least(MaxLine - m, n)
    BY <1>4, <2>1, <2>3
  <2>5. QED
    BY <2>1, <2>2, <2>4, LeastBounds
<1>6. PICK got : got = Cat(u, First(b, k))
  OBVIOUS
<1>7. /\ First(b, k) \in Str /\ Rest(b, k) \in Str /\ Len(First(b, k)) = k
      /\ got \in Str /\ Len(got) = Len(u) + k /\ Len(got) <= MaxLine
  <2>1. /\ First(b, k) \in Str /\ Rest(b, k) \in Str /\ Len(First(b, k)) = k
    BY <1>3, <1>5, CutInTwo
  <2>2. got \in Str /\ Len(got) = Len(u) + k
    <3>1. PICK f : f = First(b, k)
      OBVIOUS
    <3>2. Cat(u, f) \in Str /\ Len(Cat(u, f)) = Len(u) + Len(f)
      BY <1>3, <2>1, <3>1, CatType
    <3>3. QED
      BY <1>6, <2>1, <3>1, <3>2
  <2>3. QED
    BY <1>3, <1>5, <2>1, <2>2, SizeAssumption
<1>8. /\ rio_buf' = Rest(b, k) /\ UNCHANGED <<Stream, reset, incoming>>
      /\ IF Len(got) = MaxLine
           THEN Return(Len(got), got)
           ELSE usrbuf' = got /\ UNCHANGED <<call, returned>>
  BY <1>2, <1>4, <1>6 DEF TakeBytes, LeftInBuffer, Cat
<1>9. Joined(d, got, Rest(b, k), i) = Joined(d, u, b, i)
  BY <1>3, <1>5, <1>6, JoinTake
<1>10. Joined(Delivered, got, rio_buf', incoming')
            = Joined(Delivered, usrbuf, rio_buf, incoming)
  BY <1>2, <1>8, <1>9
<1>11. rio_buf' \in Str /\ incoming' \in Str /\ ~Ended
  BY <1>1, <1>2, <1>3, <1>7, <1>8 DEF Ended
<1>12. \/ Return(Len(got), got)
       \/ /\ usrbuf' = got /\ UNCHANGED <<call, returned>>
          /\ Len(got) < MaxLine
  <2>1. Len(got) = MaxLine \/ Len(got) < MaxLine
    BY <1>3, <1>5, <1>7, SizeAssumption
  <2>2. QED
    BY <1>8, <2>1
<1>13. QED
  BY <1>1, <1>7, <1>8, <1>10, <1>11, <1>12, DataKeeps

\* rio_readn takes what has come of what it still wants.
LEMMA ReadDirectKeeps == ASSUME RioInv, ReadDirect PROVE RioInv'
<1>1. Shapes /\ call = "rio_readn" /\ rio_buf = << >>
  BY DEF RioInv, ReadDirect, BufferUsed
<1>2. PICK d, u, i : d = Delivered /\ u = usrbuf /\ i = incoming
  OBVIOUS
<1>3. /\ d \in Str /\ u \in Str /\ i \in Str /\ << >> \in Str
      /\ Len(i) \in Nat /\ Len(u) \in Nat /\ Len(u) < MaxLine
  BY <1>1, <1>2, EmptySeq DEF Shapes, Str, RioInv, Unfinished
<1>4. PICK k \in 1 .. Least(MaxLine - Len(u), Len(i)) :
        LET got == u \o First(i, k) IN
        /\ incoming' = Rest(i, k)
        /\ IF Len(got) = MaxLine
             THEN Return(Len(got), got)
             ELSE usrbuf' = got /\ UNCHANGED <<call, returned>>
  BY <1>2 DEF ReadDirect
<1>5. k \in Nat /\ k <= MaxLine - Len(u) /\ k \in 0 .. Len(i) /\ Len(i) # 0
  <2>1. PICK m, n \in Nat : m = Len(u) /\ n = Len(i)
    BY <1>3
  <2>2. MaxLine - m \in Nat
    BY <1>3, <2>1, SizeAssumption
  <2>3. Least(MaxLine - m, n) \in Nat
    BY <2>2 DEF Least
  <2>4. k \in 1 .. Least(MaxLine - m, n)
    BY <1>4, <2>1
  <2>5. k \in Nat /\ k # 0 /\ k <= Least(MaxLine - m, n)
    BY <2>3, <2>4
  <2>6. k <= MaxLine - m /\ k \in 0 .. n
    BY <2>2, <2>5, LeastBounds
  <2>7. QED
    BY <2>1, <2>5, <2>6
<1>6. PICK got : got = Cat(u, First(i, k))
  OBVIOUS
<1>7. /\ First(i, k) \in Str /\ Rest(i, k) \in Str /\ Len(First(i, k)) = k
      /\ got \in Str /\ Len(got) = Len(u) + k /\ Len(got) <= MaxLine
  <2>1. /\ First(i, k) \in Str /\ Rest(i, k) \in Str /\ Len(First(i, k)) = k
    BY <1>3, <1>5, CutInTwo
  <2>2. got \in Str /\ Len(got) = Len(u) + k
    <3>1. PICK f : f = First(i, k)
      OBVIOUS
    <3>2. Cat(u, f) \in Str /\ Len(Cat(u, f)) = Len(u) + Len(f)
      BY <1>3, <2>1, <3>1, CatType
    <3>3. QED
      BY <1>6, <2>1, <3>1, <3>2
  <2>3. QED
    BY <1>3, <1>5, <2>1, <2>2, SizeAssumption
<1>8. /\ incoming' = Rest(i, k) /\ UNCHANGED <<Stream, reset, rio_buf>>
      /\ IF Len(got) = MaxLine
           THEN Return(Len(got), got)
           ELSE usrbuf' = got /\ UNCHANGED <<call, returned>>
  BY <1>4, <1>6 DEF ReadDirect, Cat
<1>9. Joined(d, got, << >>, Rest(i, k)) = Joined(d, u, << >>, i)
  BY <1>3, <1>5, <1>6, JoinRead
<1>10. Joined(Delivered, got, rio_buf', incoming')
            = Joined(Delivered, usrbuf, rio_buf, incoming)
  BY <1>1, <1>2, <1>8, <1>9
<1>11. ~Ended
  BY <1>2, <1>5 DEF Ended, Eof
<1>12. /\ rio_buf' \in Str /\ incoming' \in Str /\ rio_buf' = << >>
  BY <1>1, <1>3, <1>7, <1>8
<1>13. \/ Return(Len(got), got)
       \/ /\ usrbuf' = got /\ UNCHANGED <<call, returned>>
          /\ Len(got) < MaxLine
  <2>1. Len(got) = MaxLine \/ Len(got) < MaxLine
    BY <1>3, <1>5, <1>7, SizeAssumption
  <2>2. QED
    BY <1>8, <2>1
<1>14. QED
  BY <1>1, <1>7, <1>8, <1>10, <1>11, <1>12, <1>13, DataKeeps

\* A call that has moved all it can returns that, or an error.
LEMMA AllReturned ==
    ASSUME RioInv, call \in {"rio_readn", "rio_writen"},
           NEW rc \in Int, NEW data \in Str, Return(rc, data),
           UNCHANGED <<Stream, reset, incoming, rio_buf>>,
           rc < 0 \/ data = usrbuf
    PROVE  RioInv'
<1>1. /\ Shapes /\ call # "none" /\ call # "rio_readlineb"
      /\ rio_buf = << >>
  BY DEF RioInv, BufferUsed
<1>2. rio_buf' \in Str /\ incoming' \in Str /\ rio_buf' = << >>
  BY <1>1 DEF Shapes
<1>3. Ended => Ended'
  BY DEF Ended, Eof
<1>4. rc >= 0 => Joined(Cat(Delivered, data), << >>, rio_buf', incoming')
                    = Joined(Delivered, usrbuf, rio_buf, incoming)
  <2>1. PICK d, u, b, i :
            d = Delivered /\ u = usrbuf /\ b = rio_buf /\ i = incoming
    OBVIOUS
  <2>2. Joined(Cat(d, u), << >>, b, i) = Joined(d, u, b, i)
    BY <1>1, <2>1, JoinReturn DEF Shapes
  <2>3. rc >= 0 => data = u
    BY <2>1
  <2>4. QED
    BY <2>1, <2>2, <2>3
<1>5. QED
  BY <1>1, <1>2, <1>3, <1>4, ReturnKeeps

\* rio_readn at the end of the stream.
LEMMA ReadDirectEndKeeps == ASSUME RioInv, ReadDirectEnd PROVE RioInv'
<1>1. Shapes /\ << >> \in Str /\ usrbuf \in Str /\ Len(usrbuf) \in Int
  BY EmptySeq DEF RioInv, Shapes, Str
<1>2. PICK rc, data :
        /\ Return(rc, data)
        /\ rc = IF reset THEN -1 ELSE Len(usrbuf)
        /\ data = IF reset THEN << >> ELSE usrbuf
  BY DEF ReadDirectEnd
<1>3. rc \in Int /\ data \in Str /\ (rc < 0 \/ data = usrbuf)
  BY <1>1, <1>2
<1>4. QED
  BY <1>2, <1>3, AllReturned DEF ReadDirectEnd

\* rio_writen sends the beginning of what is left to send.
LEMMA WriteKeeps == ASSUME RioInv, Write PROVE RioInv'
<1>1. Shapes /\ call = "rio_writen" /\ rio_buf = << >>
  BY DEF RioInv, Write, BufferUsed
<1>2. PICK d, u, i : d = Delivered /\ u = usrbuf /\ i = incoming
  OBVIOUS
<1>3. /\ d \in Str /\ u \in Str /\ i \in Str /\ << >> \in Str
      /\ Len(i) \in Nat
  BY <1>1, <1>2, EmptySeq DEF Shapes, Str
<1>4. PICK k \in 1 .. Len(i) :
        incoming' = Rest(i, k) /\ usrbuf' = Cat(u, First(i, k))
  BY <1>2 DEF Write, Cat
<1>5. k \in 0 .. Len(i) /\ Len(i) # 0
  BY <1>3, <1>4
<1>6. First(i, k) \in Str /\ Rest(i, k) \in Str
  BY <1>3, <1>5, CutInTwo
<1>7. Cat(u, First(i, k)) \in Str
  BY <1>3, <1>6, CatType
<1>8. /\ UNCHANGED <<Stream, reset, rio_buf, call, returned>>
      /\ rio_buf' = << >> /\ call # "none"
  BY <1>1 DEF Write
<1>9. Joined(d, Cat(u, First(i, k)), << >>, Rest(i, k))
        = Joined(d, u, << >>, i)
  BY <1>3, <1>5, JoinRead
<1>10. Joined(Delivered, usrbuf', rio_buf', incoming')
            = Joined(Delivered, usrbuf, rio_buf, incoming)
  BY <1>1, <1>2, <1>4, <1>8, <1>9
<1>11. ~Ended
  BY <1>2, <1>5 DEF Ended, Eof
<1>12. Unfinished'
  BY <1>1, <1>8 DEF Unfinished
<1>13. rio_buf' \in Str /\ usrbuf' \in Str /\ incoming' \in Str
  BY <1>3, <1>4, <1>6, <1>7, <1>8
<1>14. QED
  BY <1>8, <1>10, <1>11, <1>12, <1>13, MoveKeeps

\* rio_writen returns the number it was asked to send, or an error.
LEMMA WriteEndKeeps ==
    ASSUME RioInv, WriteReturns \/ WriteFails
    PROVE  RioInv'
<1>1. Shapes /\ usrbuf \in Str /\ Stream \in Str /\ Len(Stream) \in Int
  BY DEF RioInv, Shapes, Str
<1>2. PICK rc \in Int : Return(rc, usrbuf)
  BY <1>1 DEF WriteReturns, WriteFails
<1>3. /\ call \in {"rio_readn", "rio_writen"}
      /\ UNCHANGED <<Stream, reset, incoming, rio_buf>>
  BY DEF WriteReturns, WriteFails
<1>4. PICK data : data = usrbuf
  OBVIOUS
<1>5. data \in Str /\ Return(rc, data) /\ (rc < 0 \/ data = usrbuf)
  BY <1>1, <1>2, <1>4
<1>6. QED
  BY <1>3, <1>5, AllReturned

-----------------------------------------------------------------------------
(* The theorems.                                                             *)

LEMMA InvNext == RioInv /\ [Next]_vars => RioInv'
<1> SUFFICES ASSUME RioInv, [Next]_vars PROVE RioInv'
  OBVIOUS
<1>1. CASE (\E f \in Readers : Call(f)) \/ CallWrite
  BY <1>1, CallKeeps
<1>2. CASE Interrupted \/ UNCHANGED vars
  BY <1>2, InterruptKeeps
<1>3. CASE Refill
  BY <1>3, RefillKeeps
<1>4. CASE ReadEof
  BY <1>4, ReadEofKeeps
<1>5. CASE ReadError
  BY <1>5, ReadErrorKeeps
<1>6. CASE TakeCharacter
  BY <1>6, TakeCharacterKeeps
<1>7. CASE TakeBytes
  BY <1>7, TakeBytesKeeps
<1>8. CASE ReadDirect
  BY <1>8, ReadDirectKeeps
<1>9. CASE ReadDirectEnd
  BY <1>9, ReadDirectEndKeeps
<1>10. CASE Write
  BY <1>10, WriteKeeps
<1>11. CASE WriteReturns \/ WriteFails
  BY <1>11, WriteEndKeeps
<1>12. QED
  BY <1>1, <1>2, <1>3, <1>4, <1>5, <1>6, <1>7, <1>8, <1>9, <1>10, <1>11
  DEF Next, Step

\* The invariant of the robust I/O package holds for every stream, buffer size
\* and length of a call (rio_read, rio_readlineb, rio_readnb, rio_readn,
\* rio_writen).
THEOREM RioInvariant == Spec => []RioInv
<1>1. QED
  BY InitInv, InvNext, PTL DEF Spec

\* However the kernel cuts what it delivers and takes, the calls of the package
\* deliver the stream in order, nothing twice and nothing left out, and a line
\* is a line (rio_read, rio_readlineb, rio_readnb, rio_readn, rio_writen).
THEOREM StreamIsWhole == Spec => []NothingLostOrRepeated
<1>1. QED
  BY RioInvariant, InvEnough, PTL
=============================================================================
