------------------------ MODULE TransportsTalkProofs ------------------------
(***************************************************************************)
(* Proof that LinuxSerialSocket and LinuxTelnetSocket keep in step with    *)
(* the bridge, and that every build hands Core its messages under the      *)
(* address they came from.  The inductive invariant (Conversing) ties the  *)
(* place in the script of the call under way to what is on the line and    *)
(* to the state of the bridge: at each place an answer of the call before  *)
(* would be taken for one of this call, so none may be left.  Faults, of   *)
(* which there may be any number, only lose lines, garble them or add an   *)
(* OK IDLE (Storm), and what the invariant says of the line survives that. *)
(* With what is known of the line and of the other parts follow the types. *)
(***************************************************************************)
EXTENDS TransportsLineProofs, FiniteSetTheorems

-----------------------------------------------------------------------------
(* What is on the line *)

\* A line that no wait and no read takes for an answer: what a bridge says that restarts, and
\* what has been garbled.
Junk(l) == l = Serial!OK("IDLE") \/ l[2] = Serial!Bad
AllJunk(s) == \A i \in 1..Len(s) : Junk(s[i])

\* Nothing but junk follows the line OK what; nothing but junk follows the OK IDLE after it.
Clean(s, what) == \A i, j \in 1..Len(s) : i < j /\ s[i] = Serial!OK(what) => Junk(s[j])
Framed(s, what) ==
    \A i, j, k \in 1..Len(s) : i < j /\ j < k /\ s[i] = Serial!OK(what) /\ s[j] = Serial!OK("IDLE") => Junk(s[k])

\* The address and the payload on the line are those of message m.
OfOne(s, m) ==
    \A i \in 1..Len(s) : /\ s[i][1] = "ADDRESS" => s[i][2] \in {m[1], Serial!Bad}
                         /\ s[i][1] = "DATA" => s[i][2] \in {m[2], Serial!Bad}

Has(s, what) == \E i \in 1..Len(s) : s[i] = Serial!OK(what)

\* Lines are lost, read or garbled: those that are left are in their order.
Thins(s, r) ==
    \E h \in [1..Len(r) -> 1..Len(s)] :
        /\ \A i, j \in 1..Len(r) : i < j => h[i] < h[j]
        /\ \A i \in 1..Len(r) : r[i] = s[h[i]] \/ r[i][2] = Serial!Bad

\* Lines are lost, read or garbled, or the bridge restarts.
Weathers(s, r) == Thins(s, r) \/ r = Append(s, Serial!OK("IDLE"))

\* Nothing is lost.
LEMMA ThinSame == ASSUME NEW s \in Seq(Lines) PROVE Thins(s, s)
<1> DEFINE h == [i \in 1..Len(s) |-> i]
<1>1. h \in [1..Len(s) -> 1..Len(s)]
  OBVIOUS
<1>2. \A i, j \in 1..Len(s) : i < j => h[i] < h[j]
  OBVIOUS
<1>3. \A i \in 1..Len(s) : s[i] = s[h[i]]
  OBVIOUS
<1> QED  BY <1>1, <1>2, <1>3 DEF Thins

\* The first line is read.
LEMMA ThinTail == ASSUME NEW s \in Seq(Lines), s # <<>> PROVE Thins(s, Tail(s))
<1> DEFINE r == Tail(s)
<1>0. /\ Len(s) \in Nat /\ Len(r) = Len(s) - 1 /\ Len(s) >= 1
      /\ \A i \in 1..(Len(s) - 1) : r[i] = s[i + 1]
  BY QueueTail
<1> HIDE DEF r
<1> DEFINE h == [i \in 1..Len(r) |-> i + 1]
<1>1. h \in [1..Len(r) -> 1..Len(s)]
  BY <1>0
<1>2. \A i, j \in 1..Len(r) : i < j => h[i] < h[j]
  BY <1>0
<1>3. \A i \in 1..Len(r) : r[i] = s[h[i]]
  BY <1>0
<1>4. Thins(s, r)
  BY <1>1, <1>2, <1>3 DEF Thins
<1> QED  BY <1>4 DEF r

\* A line is lost, wherever it is.
LEMMA ThinRemove ==
  ASSUME NEW s \in Seq(Lines), NEW p \in DOMAIN s
  PROVE  Thins(s, Serial!RemoveAt(s, p))
<1> DEFINE a == SubSeq(s, 1, p - 1)
           b == SubSeq(s, p + 1, Len(s))
           r == a \o b
<1>0. p \in 1..Len(s) /\ Len(s) \in Nat /\ p \in Nat
  OBVIOUS
<1>m. \A i \in 1..Len(s) : s[i] \in Lines
  OBVIOUS
<1>a. a \in Seq(Lines) /\ Len(a) = p - 1 /\ \A i \in 1..(p - 1) : a[i] = s[i]
  <2>1. \A i \in 1..(p - 1) : s[i] \in Lines
    BY <1>0, <1>m
  <2>2. Len(a) = IF 1 <= p - 1 THEN (p - 1) - 1 + 1 ELSE 0
    BY <1>0, <2>1, SubSeqProperties
  <2>3. a \in Seq(Lines) /\ \A i \in 1..((p - 1) - 1 + 1) : a[i] = s[1 + i - 1]
    BY <1>0, <2>1, SubSeqProperties
  <2> QED  BY <1>0, <2>2, <2>3
<1>b. b \in Seq(Lines) /\ Len(b) = Len(s) - p /\ \A i \in 1..(Len(s) - p) : b[i] = s[p + i]
  <2>1. \A i \in (p + 1)..Len(s) : s[i] \in Lines
    BY <1>0, <1>m
  <2>2. Len(b) = IF p + 1 <= Len(s) THEN Len(s) - (p + 1) + 1 ELSE 0
    BY <1>0, <2>1, SubSeqProperties
  <2>3. b \in Seq(Lines) /\ \A i \in 1..(Len(s) - (p + 1) + 1) : b[i] = s[p + 1 + i - 1]
    BY <1>0, <2>1, SubSeqProperties
  <2> QED  BY <1>0, <2>2, <2>3
<1> HIDE DEF a, b
<1>r. /\ Len(r) = Len(a) + Len(b)
      /\ \A i \in 1..(Len(a) + Len(b)) : r[i] = IF i <= Len(a) THEN a[i] ELSE b[i - Len(a)]
  BY <1>a, <1>b, ConcatProperties
<1> HIDE DEF r
<1>s. Len(r) = Len(s) - 1 /\ \A i \in 1..(Len(s) - 1) : r[i] = IF i < p THEN s[i] ELSE s[i + 1]
  <2>1. Len(r) = Len(s) - 1
    BY <1>0, <1>a, <1>b, <1>r
  <2>2. ASSUME NEW i \in 1..(Len(s) - 1) PROVE r[i] = IF i < p THEN s[i] ELSE s[i + 1]
    <3>l. Len(a) = p - 1 /\ Len(b) = Len(s) - p
      BY <1>a, <1>b
    <3>i. i \in 1..((p - 1) + (Len(s) - p))
      BY <1>0
    <3>r. \A k \in 1..((p - 1) + (Len(s) - p)) : r[k] = IF k <= p - 1 THEN a[k] ELSE b[k - (p - 1)]
      BY <1>r, <3>l
    <3>1. r[i] = IF i <= p - 1 THEN a[i] ELSE b[i - (p - 1)]
      BY <3>i, <3>r
    <3>2. CASE i < p
      BY <1>0, <1>a, <3>1, <3>2
    <3>3. CASE ~(i < p)
      <4>1. i - (p - 1) \in 1..(Len(s) - p) /\ ~(i <= p - 1) /\ p + (i - (p - 1)) = i + 1
        BY <1>0, <3>3
      <4> QED  BY <1>b, <3>1, <3>3, <4>1
    <3> QED  BY <3>2, <3>3
  <2> QED  BY <2>1, <2>2
<1> DEFINE h == [i \in 1..Len(r) |-> IF i < p THEN i ELSE i + 1]
<1>1. h \in [1..Len(r) -> 1..Len(s)]
  BY <1>0, <1>s
<1>2. \A i, j \in 1..Len(r) : i < j => h[i] < h[j]
  BY <1>0, <1>s
<1>3. \A i \in 1..Len(r) : r[i] = s[h[i]]
  BY <1>0, <1>s
<1>4. Thins(s, r)
  BY <1>1, <1>2, <1>3 DEF Thins
<1> QED  BY <1>4 DEF r, a, b, Serial!RemoveAt

\* A line is garbled, wherever it is.
LEMMA ThinGarble ==
  ASSUME NEW s \in Seq(Lines), NEW p \in DOMAIN s, NEW l, l[2] = Serial!Bad
  PROVE  Thins(s, [s EXCEPT ![p] = l])
<1> DEFINE r == [s EXCEPT ![p] = l]
<1>0. /\ p \in 1..Len(s) /\ Len(s) \in Nat /\ DOMAIN s = 1..Len(s)
  OBVIOUS
<1>l. Len(r) = Len(s) /\ \A i \in 1..Len(s) : r[i] = IF i = p THEN l ELSE s[i]
  <2>1. DOMAIN r = 1..Len(s) /\ \A i \in 1..Len(s) : r[i] = IF i = p THEN l ELSE s[i]
    BY <1>0
  <2>2. r \in Seq(Lines \cup {l})
    <3>1. s \in Seq(Lines \cup {l})
      OBVIOUS
    <3> QED  BY <3>1, ExceptSeq
  <2>3. Len(r) = Len(s)
    BY <1>0, <2>1, <2>2
  <2> QED  BY <2>1, <2>3
<1> HIDE DEF r
<1> DEFINE h == [i \in 1..Len(r) |-> i]
<1>1. h \in [1..Len(r) -> 1..Len(s)] /\ \A i, j \in 1..Len(r) : i < j => h[i] < h[j]
  BY <1>0, <1>l
<1>2. \A i \in 1..Len(r) : r[i] = s[h[i]] \/ r[i][2] = Serial!Bad
  BY <1>l
<1>3. Thins(s, r)
  BY <1>1, <1>2 DEF Thins
<1> QED  BY <1>3 DEF r

\* What is said of the lines still holds of those that are left.
LEMMA ThinKeeps ==
  ASSUME NEW s \in Seq(Lines), NEW r \in Seq(Lines), Thins(s, r)
  PROVE  /\ AllJunk(s) => AllJunk(r)
         /\ \A what : what # Serial!Bad /\ Clean(s, what) => Clean(r, what)
         /\ \A what : what # Serial!Bad /\ Framed(s, what) => Framed(r, what)
         /\ \A m : OfOne(s, m) => OfOne(r, m)
         /\ \A what : what # Serial!Bad /\ Has(r, what) => Has(s, what)
<1>1. PICK h \in [1..Len(r) -> 1..Len(s)] :
        /\ \A i, j \in 1..Len(r) : i < j => h[i] < h[j]
        /\ \A i \in 1..Len(r) : r[i] = s[h[i]] \/ r[i][2] = Serial!Bad
  BY DEF Thins
<1>h. \A i \in 1..Len(r) : h[i] \in 1..Len(s)
  OBVIOUS
<1>j. \A i \in 1..Len(r) : Junk(s[h[i]]) => Junk(r[i])
  BY <1>1 DEF Junk
<1>o. ASSUME NEW what, what # Serial!Bad, NEW i \in 1..Len(r), r[i] = Serial!OK(what) PROVE s[h[i]] = Serial!OK(what)
  <2>1. r[i][2] # Serial!Bad
    BY <1>o DEF Serial!OK
  <2> QED  BY <1>1, <1>o, <2>1
<1>2. AllJunk(s) => AllJunk(r)
  BY <1>h, <1>j DEF AllJunk
<1>3. ASSUME NEW what, what # Serial!Bad, Clean(s, what) PROVE Clean(r, what)
  <2> SUFFICES ASSUME NEW i \in 1..Len(r), NEW j \in 1..Len(r), i < j, r[i] = Serial!OK(what) PROVE Junk(r[j])
    BY DEF Clean
  <2>1. s[h[i]] = Serial!OK(what)
    BY <1>3, <1>o
  <2>2. h[i] < h[j]
    BY <1>1
  <2>3. Junk(s[h[j]])
    BY <1>3, <1>h, <2>1, <2>2 DEF Clean
  <2> QED  BY <1>j, <2>3
<1>4. ASSUME NEW what, what # Serial!Bad, Framed(s, what) PROVE Framed(r, what)
  <2> SUFFICES ASSUME NEW i \in 1..Len(r), NEW j \in 1..Len(r), NEW k \in 1..Len(r), i < j, j < k,
                      r[i] = Serial!OK(what), r[j] = Serial!OK("IDLE")
               PROVE  Junk(r[k])
    BY DEF Framed
  <2>1. s[h[i]] = Serial!OK(what)
    BY <1>4, <1>o
  <2>2. s[h[j]] = Serial!OK("IDLE")
    BY <1>o DEF Serial!Bad
  <2>3. h[i] < h[j] /\ h[j] < h[k]
    BY <1>1
  <2>4. Junk(s[h[k]])
    BY <1>4, <1>h, <2>1, <2>2, <2>3 DEF Framed
  <2> QED  BY <1>j, <2>4
<1>5. ASSUME NEW m, OfOne(s, m) PROVE OfOne(r, m)
  BY <1>1, <1>5, <1>h DEF OfOne
<1>6. ASSUME NEW what, what # Serial!Bad, Has(r, what) PROVE Has(s, what)
  BY <1>6, <1>h, <1>o DEF Has
<1> QED  BY <1>2, <1>3, <1>4, <1>5, <1>6

\* The lines that were there, and lines after them.
LEMMA LinesJoined ==
  ASSUME NEW s \in Seq(Lines), NEW t \in Seq(Lines)
  PROVE  /\ s \o t \in Seq(Lines) /\ Len(s \o t) = Len(s) + Len(t) /\ Len(s) \in Nat /\ Len(t) \in Nat
         /\ \A i \in 1..Len(s) : (s \o t)[i] = s[i]
         /\ \A i \in 1..Len(s \o t) : ~(i \in 1..Len(s)) => i - Len(s) \in 1..Len(t) /\ (s \o t)[i] = t[i - Len(s)]
<1> DEFINE r == s \o t
<1>1. /\ r \in Seq(Lines) /\ Len(r) = Len(s) + Len(t) /\ Len(s) \in Nat /\ Len(t) \in Nat
      /\ \A i \in 1..(Len(s) + Len(t)) : r[i] = IF i <= Len(s) THEN s[i] ELSE t[i - Len(s)]
  BY ConcatProperties
<1> HIDE DEF r
<1>2. \A i \in 1..Len(s) : r[i] = s[i]
  BY <1>1
<1>3. \A i \in 1..Len(r) : ~(i \in 1..Len(s)) => i - Len(s) \in 1..Len(t) /\ r[i] = t[i - Len(s)]
  BY <1>1
<1>4. /\ r \in Seq(Lines) /\ Len(r) = Len(s) + Len(t) /\ Len(s) \in Nat /\ Len(t) \in Nat
  BY <1>1
<1> QED  BY <1>2, <1>3, <1>4 DEF r

\* What is said of an answer holds of the line if there was only junk before it.
LEMMA JoinKeeps ==
  ASSUME NEW s \in Seq(Lines), NEW t \in Seq(Lines), AllJunk(s)
  PROVE  /\ AllJunk(t) => AllJunk(s \o t)
         /\ \A what : what \notin {Serial!Bad, "IDLE"} /\ Clean(t, what) => Clean(s \o t, what)
         /\ \A what : what \notin {Serial!Bad, "IDLE"} /\ Framed(t, what) => Framed(s \o t, what)
         /\ \A m : OfOne(t, m) => OfOne(s \o t, m)
         /\ \A what : what \notin {Serial!Bad, "IDLE"} /\ Has(s \o t, what) => Has(t, what)
<1> DEFINE r == s \o t
<1>1. /\ r \in Seq(Lines) /\ Len(r) = Len(s) + Len(t) /\ Len(s) \in Nat /\ Len(t) \in Nat
      /\ \A i \in 1..Len(s) : r[i] = s[i]
      /\ \A i \in 1..Len(r) : ~(i \in 1..Len(s)) => i - Len(s) \in 1..Len(t) /\ r[i] = t[i - Len(s)]
  BY LinesJoined
<1> HIDE DEF r
<1>j. \A i \in 1..Len(s) : Junk(r[i])
  BY <1>1 DEF AllJunk
<1>o. ASSUME NEW what, what \notin {Serial!Bad, "IDLE"}, NEW i \in 1..Len(r), r[i] = Serial!OK(what)
      PROVE  i - Len(s) \in 1..Len(t) /\ r[i] = t[i - Len(s)] /\ i > Len(s)
  <2>1. ~Junk(r[i])
    BY <1>o DEF Junk, Serial!OK
  <2>2. ~(i \in 1..Len(s))
    BY <1>j, <2>1
  <2>3. i > Len(s)
    BY <1>1, <2>2
  <2> QED  BY <1>1, <2>2, <2>3
<1>l. \A i \in 1..Len(r) : i > Len(s) => i - Len(s) \in 1..Len(t) /\ r[i] = t[i - Len(s)]
  <2>1. \A i \in 1..Len(r) : i > Len(s) => ~(i \in 1..Len(s))
    BY <1>1
  <2>2. \A i \in 1..Len(r) : ~(i \in 1..Len(s)) => i - Len(s) \in 1..Len(t) /\ r[i] = t[i - Len(s)]
    BY <1>1
  <2> QED  BY <2>1, <2>2
<1>2. AllJunk(t) => AllJunk(r)
  BY <1>1, <1>j DEF AllJunk
<1>3. ASSUME NEW what, what \notin {Serial!Bad, "IDLE"}, Clean(t, what) PROVE Clean(r, what)
  <2> SUFFICES ASSUME NEW i \in 1..Len(r), NEW j \in 1..Len(r), i < j, r[i] = Serial!OK(what) PROVE Junk(r[j])
    BY DEF Clean
  <2>1. i - Len(s) \in 1..Len(t) /\ r[i] = t[i - Len(s)] /\ i > Len(s)
    BY <1>3, <1>o
  <2>2. j - Len(s) \in 1..Len(t) /\ r[j] = t[j - Len(s)] /\ i - Len(s) < j - Len(s)
    BY <1>1, <1>l, <2>1
  <2> QED  BY <1>3, <2>1, <2>2 DEF Clean
<1>4. ASSUME NEW what, what \notin {Serial!Bad, "IDLE"}, Framed(t, what) PROVE Framed(r, what)
  <2> SUFFICES ASSUME NEW i \in 1..Len(r), NEW j \in 1..Len(r), NEW k \in 1..Len(r), i < j, j < k,
                      r[i] = Serial!OK(what), r[j] = Serial!OK("IDLE")
               PROVE  Junk(r[k])
    BY DEF Framed
  <2>1. i - Len(s) \in 1..Len(t) /\ r[i] = t[i - Len(s)] /\ i > Len(s)
    BY <1>4, <1>o
  <2>2. j - Len(s) \in 1..Len(t) /\ r[j] = t[j - Len(s)] /\ i - Len(s) < j - Len(s) /\ j > Len(s)
    BY <1>1, <1>l, <2>1
  <2>3. k - Len(s) \in 1..Len(t) /\ r[k] = t[k - Len(s)] /\ j - Len(s) < k - Len(s)
    BY <1>1, <1>l, <2>2
  <2> QED  BY <1>4, <2>1, <2>2, <2>3 DEF Framed
<1>5. ASSUME NEW m, OfOne(t, m) PROVE OfOne(r, m)
  <2> SUFFICES ASSUME NEW i \in 1..Len(r)
               PROVE  /\ r[i][1] = "ADDRESS" => r[i][2] \in {m[1], Serial!Bad}
                      /\ r[i][1] = "DATA" => r[i][2] \in {m[2], Serial!Bad}
    BY DEF OfOne
  <2>1. CASE i \in 1..Len(s)
    BY <1>j, <2>1 DEF Junk, Serial!OK
  <2>2. CASE ~(i \in 1..Len(s))
    BY <1>1, <1>5, <2>2 DEF OfOne
  <2> QED  BY <2>1, <2>2
<1>6. ASSUME NEW what, what \notin {Serial!Bad, "IDLE"}, Has(r, what) PROVE Has(t, what)
  BY <1>6, <1>o DEF Has
<1>7. /\ AllJunk(t) => AllJunk(r)
      /\ \A what : what \notin {Serial!Bad, "IDLE"} /\ Clean(t, what) => Clean(r, what)
      /\ \A what : what \notin {Serial!Bad, "IDLE"} /\ Framed(t, what) => Framed(r, what)
      /\ \A m : OfOne(t, m) => OfOne(r, m)
      /\ \A what : what \notin {Serial!Bad, "IDLE"} /\ Has(r, what) => Has(t, what)
  BY <1>2, <1>3, <1>4, <1>5, <1>6
<1> QED  BY <1>7 DEF r

\* A bridge that restarts adds junk.
LEMMA RestartKeeps ==
  ASSUME NEW s \in Seq(Lines), NEW r, r = Append(s, Serial!OK("IDLE"))
  PROVE  /\ r \in Seq(Lines)
         /\ AllJunk(s) => AllJunk(r)
         /\ \A what : Clean(s, what) => Clean(r, what)
         /\ \A what : Framed(s, what) => Framed(r, what)
         /\ \A m : OfOne(s, m) => OfOne(r, m)
         /\ \A what : what # "IDLE" /\ Has(r, what) => Has(s, what)
<1>0. Serial!OK("IDLE") \in Lines
  BY DEF Serial!OK, Lines, Keywords, ConfigFields, MessageFields, AddressFields, Arguments
<1>1. /\ r \in Seq(Lines) /\ Len(r) = Len(s) + 1 /\ Len(s) \in Nat
      /\ \A i \in 1..Len(s) : r[i] = s[i]
      /\ r[Len(s) + 1] = Serial!OK("IDLE")
  BY <1>0, QueueAppend
<1>i. \A i \in 1..Len(r) : i \in 1..Len(s) \/ (i = Len(r) /\ r[i] = Serial!OK("IDLE") /\ Junk(r[i]))
  BY <1>1 DEF Junk
<1>l. \A i, j \in 1..Len(r) : i < j => i \in 1..Len(s)
  BY <1>1
<1>2. AllJunk(s) => AllJunk(r)
  BY <1>1, <1>i DEF AllJunk
<1>3. ASSUME NEW what, Clean(s, what) PROVE Clean(r, what)
  BY <1>1, <1>3, <1>i, <1>l DEF Clean
<1>4. ASSUME NEW what, Framed(s, what) PROVE Framed(r, what)
  BY <1>1, <1>4, <1>i, <1>l DEF Framed
<1>5. ASSUME NEW m, OfOne(s, m) PROVE OfOne(r, m)
  BY <1>1, <1>5, <1>i DEF OfOne, Serial!OK
<1>6. ASSUME NEW what, what # "IDLE", Has(r, what) PROVE Has(s, what)
  BY <1>1, <1>6, <1>i DEF Has, Serial!OK
<1> QED  BY <1>1, <1>2, <1>3, <1>4, <1>5, <1>6

\* What is said of the lines holds after any of these.
LEMMA WeatherKeeps ==
  ASSUME NEW s \in Seq(Lines), NEW r \in Seq(Lines), Weathers(s, r)
  PROVE  /\ AllJunk(s) => AllJunk(r)
         /\ \A what : what # Serial!Bad /\ Clean(s, what) => Clean(r, what)
         /\ \A what : what # Serial!Bad /\ Framed(s, what) => Framed(r, what)
         /\ \A m : OfOne(s, m) => OfOne(r, m)
         /\ \A what : what \notin {Serial!Bad, "IDLE"} /\ Has(r, what) => Has(s, what)
<1>1. CASE Thins(s, r)
  BY <1>1, ThinKeeps
<1>2. CASE r = Append(s, Serial!OK("IDLE"))
  BY <1>2, RestartKeeps
<1> QED  BY <1>1, <1>2 DEF Weathers

\* A line that is waited for is the first one: what is said of the rest.
LEMMA WaitKeeps ==
  ASSUME NEW s \in Seq(Lines), s # <<>>, NEW what, Head(s) = Serial!OK(what)
  PROVE  /\ Clean(s, what) => AllJunk(Tail(s))
         /\ Framed(s, what) => Clean(Tail(s), "IDLE")
<1> DEFINE r == Tail(s)
<1>1. /\ Len(s) \in Nat /\ Len(r) = Len(s) - 1 /\ Len(s) >= 1 /\ s[1] = Serial!OK(what)
      /\ \A i \in 1..(Len(s) - 1) : r[i] = s[i + 1]
  BY QueueTail
<1> HIDE DEF r
<1>2. \A i \in 1..Len(r) : i + 1 \in 1..Len(s) /\ 1 < i + 1 /\ r[i] = s[i + 1] /\ 1 \in 1..Len(s)
  BY <1>1
<1>3. Clean(s, what) => AllJunk(r)
  BY <1>1, <1>2 DEF Clean, AllJunk
<1>4. ASSUME Framed(s, what) PROVE Clean(r, "IDLE")
  <2> SUFFICES ASSUME NEW i \in 1..Len(r), NEW j \in 1..Len(r), i < j, r[i] = Serial!OK("IDLE") PROVE Junk(r[j])
    BY DEF Clean
  <2>1. i + 1 < j + 1
    OBVIOUS
  <2> QED  BY <1>1, <1>2, <1>4, <2>1 DEF Framed
<1> QED  BY <1>3, <1>4 DEF r

\* Junk is clean of every answer.
LEMMA JunkIs ==
  ASSUME NEW s, AllJunk(s)
  PROVE  /\ \A what : Clean(s, what) /\ Framed(s, what)
         /\ \A m : OfOne(s, m)
         /\ \A what : what \notin {Serial!Bad, "IDLE"} => ~Has(s, what)
<1>1. \A what : Clean(s, what)
  BY DEF AllJunk, Clean
<1>2. \A what : Framed(s, what)
  BY DEF AllJunk, Framed
<1>3. \A m : OfOne(s, m)
  BY DEF AllJunk, OfOne, Junk, Serial!OK
<1>4. \A what : what \notin {Serial!Bad, "IDLE"} => ~Has(s, what)
  BY DEF AllJunk, Has, Junk, Serial!OK
<1> QED  BY <1>1, <1>2, <1>3, <1>4

\* Where there are no lines there is only junk.
LEMMA NoLines == AllJunk(<<>>)
  BY DEF AllJunk

-----------------------------------------------------------------------------
(* What the bridge answers *)

\* The messages a RECEIVE may be answered with.
Messages == Radio \cup {<<Serial!Zero, Serial!NoData>>}

\* The answer to a line that was garbled, and to RESET.
LEMMA AnswerOther ==
  ASSUME NEW l, NEW a \in Serial!Answers(l), l[1] \in {"?", "RESET"}
  PROVE  AllJunk(a.lines) /\ a.state \in {bridge, "idle"}
<1>1. CASE l[1] = "?"
  <2>1. a = [lines |-> <<>>, state |-> bridge]
    BY <1>1 DEF Serial!Answers
  <2> QED  BY <2>1 DEF AllJunk
<1>2. CASE l[1] = "RESET"
  <2>1. a = [lines |-> <<Serial!OK("IDLE")>>, state |-> "idle"]
    BY <1>2 DEF Serial!Answers
  <2> QED  BY <2>1 DEF AllJunk, Junk
<1> QED  BY <1>1, <1>2

\* The answers to the lines of a send.
LEMMA AnswerSend ==
  ASSUME NEW l, NEW a \in Serial!Answers(l)
  PROVE  /\ l[1] = "SEND" /\ bridge = "idle" => Clean(a.lines, "AWAIT_ADDRESS") /\ a.state = "await_address"
         /\ l[1] = "ADDRESS" /\ bridge \in {"idle", "await_address"} =>
               Clean(a.lines, "AWAIT_DATA") /\ (Has(a.lines, "AWAIT_DATA") => a.state = "await_data")
         /\ l[1] = "DATA" /\ bridge \in {"idle", "await_data"} => Clean(a.lines, "SENDING") /\ a.state = "idle"
<1>e. \A what : Clean(<<>>, what) /\ ~Has(<<>>, what)
  BY DEF Clean, Has
<1>s. ASSUME NEW x PROVE \A what : Clean(<<x>>, what)
  BY DEF Clean
<1>1. ASSUME l[1] = "SEND", bridge = "idle" PROVE Clean(a.lines, "AWAIT_ADDRESS") /\ a.state = "await_address"
  <2>1. a = [lines |-> <<Serial!OK("AWAIT_ADDRESS")>>, state |-> "await_address"]
    BY <1>1 DEF Serial!Answers
  <2> QED  BY <1>s, <2>1
<1>2. ASSUME l[1] = "ADDRESS", bridge = "idle" PROVE Clean(a.lines, "AWAIT_DATA") /\ ~Has(a.lines, "AWAIT_DATA")
  <2>1. a = [lines |-> <<>>, state |-> bridge]
    BY <1>2 DEF Serial!Answers
  <2> QED  BY <1>e, <2>1
<1>3. ASSUME l[1] = "ADDRESS", bridge = "await_address" PROVE Clean(a.lines, "AWAIT_DATA") /\ a.state = "await_data"
  <2>1. a = [lines |-> <<Serial!OK("AWAIT_DATA")>>, state |-> "await_data"]
    BY <1>3 DEF Serial!Answers
  <2> QED  BY <1>s, <2>1
<1>4. ASSUME l[1] = "DATA", bridge = "idle" PROVE Clean(a.lines, "SENDING") /\ a.state = "idle"
  <2>1. a = [lines |-> <<>>, state |-> bridge]
    BY <1>4 DEF Serial!Answers
  <2> QED  BY <1>e, <1>4, <2>1
<1>5. ASSUME l[1] = "DATA", bridge = "await_data" PROVE Clean(a.lines, "SENDING") /\ a.state = "idle"
  <2>1. a = [lines |-> <<Serial!OK("SENDING"), Serial!OK("IDLE")>>, state |-> "idle"]
    BY <1>5 DEF Serial!Answers
  <2>2. Clean(<<Serial!OK("SENDING"), Serial!OK("IDLE")>>, "SENDING")
    BY DEF Clean, Junk
  <2> QED  BY <2>1, <2>2
<1> QED  BY <1>1, <1>2, <1>3, <1>4, <1>5

\* The answer to RECEIVE: one message, and IDLE at the end.
LEMMA AnswerReceive ==
  ASSUME NEW l, NEW a \in Serial!Answers(l), l[1] = "RECEIVE", bridge = "idle"
  PROVE  a.state = "idle" /\ Framed(a.lines, "SEND_ADDRESS") /\ \E m \in Messages : OfOne(a.lines, m)
<1>1. PICK m \in Messages : a = [lines |-> Serial!Received(m[1], m[2]), state |-> "idle"]
  BY DEF Serial!Answers, Messages
<1> DEFINE s == Serial!Received(m[1], m[2])
<1>2. /\ Len(s) = 5 /\ s[1] = Serial!OK("SEND_ADDRESS") /\ s[2] = Serial!Says("ADDRESS", m[1])
      /\ s[3] = Serial!OK("SEND_DATA") /\ s[4] = Serial!Says("DATA", m[2]) /\ s[5] = Serial!OK("IDLE")
  <2>1. ASSUME NEW b, NEW c, NEW d, NEW e, NEW f
        PROVE  /\ Len(<<b, c, d, e, f>>) = 5 /\ <<b, c, d, e, f>>[1] = b /\ <<b, c, d, e, f>>[2] = c
               /\ <<b, c, d, e, f>>[3] = d /\ <<b, c, d, e, f>>[4] = e /\ <<b, c, d, e, f>>[5] = f
    OBVIOUS
  <2> QED  BY <2>1 DEF Serial!Received
<1> HIDE DEF s
<1>3. \A i \in 1..Len(s) : i \in {1, 2, 3, 4, 5}
  BY <1>2
<1>4. OfOne(s, m)
  BY <1>2, <1>3 DEF OfOne, Serial!Says, Serial!OK
<1>5. \A i \in 1..Len(s) : s[i] = Serial!OK("IDLE") => i = 5
  <2>1. /\ s[1] # Serial!OK("IDLE") /\ s[2] # Serial!OK("IDLE") /\ s[3] # Serial!OK("IDLE") /\ s[4] # Serial!OK("IDLE")
    BY <1>2 DEF Serial!Says, Serial!OK
  <2> QED  BY <1>3, <2>1
<1>6. Framed(s, "SEND_ADDRESS")
  BY <1>2, <1>5 DEF Framed
<1> QED  BY <1>1, <1>4, <1>6 DEF s

\* The answer to CONFIGURATION: IDLE comes at the end.
LEMMA AnswerConfiguration ==
  ASSUME NEW l, NEW a \in Serial!Answers(l), l[1] = "CONFIGURATION", bridge = "idle"
  PROVE  a.state = "idle" /\ Framed(a.lines, "SEND_STATUS")
<1>1. PICK own \in Addresses \cup {Serial!NA, Serial!Short}, broadcast \in Addresses \cup {Serial!NA},
             length \in {"20", "0", Serial!Bad} :
             a = [lines |-> Serial!Configuration(own, broadcast, length), state |-> "idle"]
  BY DEF Serial!Answers
<1> DEFINE s == Serial!Configuration(own, broadcast, length)
<1>2. ASSUME NEW x, NEW b, NEW c, NEW d, NEW e, NEW f, NEW g, NEW h, NEW i, NEW j, NEW k, NEW m,
             b # x, c # x, d # x, e # x, f # x, g # x, h # x, i # x, j # x, k # x
      PROVE  /\ Len(<<b, c, d, e, f, g, h, i, j, k, m>>) = 11
             /\ \A n \in 1..11 : <<b, c, d, e, f, g, h, i, j, k, m>>[n] = x => n = 11
  <2>1. \A n \in 1..11 : n \in {1, 2, 3, 4, 5, 6, 7, 8, 9, 10, 11}
    OBVIOUS
  <2> QED  BY <1>2, <2>1
<1>3. /\ \A w : w # "IDLE" => Serial!OK(w) # Serial!OK("IDLE")
      /\ \A k, w : k # "OK" => Serial!Says(k, w) # Serial!OK("IDLE")
  BY DEF Serial!OK, Serial!Says
<1>4. Len(s) = 11 /\ \A n \in 1..11 : s[n] = Serial!OK("IDLE") => n = 11
  BY <1>2, <1>3 DEF Serial!Configuration
<1> HIDE DEF s
<1>5. Framed(s, "SEND_STATUS")
  BY <1>4 DEF Framed
<1> QED  BY <1>1, <1>5 DEF s

-----------------------------------------------------------------------------
(* Where a script is: what is left of it *)

Rest(full) ==
    /\ Len(script) \in 1..Len(full)
    /\ \A i \in 1..Len(script) : script[i] = full[(Len(full) - Len(script)) + i]

SendScripts == {Serial!SendScript(a, m[2]) : a \in Addresses, m \in Radio}
ConfigScripts ==
    {Append(Serial!updateConfiguration, last) : last \in EndCommands}
    \cup {Append(Serial!resetController \o Serial!updateConfiguration, last) : last \in EndCommands}

\* The script is one, as LineShape says.
Scripted == script \in Seq(Commands)

\* A call starts with its whole script to do.
LEMMA RestStart ==
  ASSUME NEW full \in Seq(Commands), full # <<>>, script' = full
  PROVE  Rest(full)' /\ Len(script') = Len(full)
<1>1. Len(full) \in Nat /\ Len(full) # 0
  OBVIOUS
<1>2. Len(script') \in 1..Len(full) /\ Len(script') = Len(full)
  BY <1>1
<1>3. \A i \in 1..Len(script') : script'[i] = full[(Len(full) - Len(script')) + i]
  <2>1. \A i \in 1..Len(full) : (Len(full) - Len(full)) + i = i
    BY <1>1
  <2> QED  BY <1>2, <2>1
<1> QED  BY <1>2, <1>3 DEF Rest

\* The step to take is the first of those that are left.
LEMMA RestHead ==
  ASSUME Scripted, NEW full, Len(full) \in Nat, Rest(full)
  PROVE  /\ Len(script) \in Nat /\ Len(script) >= 1 /\ Len(script) <= Len(full) /\ script # <<>>
         /\ Head(script) = full[(Len(full) - Len(script)) + 1]
<1>1. Len(script) \in Nat /\ Len(script) >= 1 /\ Len(script) <= Len(full)
  BY DEF Rest, Scripted
<1>2. script # <<>>
  BY <1>1
<1>3. Head(script) = script[1]
  BY <1>2, QueueTail DEF Scripted
<1>4. 1 \in 1..Len(script)
  BY <1>1
<1> QED  BY <1>1, <1>2, <1>3, <1>4 DEF Rest

\* A step that is done leaves one less.
LEMMA RestTail ==
  ASSUME Scripted, NEW full, Len(full) \in Nat, Rest(full), script' = Tail(script)
  PROVE  /\ Len(script) = 1 => script' = <<>>
         /\ Len(script) # 1 => Rest(full)' /\ Len(script') = Len(script) - 1
<1>1. Len(script) \in Nat /\ Len(script) >= 1 /\ Len(script) <= Len(full) /\ script # <<>>
  BY RestHead
<1>2. /\ script' \in Seq(Commands) /\ Len(script') = Len(script) - 1
      /\ \A i \in 1..(Len(script) - 1) : script'[i] = script[i + 1]
  BY <1>1, QueueTail DEF Scripted
<1>3. Len(script) = 1 => script' = <<>>
  BY <1>2, EmptySeq
<1>4. ASSUME Len(script) # 1 PROVE Rest(full)'
  <2>1. Len(script') \in 1..Len(full)
    BY <1>1, <1>2, <1>4
  <2>2. ASSUME NEW i \in 1..Len(script') PROVE script'[i] = full[(Len(full) - Len(script')) + i]
    <3>1. i \in 1..(Len(script) - 1) /\ i + 1 \in 1..Len(script)
      BY <1>1, <1>2
    <3>2. script'[i] = script[i + 1]
      BY <1>2, <3>1
    <3>3. script[i + 1] = full[(Len(full) - Len(script)) + (i + 1)]
      BY <3>1 DEF Rest
    <3>4. (Len(full) - Len(script)) + (i + 1) = (Len(full) - Len(script')) + i
      BY <1>1, <1>2
    <3> QED  BY <3>2, <3>3, <3>4
  <2> QED  BY <2>1, <2>2 DEF Rest
<1> QED  BY <1>2, <1>3, <1>4

\* What a step of a script is.
Says(c, kind, word) == c[1] = kind /\ c[2] = word
WaitsFor(c, what) == c = <<"wait", "OK", what>>

\* The steps of a send, by the number of those that are left.
LEMMA SendHead ==
  ASSUME Scripted, NEW full \in SendScripts, Rest(full)
  PROVE  LET n == Len(script)  c == Head(script)
         IN  /\ Len(full) = 7 /\ n \in 1..7 /\ script # <<>>
             /\ n = 7 => Says(c, "write", "SEND")
             /\ n = 6 => WaitsFor(c, "AWAIT_ADDRESS")
             /\ n = 5 => Says(c, "write", "ADDRESS")
             /\ n = 4 => WaitsFor(c, "AWAIT_DATA")
             /\ n = 3 => Says(c, "write", "DATA")
             /\ n = 2 => WaitsFor(c, "SENDING")
             /\ n = 1 => WaitsFor(c, "IDLE")
<1>1. PICK a \in Addresses, m \in Radio : full = Serial!SendScript(a, m[2])
  BY DEF SendScripts
<1>t. ASSUME NEW b, NEW c, NEW d, NEW e, NEW f, NEW g, NEW h
      PROVE  /\ Len(<<b, c, d, e, f, g, h>>) = 7 /\ <<b, c, d, e, f, g, h>>[1] = b /\ <<b, c, d, e, f, g, h>>[2] = c
             /\ <<b, c, d, e, f, g, h>>[3] = d /\ <<b, c, d, e, f, g, h>>[4] = e /\ <<b, c, d, e, f, g, h>>[5] = f
             /\ <<b, c, d, e, f, g, h>>[6] = g /\ <<b, c, d, e, f, g, h>>[7] = h
  OBVIOUS
<1>2. /\ Len(full) = 7
      /\ full[1] = Serial!Write(<<"SEND", "">>) /\ full[2] = Serial!waitFor("AWAIT_ADDRESS")
      /\ full[3] = Serial!Write(<<"ADDRESS", a>>) /\ full[4] = Serial!waitFor("AWAIT_DATA")
      /\ full[5] = Serial!Write(<<"DATA", m[2]>>) /\ full[6] = Serial!waitFor("SENDING")
      /\ full[7] = Serial!waitFor("IDLE")
  BY <1>1, <1>t DEF Serial!SendScript, Serial!waitForOKIdle
<1> DEFINE n == Len(script)
           k == Len(full)
           c == Head(script)
<1>5. k = 7
  BY <1>2
<1> HIDE DEF k, n, c
<1>3. k \in Nat
  BY <1>5
<1>4. n \in Nat /\ n >= 1 /\ n <= k /\ script # <<>> /\ c = full[(k - n) + 1]
  BY <1>3, RestHead DEF k, n, c
<1>6. n \in 1..7
  BY <1>4, <1>5
<1>w. /\ \A l : Says(Serial!Write(l), "write", l[1])
      /\ \A w : WaitsFor(Serial!waitFor(w), w)
      /\ \A w : Says(Serial!Read(w), "read", w)
  BY DEF Says, WaitsFor, Serial!Write, Serial!waitFor, Serial!Read
<1>7. /\ Says(full[1], "write", "SEND") /\ Says(full[3], "write", "ADDRESS") /\ Says(full[5], "write", "DATA")
  <2>1. <<"SEND", "">>[1] = "SEND" /\ <<"ADDRESS", a>>[1] = "ADDRESS" /\ <<"DATA", m[2]>>[1] = "DATA"
    OBVIOUS
  <2> QED  BY <1>2, <1>w, <2>1
<1>8. /\ WaitsFor(full[2], "AWAIT_ADDRESS") /\ WaitsFor(full[4], "AWAIT_DATA")
      /\ WaitsFor(full[6], "SENDING") /\ WaitsFor(full[7], "IDLE")
  BY <1>2, <1>w
<1>9. /\ n = 7 => c = full[1]
      /\ n = 6 => c = full[2]
      /\ n = 5 => c = full[3]
      /\ n = 4 => c = full[4]
      /\ n = 3 => c = full[5]
      /\ n = 2 => c = full[6]
      /\ n = 1 => c = full[7]
  BY <1>4, <1>5
<1> QED  BY <1>4, <1>5, <1>6, <1>7, <1>8, <1>9 DEF k, n, c

\* The steps of loop().
LEMMA LoopHead ==
  ASSUME Scripted, Rest(Serial!LoopScript)
  PROVE  LET n == Len(script)  c == Head(script)
         IN  /\ n \in 1..7 /\ script # <<>> /\ Len(Serial!LoopScript) = 7
             /\ n = 7 => Says(c, "write", "RECEIVE")
             /\ n = 6 => WaitsFor(c, "SEND_ADDRESS")
             /\ n = 5 => Says(c, "read", "ADDRESS")
             /\ n = 4 => WaitsFor(c, "SEND_DATA")
             /\ n = 3 => Says(c, "read", "DATA")
             /\ n = 2 => WaitsFor(c, "IDLE")
             /\ n = 1 => c[1] = "receiveData"
<1> DEFINE full == Serial!LoopScript
<1>t. ASSUME NEW b, NEW c, NEW d, NEW e, NEW f, NEW g, NEW h
      PROVE  /\ Len(<<b, c, d, e, f, g, h>>) = 7 /\ <<b, c, d, e, f, g, h>>[1] = b /\ <<b, c, d, e, f, g, h>>[2] = c
             /\ <<b, c, d, e, f, g, h>>[3] = d /\ <<b, c, d, e, f, g, h>>[4] = e /\ <<b, c, d, e, f, g, h>>[5] = f
             /\ <<b, c, d, e, f, g, h>>[6] = g /\ <<b, c, d, e, f, g, h>>[7] = h
  OBVIOUS
<1>2. /\ Len(full) = 7
      /\ full[1] = Serial!Write(<<"RECEIVE", "">>) /\ full[2] = Serial!waitFor("SEND_ADDRESS")
      /\ full[3] = Serial!Read("ADDRESS") /\ full[4] = Serial!waitFor("SEND_DATA")
      /\ full[5] = Serial!Read("DATA") /\ full[6] = Serial!waitFor("IDLE") /\ full[7] = <<"receiveData">>
  BY <1>t DEF Serial!LoopScript, Serial!waitForOKIdle
<1> HIDE DEF full
<1>0. Rest(full)
  BY DEF full
<1> DEFINE n == Len(script)
           k == Len(full)
           c == Head(script)
<1>5. k = 7
  BY <1>2
<1> HIDE DEF k, n, c
<1>3. k \in Nat
  BY <1>5
<1>4. n \in Nat /\ n >= 1 /\ n <= k /\ script # <<>> /\ c = full[(k - n) + 1]
  BY <1>0, <1>3, RestHead DEF k, n, c
<1>6. n \in 1..7
  BY <1>4, <1>5
<1>w. /\ \A l : Says(Serial!Write(l), "write", l[1])
      /\ \A w : WaitsFor(Serial!waitFor(w), w)
      /\ \A w : Says(Serial!Read(w), "read", w)
  BY DEF Says, WaitsFor, Serial!Write, Serial!waitFor, Serial!Read
<1>7. Says(full[1], "write", "RECEIVE") /\ Says(full[3], "read", "ADDRESS") /\ Says(full[5], "read", "DATA")
  <2>1. <<"RECEIVE", "">>[1] = "RECEIVE"
    OBVIOUS
  <2> QED  BY <1>2, <1>w, <2>1
<1>8. /\ WaitsFor(full[2], "SEND_ADDRESS") /\ WaitsFor(full[4], "SEND_DATA")
      /\ WaitsFor(full[6], "IDLE") /\ full[7][1] = "receiveData"
  <2>1. <<"receiveData">>[1] = "receiveData"
    OBVIOUS
  <2> QED  BY <1>2, <1>w, <2>1
<1>9. /\ n = 7 => c = full[1]
      /\ n = 6 => c = full[2]
      /\ n = 5 => c = full[3]
      /\ n = 4 => c = full[4]
      /\ n = 3 => c = full[5]
      /\ n = 2 => c = full[6]
      /\ n = 1 => c = full[7]
  BY <1>4, <1>5
<1> QED  BY <1>4, <1>5, <1>6, <1>7, <1>8, <1>9 DEF full, k, n, c

\* The steps of updateConfiguration, by place.
LEMMA ConfigurationSteps ==
  LET s == Serial!updateConfiguration
  IN  /\ Says(s[1], "write", "CONFIGURATION") /\ WaitsFor(s[2], "SEND_STATUS")
      /\ \A i \in 3..11 : s[i][1] \in {"wait", "read"}
      /\ WaitsFor(s[12], "IDLE")
<1> DEFINE s == Serial!updateConfiguration
<1>t. ASSUME NEW a, NEW b, NEW c, NEW d, NEW e, NEW f, NEW g, NEW h, NEW i, NEW j, NEW k, NEW l
      PROVE  LET x == <<a, b, c, d, e, f, g, h, i, j, k, l>>
             IN  /\ x[1] = a /\ x[2] = b /\ x[12] = l
                 /\ x[3] = c /\ x[4] = d /\ x[5] = e /\ x[6] = f /\ x[7] = g /\ x[8] = h /\ x[9] = i /\ x[10] = j /\ x[11] = k
  OBVIOUS
<1>1. /\ s[1] = Serial!Write(<<"CONFIGURATION", "">>) /\ s[2] = Serial!waitFor("SEND_STATUS")
      /\ s[12] = Serial!waitFor("IDLE")
      /\ s[3] = Serial!Read("STATUS") /\ s[4] = Serial!waitFor("SEND_OWN_ADDRESS")
      /\ s[5] = Serial!Read("OWN_ADDRESS") /\ s[6] = Serial!waitFor("SEND_BROADCAST_ADDRESS")
      /\ s[7] = Serial!Read("BROADCAST_ADDRESS") /\ s[8] = Serial!waitFor("SEND_MAXIMUM_MESSAGE_LENGTH")
      /\ s[9] = Serial!Read("MAXIMUM_MESSAGE_LENGTH") /\ s[10] = Serial!waitFor("SEND_SERIAL_BUFFER_SIZE")
      /\ s[11] = Serial!Read("SERIAL_BUFFER_SIZE")
  BY <1>t DEF Serial!updateConfiguration, Serial!waitForOKIdle
<1> HIDE DEF s
<1>w. /\ \A l : Says(Serial!Write(l), "write", l[1])
      /\ \A w : WaitsFor(Serial!waitFor(w), w)
      /\ \A w : Says(Serial!Read(w), "read", w)
  BY DEF Says, WaitsFor, Serial!Write, Serial!waitFor, Serial!Read
<1>2. /\ Says(s[1], "write", "CONFIGURATION") /\ WaitsFor(s[2], "SEND_STATUS") /\ WaitsFor(s[12], "IDLE")
  <2>1. <<"CONFIGURATION", "">>[1] = "CONFIGURATION"
    OBVIOUS
  <2> QED  BY <1>1, <1>w, <2>1
<1>k. (\A w : Serial!Read(w)[1] = "read") /\ (\A w : Serial!waitFor(w)[1] = "wait")
  BY DEF Serial!Read, Serial!waitFor
<1>3. /\ s[3][1] = "read" /\ s[4][1] = "wait" /\ s[5][1] = "read" /\ s[6][1] = "wait" /\ s[7][1] = "read"
      /\ s[8][1] = "wait" /\ s[9][1] = "read" /\ s[10][1] = "wait" /\ s[11][1] = "read"
  BY <1>1, <1>k
<1>4. \A i \in 3..11 : i \in {3, 4, 5, 6, 7, 8, 9, 10, 11}
  OBVIOUS
<1>5. \A i \in 3..11 : s[i][1] \in {"wait", "read"}
  BY <1>3, <1>4
<1> QED  BY <1>2, <1>5 DEF s

\* The places of a script that begins with the configuration, counted from its end.
LEMMA ConfigPlaces ==
  ASSUME NEW full \in ConfigScripts
  PROVE  /\ full \in Seq(Commands) /\ full # <<>> /\ Len(full) \in {13, 15}
         /\ full[Len(full)] \in EndCommands
         /\ \A n \in 2..13 : full[(Len(full) - n) + 1] = Serial!updateConfiguration[14 - n]
         /\ Len(full) = 15 => Says(full[1], "write", "RESET") /\ full[2][1] = "wait"
<1> DEFINE c == Serial!updateConfiguration
           r == Serial!resetController
<1>c. c \in Seq(ConfigCommands) /\ Len(c) = 12
  BY ConfigurationScript
<1>r. r \in Seq(ConfigCommands) /\ Len(r) = 2 /\ Says(r[1], "write", "RESET") /\ r[2][1] = "wait"
  BY ResetScript DEF Serial!resetController, Serial!Write, Serial!waitForOKIdle, Serial!waitFor, Says
<1>e. ConfigCommands \subseteq Commands /\ EndCommands \subseteq Commands
  BY DEF Commands
<1>f. ASSUME NEW u \in Seq(ConfigCommands), NEW last \in EndCommands, full = Append(u, last)
      PROVE  /\ full \in Seq(Commands) /\ full # <<>> /\ Len(full) = Len(u) + 1 /\ Len(u) \in Nat
             /\ full[Len(full)] \in EndCommands
             /\ \A i \in 1..Len(u) : full[i] = u[i]
  <2>1. u \in Seq(Commands) /\ last \in Commands
    BY <1>e
  <2> QED  BY <1>f, <2>1, QueueAppend
<1> HIDE DEF c, r
<1>1. ASSUME NEW last \in EndCommands, full = Append(c, last)
      PROVE  /\ full \in Seq(Commands) /\ full # <<>> /\ Len(full) = 13 /\ full[Len(full)] \in EndCommands
             /\ \A n \in 2..13 : full[(Len(full) - n) + 1] = c[14 - n]
  <2>0. /\ full \in Seq(Commands) /\ full # <<>> /\ Len(full) = Len(c) + 1 /\ full[Len(full)] \in EndCommands
        /\ \A i \in 1..Len(c) : full[i] = c[i]
    BY <1>1, <1>c, <1>f
  <2>1. /\ full \in Seq(Commands) /\ full # <<>> /\ Len(full) = 13
        /\ full[Len(full)] \in EndCommands
        /\ \A i \in 1..12 : full[i] = c[i]
    BY <1>c, <2>0
  <2>2. ASSUME NEW n \in 2..13 PROVE full[(Len(full) - n) + 1] = c[14 - n]
    <3>1. (Len(full) - n) + 1 = 14 - n /\ 14 - n \in 1..12
      BY <2>1
    <3> QED  BY <2>1, <3>1
  <2> QED  BY <2>1, <2>2
<1>2. ASSUME NEW last \in EndCommands, full = Append(r \o c, last)
      PROVE  /\ full \in Seq(Commands) /\ full # <<>> /\ Len(full) = 15 /\ full[Len(full)] \in EndCommands
             /\ \A n \in 2..13 : full[(Len(full) - n) + 1] = c[14 - n]
             /\ full[1] = r[1] /\ full[2] = r[2]
  <2> DEFINE u == r \o c
  <2>0. /\ u \in Seq(ConfigCommands) /\ Len(u) = 14
        /\ \A i \in 1..14 : u[i] = IF i <= 2 THEN r[i] ELSE c[i - 2]
    <3>1. /\ u \in Seq(ConfigCommands) /\ Len(u) = Len(r) + Len(c)
          /\ \A i \in 1..(Len(r) + Len(c)) : u[i] = IF i <= Len(r) THEN r[i] ELSE c[i - Len(r)]
      BY <1>c, <1>r, ConcatProperties
    <3> HIDE DEF u
    <3>2. Len(r) + Len(c) = 14 /\ Len(r) = 2
      BY <1>c, <1>r
    <3> QED  BY <3>1, <3>2
  <2>f. full = Append(u, last)
    BY <1>2
  <2> HIDE DEF u
  <2>a. /\ full \in Seq(Commands) /\ full # <<>> /\ Len(full) = Len(u) + 1 /\ full[Len(full)] \in EndCommands
        /\ \A i \in 1..Len(u) : full[i] = u[i]
    BY <2>0, <2>f, <1>f
  <2>1. /\ full \in Seq(Commands) /\ full # <<>> /\ Len(full) = 15
        /\ full[Len(full)] \in EndCommands
        /\ \A i \in 1..14 : full[i] = u[i]
    BY <2>0, <2>a
  <2>2. ASSUME NEW n \in 2..13 PROVE full[(Len(full) - n) + 1] = c[14 - n]
    <3>1. (Len(full) - n) + 1 = 16 - n /\ 16 - n \in 1..14 /\ ~(16 - n <= 2) /\ (16 - n) - 2 = 14 - n
      BY <2>1
    <3>2. u[16 - n] = c[(16 - n) - 2]
      BY <2>0, <3>1
    <3> QED  BY <2>1, <3>1, <3>2
  <2>3. full[1] = r[1] /\ full[2] = r[2]
    <3>1. 1 \in 1..14 /\ 2 \in 1..14
      OBVIOUS
    <3>2. u[1] = r[1] /\ u[2] = r[2]
      BY <2>0, <3>1
    <3> QED  BY <2>1, <3>1, <3>2
  <2> QED  BY <2>1, <2>2, <2>3
<1>3. (\E last \in EndCommands : full = Append(c, last)) \/ (\E last \in EndCommands : full = Append(r \o c, last))
  BY DEF ConfigScripts, c, r
<1>4. CASE \E last \in EndCommands : full = Append(c, last)
  <2>1. /\ full \in Seq(Commands) /\ full # <<>> /\ Len(full) = 13 /\ full[Len(full)] \in EndCommands
        /\ \A n \in 2..13 : full[(Len(full) - n) + 1] = c[14 - n]
    BY <1>1, <1>4
  <2>2. Len(full) \in {13, 15} /\ Len(full) # 15
    BY <2>1
  <2> QED  BY <2>1, <2>2 DEF c
<1>5. CASE \E last \in EndCommands : full = Append(r \o c, last)
  <2>1. PICK last \in EndCommands : full = Append(r \o c, last)
    BY <1>5
  <2>2. /\ full \in Seq(Commands) /\ full # <<>> /\ Len(full) = 15 /\ full[Len(full)] \in EndCommands
        /\ \A n \in 2..13 : full[(Len(full) - n) + 1] = c[14 - n]
        /\ full[1] = r[1] /\ full[2] = r[2]
    BY <1>2, <2>1
  <2> QED  BY <1>r, <2>2 DEF c
<1> QED  BY <1>3, <1>4, <1>5

\* The steps of begin() and getMaximumMessageLength, by the number of those that are left.
LEMMA ConfigHead ==
  ASSUME Scripted, NEW full \in ConfigScripts, Rest(full)
  PROVE  LET n == Len(script)  c == Head(script)
         IN  /\ n \in 1..15 /\ script # <<>>
             /\ n = 15 => Says(c, "write", "RESET")
             /\ n = 14 => c[1] = "wait"
             /\ n = 13 => Says(c, "write", "CONFIGURATION")
             /\ n = 12 => WaitsFor(c, "SEND_STATUS")
             /\ n \in 3..11 => c[1] \in {"wait", "read"}
             /\ n = 2 => WaitsFor(c, "IDLE")
             /\ n = 1 => c \in EndCommands
<1>1. /\ Len(full) \in {13, 15} /\ full[Len(full)] \in EndCommands
      /\ \A n \in 2..13 : full[(Len(full) - n) + 1] = Serial!updateConfiguration[14 - n]
      /\ Len(full) = 15 => Says(full[1], "write", "RESET") /\ full[2][1] = "wait"
  BY ConfigPlaces
<1> DEFINE n == Len(script)
           k == Len(full)
           c == Head(script)
           u == Serial!updateConfiguration
<1>b. k = 13 \/ k = 15
  BY <1>1
<1>d. /\ full[k] \in EndCommands
      /\ \A i \in 2..13 : full[(k - i) + 1] = u[14 - i]
      /\ k = 15 => Says(full[1], "write", "RESET") /\ full[2][1] = "wait"
  BY <1>1
<1>s. /\ Says(u[1], "write", "CONFIGURATION") /\ WaitsFor(u[2], "SEND_STATUS")
      /\ \A i \in 3..11 : u[i][1] \in {"wait", "read"}
      /\ WaitsFor(u[12], "IDLE")
  BY ConfigurationSteps
<1> HIDE DEF n, k, c, u
<1>a. k \in Nat
  BY <1>b
<1>2. n \in Nat /\ n >= 1 /\ n <= k /\ script # <<>> /\ c = full[(k - n) + 1]
  BY <1>a, RestHead DEF n, k, c
<1>3. n \in 1..15
  BY <1>b, <1>2
<1>4. n \in 2..13 => c = u[14 - n]
  BY <1>d, <1>2
<1>5. n = 13 => Says(c, "write", "CONFIGURATION")
  BY <1>4, <1>s
<1>6. n = 12 => WaitsFor(c, "SEND_STATUS")
  BY <1>4, <1>s
<1>7. ASSUME n \in 3..11 PROVE c[1] \in {"wait", "read"}
  <2>1. 14 - n \in 3..11 /\ n \in 2..13
    BY <1>7
  <2>2. c = u[14 - n]
    BY <1>4, <2>1
  <2> QED  BY <1>s, <2>1, <2>2
<1>8. n = 2 => WaitsFor(c, "IDLE")
  BY <1>4, <1>s
<1>9. ASSUME n = 1 PROVE c \in EndCommands
  <2>1. (k - n) + 1 = k
    BY <1>a, <1>9
  <2> QED  BY <1>d, <1>2, <2>1
<1>10. n \in {14, 15} => k = 15
  BY <1>b, <1>2
<1>11. ASSUME n = 15 PROVE Says(c, "write", "RESET")
  <2>1. k = 15 /\ (k - n) + 1 = 1
    BY <1>10, <1>11
  <2> QED  BY <1>d, <1>2, <2>1
<1>12. ASSUME n = 14 PROVE c[1] = "wait"
  <2>1. k = 15 /\ (k - n) + 1 = 2
    BY <1>10, <1>12
  <2> QED  BY <1>d, <1>2, <2>1
<1> QED  BY <1>2, <1>3, <1>5, <1>6, <1>7, <1>8, <1>9, <1>11, <1>12 DEF n, c

-----------------------------------------------------------------------------
(* Between two steps of a script: what is on the line *)

\* What the gateway may write.
Spoken == Keywords \X Arguments

\* A bridge that has hung up is in no state.
BridgeIn(states) == hungUp \/ bridge \in states

\* Nothing is on the line that an answer could be taken for: a call may start, or write.
Writes(states) == toBridge = <<>> /\ AllJunk(toGateway) /\ BridgeIn(states)
Resting == Writes({"idle"})

\* The command is on its way, or what came of it.
Pending(cmd) == Len(toBridge) = 1 /\ toBridge[1][1] \in {cmd, "?"} /\ AllJunk(toGateway)
Waits(cmd, what, before, after) ==
    \/ Pending(cmd) /\ BridgeIn(before)
    \/ toBridge = <<>> /\ Clean(toGateway, what) /\ (Has(toGateway, what) => BridgeIn(after))

\* What faults do to the lines the gateway has written.
Fades(s, r) ==
    \/ r = s
    \/ r = <<>>
    \/ s # <<>> /\ r = Tail(s)
    \/ s # <<>> /\ r = [s EXCEPT ![1] = <<"?", Serial!Bad>>]

\* A step that the script has no part in, or that skips a line.
Storm ==
    /\ Fades(toBridge, toBridge') /\ Weathers(toGateway, toGateway')
    /\ bridge' \in {bridge, "idle"}
    /\ (hungUp => hungUp') /\ (hungUp' => toBridge' = <<>>)
    /\ fd \/ toBridge # <<>> \/ toGateway # <<>> \/ UNCHANGED <<toBridge, toGateway>>
    /\ UNCHANGED <<gateway, fd, script, from_address, data, handed>>

Answered ==
    /\ ~hungUp /\ toBridge # <<>> /\ toBridge' = Tail(toBridge)
    /\ \E a \in Serial!Answers(Head(toBridge)) : toGateway' = toGateway \o a.lines /\ bridge' = a.state
    /\ UNCHANGED <<gateway, fd, script, from_address, data, handed, hungUp>>

\* The types of what is on the line, before and after a step.
Typed == toBridge \in Seq(Spoken) /\ toGateway \in Seq(Lines)

\* A fading line.
LEMMA FadeKeeps ==
  ASSUME NEW s \in Seq(Spoken), NEW r, Fades(s, r)
  PROVE  /\ r \in Seq(Spoken)
         /\ r # <<>> => (Len(r) = Len(s) /\ r[1][1] \in {s[1][1], "?"}) \/ Len(r) + 1 = Len(s)
<1>t. <<"?", Serial!Bad>> \in Spoken /\ <<"?", Serial!Bad>>[1] = "?"
  BY DEF Spoken, Keywords, Arguments, Serial!Bad
<1>1. CASE r = s
  BY <1>1
<1>2. CASE r = <<>>
  BY <1>2
<1>3. CASE s # <<>> /\ r = Tail(s)
  BY <1>3, QueueTail
<1>4. CASE s # <<>> /\ r = [s EXCEPT ![1] = <<"?", Serial!Bad>>]
  BY <1>4, <1>t
<1> QED  BY <1>1, <1>2, <1>3, <1>4 DEF Fades

\* Where nothing is there is nothing to lose.
LEMMA FadeEmpty == ASSUME NEW s, NEW r, s = <<>>, Fades(s, r) PROVE r = <<>>
  BY DEF Fades

\* A fault leaves the line such that the next line may be written.
LEMMA StormWrites ==
  ASSUME Typed, Typed', Storm, NEW states, "idle" \in states, Writes(states)
  PROVE  Writes(states)'
<1>1. toBridge' = <<>>
  <2>1. Fades(toBridge, toBridge') /\ toBridge = <<>>
    BY DEF Writes, Storm, Typed
  <2> QED  BY <2>1, FadeEmpty
<1>2. AllJunk(toGateway')
  BY WeatherKeeps DEF Writes, Storm, Typed
<1>3. BridgeIn(states)'
  BY DEF Writes, Storm, BridgeIn
<1> QED  BY <1>1, <1>2, <1>3 DEF Writes

\* A command that is on its way stays there, or gets lost.
LEMMA StormPending ==
  ASSUME Typed, Typed', Storm, NEW cmd, Pending(cmd)
  PROVE  Pending(cmd)' \/ (toBridge' = <<>> /\ AllJunk(toGateway'))
<1>1. AllJunk(toGateway')
  BY WeatherKeeps DEF Pending, Storm, Typed
<1>2. ASSUME toBridge' # <<>> PROVE Pending(cmd)'
  <2>1. Len(toBridge) = 1
    BY DEF Pending
  <2>2. /\ toBridge' \in Seq(Spoken)
        /\ (Len(toBridge') = Len(toBridge) /\ toBridge'[1][1] \in {toBridge[1][1], "?"}) \/ Len(toBridge') + 1 = Len(toBridge)
    BY <1>2, FadeKeeps DEF Storm, Typed
  <2>3. Len(toBridge') \in Nat /\ Len(toBridge') # 0
    BY <1>2, <2>2, EmptySeq
  <2>4. Len(toBridge') = 1 /\ toBridge'[1][1] \in {toBridge[1][1], "?"}
    BY <2>1, <2>2, <2>3
  <2> QED  BY <1>1, <2>4 DEF Pending
<1> QED  BY <1>1, <1>2

\* The bridge takes the command.
LEMMA AnswerPending ==
  ASSUME Typed, Answered, NEW cmd, Pending(cmd)
  PROVE  /\ toBridge' = <<>> /\ Head(toBridge)[1] \in {cmd, "?"} /\ AllJunk(toGateway)
         /\ \A a \in Serial!Answers(Head(toBridge)) : a.lines \in Seq(Lines)
<1>1. toBridge \in Seq(Spoken) /\ toBridge # <<>> /\ toBridge' = Tail(toBridge)
  BY DEF Typed, Answered
<1>2. Len(Tail(toBridge)) = Len(toBridge) - 1 /\ Head(toBridge) = toBridge[1] /\ Tail(toBridge) \in Seq(Spoken)
  BY <1>1, QueueTail
<1>3. Len(Tail(toBridge)) = 0
  BY <1>2 DEF Pending
<1>4. toBridge' = <<>>
  BY <1>1, <1>2, <1>3, EmptySeq
<1> QED  BY <1>2, <1>4, AnswerLines DEF Pending

\* A fault leaves the line such that what is awaited is not followed by something else.
LEMMA StormWaits ==
  ASSUME Typed, Typed', Storm, NEW cmd, NEW what, what \notin {Serial!Bad, "IDLE"},
         NEW before, NEW after, "idle" \in before \cap after, Waits(cmd, what, before, after)
  PROVE  Waits(cmd, what, before, after)'
<1>b. (BridgeIn(before) => BridgeIn(before)') /\ (BridgeIn(after) => BridgeIn(after)')
  BY DEF Storm, BridgeIn
<1>1. CASE Pending(cmd) /\ BridgeIn(before)
  BY <1>1, <1>b, StormPending, JunkIs DEF Waits
<1>2. CASE toBridge = <<>> /\ Clean(toGateway, what) /\ (Has(toGateway, what) => BridgeIn(after))
  <2>1. toBridge' = <<>>
    <3>1. Fades(toBridge, toBridge') /\ toBridge = <<>>
      BY <1>2 DEF Storm, Typed
    <3> QED  BY <3>1, FadeEmpty
  <2>2. Clean(toGateway', what) /\ (Has(toGateway', what) => Has(toGateway, what))
    BY <1>2, WeatherKeeps DEF Storm, Typed
  <2> QED  BY <1>2, <1>b, <2>1, <2>2 DEF Waits
<1> QED  BY <1>1, <1>2 DEF Waits

\* The bridge answers what it is asked, and only that.
LEMMA AnswerWaits ==
  ASSUME Typed, Answered, NEW cmd, NEW what, what \notin {Serial!Bad, "IDLE"},
         NEW before, NEW after, "idle" \in before \cap after, Waits(cmd, what, before, after),
         \A l : l[1] = cmd /\ bridge \in before => \A a \in Serial!Answers(l) :
             Clean(a.lines, what) /\ (Has(a.lines, what) => a.state \in after)
  PROVE  Waits(cmd, what, before, after)'
<1>1. Pending(cmd) /\ bridge \in before
  BY DEF Waits, Answered, BridgeIn
<1>2. toBridge' = <<>>
  BY <1>1, AnswerPending
<1>3. PICK a \in Serial!Answers(Head(toBridge)) : toGateway' = toGateway \o a.lines /\ bridge' = a.state
  BY DEF Answered
<1>4. a.lines \in Seq(Lines) /\ AllJunk(toGateway) /\ Head(toBridge)[1] \in {cmd, "?"}
  BY <1>1, AnswerPending
<1>6. Clean(a.lines, what) /\ (Has(a.lines, what) => a.state \in after)
  <2>1. CASE Head(toBridge)[1] = cmd
    BY <1>1, <2>1
  <2>2. CASE Head(toBridge)[1] = "?"
    BY <2>2, AnswerOther, JunkIs
  <2> QED  BY <1>4, <2>1, <2>2
<1>7. Clean(toGateway', what) /\ (Has(toGateway', what) => Has(a.lines, what))
  BY <1>3, <1>4, <1>6, JoinKeeps DEF Typed
<1>8. Has(toGateway', what) => BridgeIn(after)'
  BY <1>3, <1>6, <1>7 DEF BridgeIn
<1> QED  BY <1>2, <1>7, <1>8 DEF Waits

-----------------------------------------------------------------------------
(* The steps of a script, and a send *)

\* The keyword and the argument of a line.
LEMMA TailTriple == \A a, b, c : Tail(<<a, b, c>>) = <<b, c>>
  OBVIOUS

\* A line is written, unless nobody is there to read it.
Written ==
    /\ script # <<>> /\ Head(script)[1] = "write" /\ script' = Tail(script)
    /\ toBridge' = IF hungUp THEN toBridge ELSE Append(toBridge, Tail(Head(script)))
    /\ UNCHANGED <<gateway, fd, toGateway, bridge, hungUp, from_address, data, handed>>

\* The line that is waited for is there, or nobody is left to send it.
Heard ==
    /\ script # <<>> /\ Head(script)[1] = "wait" /\ script' = Tail(script)
    /\ \/ toGateway # <<>> /\ Head(toGateway) = Tail(Head(script)) /\ toGateway' = Tail(toGateway)
       \/ hungUp /\ toGateway = <<>> /\ UNCHANGED toGateway
    /\ UNCHANGED <<gateway, fd, toBridge, bridge, hungUp, from_address, data, handed>>

\* A line is read, or nobody is left to send one.
Took(l) ==
    /\ script # <<>> /\ Head(script)[1] = "read" /\ script' = Tail(script)
    /\ \/ toGateway # <<>> /\ Head(toGateway) = l /\ toGateway' = Tail(toGateway)
       \/ hungUp /\ toGateway = <<>> /\ UNCHANGED toGateway /\ l = <<"?", Serial!Bad>>
    /\ Head(script)[2] \in MessageFields =>
          /\ from_address' = IF Head(script)[2] = "ADDRESS" THEN Serial!readSendAddress(l) ELSE from_address
          /\ data' = IF Head(script)[2] = "DATA" THEN Serial!readData(l) ELSE data
    /\ UNCHANGED <<gateway, fd, toBridge, bridge, hungUp, handed>>

\* What is written is a line.
LEMMA WrittenLine ==
  ASSUME NEW c \in Commands, c[1] = "write"
  PROVE  Tail(c) \in Spoken /\ Tail(c)[1] = c[2]
<1>1. c \in {"write"} \X Keywords \X Arguments
  BY DEF Commands, ConfigCommands, MessageCommands, PlainCommands, EndCommands
<1>2. c = <<c[1], c[2], c[3]>> /\ c[2] \in Keywords /\ c[3] \in Arguments
  BY <1>1
<1>3. Tail(c) = <<c[2], c[3]>>
  <2>1. Tail(<<c[1], c[2], c[3]>>) = <<c[2], c[3]>>
    BY TailTriple
  <2> QED  BY <1>2, <2>1
<1>4. \A x, y : <<x, y>>[1] = x
  OBVIOUS
<1> QED  BY <1>2, <1>3, <1>4 DEF Spoken

\* What is waited for is a line that says OK.
LEMMA AwaitedLine ==
  ASSUME NEW c, NEW what, WaitsFor(c, what)
  PROVE  c[1] = "wait" /\ Tail(c) = Serial!OK(what)
<1>1. \A a, b, d : <<a, b, d>>[1] = a
  OBVIOUS
<1> QED  BY <1>1, TailTriple DEF WaitsFor, Serial!OK

\* The command of a call is on its way, or lost with the connection.
LEMMA WrittenWaits ==
  ASSUME Typed, Scripted, Written, (hungUp => toBridge = <<>>), NEW cmd, Head(script)[2] = cmd,
         NEW what, what \notin {Serial!Bad, "IDLE"}, NEW before, NEW after, Writes(before)
  PROVE  Waits(cmd, what, before, after)'
<1>1. toBridge = <<>> /\ AllJunk(toGateway) /\ BridgeIn(before)
  BY DEF Writes
<1>2. AllJunk(toGateway') /\ BridgeIn(before)'
  BY <1>1 DEF Written, BridgeIn
<1>3. CASE hungUp
  <2>1. toBridge' = <<>> /\ hungUp'
    BY <1>1, <1>3 DEF Written
  <2> QED  BY <1>2, <2>1, JunkIs DEF Waits
<1>4. CASE ~hungUp
  <2>1. Head(script) \in Commands /\ Head(script)[1] = "write"
    BY QueueTail DEF Scripted, Written
  <2>2. Tail(Head(script)) \in Spoken /\ Tail(Head(script))[1] = cmd
    BY <2>1, WrittenLine
  <2>3. toBridge' = Append(<<>>, Tail(Head(script)))
    BY <1>1, <1>4 DEF Written
  <2>4. \A l : Len(Append(<<>>, l)) = 1 /\ Append(<<>>, l)[1] = l
    OBVIOUS
  <2>5. Len(toBridge') = 1 /\ toBridge'[1][1] = cmd
    BY <2>2, <2>3, <2>4
  <2> QED  BY <1>2, <2>5 DEF Waits, Pending
<1> QED  BY <1>3, <1>4

\* The answer leaves nothing behind that could be taken for the next.
LEMMA HeardWrites ==
  ASSUME Typed, Heard, (hungUp => toBridge = <<>>), NEW what, what \notin {Serial!Bad, "IDLE"},
         WaitsFor(Head(script), what), NEW cmd, NEW before, NEW after, Waits(cmd, what, before, after)
  PROVE  Writes(after)'
<1>1. CASE toGateway # <<>> /\ Head(toGateway) = Tail(Head(script)) /\ toGateway' = Tail(toGateway)
  <2>1. Head(toGateway) = Serial!OK(what) /\ toGateway \in Seq(Lines)
    BY <1>1, AwaitedLine DEF Typed
  <2>2. Len(toGateway) \in Nat /\ Len(toGateway) >= 1 /\ Head(toGateway) = toGateway[1]
    BY <1>1, <2>1, QueueTail
  <2>3. Has(toGateway, what)
    <3>1. 1 \in 1..Len(toGateway)
      BY <2>2
    <3> QED  BY <2>1, <2>2, <3>1 DEF Has
  <2>4. ~AllJunk(toGateway)
    BY <2>3, JunkIs
  <2>5. toBridge = <<>> /\ Clean(toGateway, what) /\ BridgeIn(after)
    BY <2>3, <2>4 DEF Waits, Pending
  <2>6. AllJunk(toGateway')
    BY <1>1, <2>1, <2>5, WaitKeeps
  <2>7. BridgeIn(after)' /\ toBridge' = <<>>
    BY <2>5 DEF Heard, BridgeIn
  <2> QED  BY <2>6, <2>7 DEF Writes
<1>2. CASE hungUp /\ toGateway = <<>> /\ UNCHANGED toGateway
  <2>1. toBridge' = <<>> /\ hungUp' /\ toGateway' = <<>>
    BY <1>2 DEF Heard
  <2> QED  BY <2>1, NoLines DEF Writes, BridgeIn
<1> QED  BY <1>1, <1>2 DEF Heard

\* At the end of a call what a restart says is skipped.
LEMMA HeardResting ==
  ASSUME Typed, Typed', Heard, NEW states, Writes(states)
  PROVE  Writes(states)'
<1>1. toBridge' = <<>> /\ BridgeIn(states)'
  BY DEF Writes, BridgeIn, Heard
<1>2. CASE toGateway # <<>> /\ toGateway' = Tail(toGateway)
  <2>1. Thins(toGateway, toGateway')
    BY <1>2, ThinTail DEF Typed
  <2> QED  BY <1>1, <2>1, ThinKeeps DEF Writes, Typed
<1>3. CASE UNCHANGED toGateway
  BY <1>1, <1>3 DEF Writes
<1> QED  BY <1>2, <1>3 DEF Heard

\* What a send leaves on the line, by the number of steps that are left.
SendPhase(n) ==
    /\ n \in {7, 1} => Resting
    /\ n = 6 => Waits("SEND", "AWAIT_ADDRESS", {"idle"}, {"idle", "await_address"})
    /\ n = 5 => Writes({"idle", "await_address"})
    /\ n = 4 => Waits("ADDRESS", "AWAIT_DATA", {"idle", "await_address"}, {"idle", "await_data"})
    /\ n = 3 => Writes({"idle", "await_data"})
    /\ n = 2 => Waits("DATA", "SENDING", {"idle", "await_data"}, {"idle"})
Sending == \E full \in SendScripts, n \in 1..7 : Rest(full) /\ n = Len(script) /\ SendPhase(n)

\* The words of a send are none of the words of a restart or a garbled line.
LEMMA SendWords == {"AWAIT_ADDRESS", "AWAIT_DATA", "SENDING", "SEND_ADDRESS", "SEND_STATUS", "SEND_DATA"} \cap {Serial!Bad, "IDLE"} = {}
  BY DEF Serial!Bad

\* Faults in the middle of a send.
LEMMA StormSending ==
  ASSUME Typed, Typed', Storm, Sending
  PROVE  Sending'
<1>1. PICK full \in SendScripts, n \in 1..7 : Rest(full) /\ n = Len(script) /\ SendPhase(n)
  BY DEF Sending
<1>2. Rest(full)' /\ n = Len(script')
  BY <1>1 DEF Rest, Storm
<1>3. SendPhase(n)'
  <2>1. n \in {7, 1} => Resting'
    BY <1>1, StormWrites DEF SendPhase, Resting
  <2>2. n = 6 => Waits("SEND", "AWAIT_ADDRESS", {"idle"}, {"idle", "await_address"})'
    BY <1>1, StormWaits, SendWords DEF SendPhase
  <2>3. n = 5 => Writes({"idle", "await_address"})'
    BY <1>1, StormWrites DEF SendPhase
  <2>4. n = 4 => Waits("ADDRESS", "AWAIT_DATA", {"idle", "await_address"}, {"idle", "await_data"})'
    BY <1>1, StormWaits, SendWords DEF SendPhase
  <2>5. n = 3 => Writes({"idle", "await_data"})'
    BY <1>1, StormWrites DEF SendPhase
  <2>6. n = 2 => Waits("DATA", "SENDING", {"idle", "await_data"}, {"idle"})'
    BY <1>1, StormWaits, SendWords DEF SendPhase
  <2> QED  BY <2>1, <2>2, <2>3, <2>4, <2>5, <2>6 DEF SendPhase
<1> QED  BY <1>2, <1>3 DEF Sending

\* The bridge answers in the middle of a send.
LEMMA AnswerSending ==
  ASSUME Typed, Answered, Sending
  PROVE  Sending'
<1>1. PICK full \in SendScripts, n \in 1..7 : Rest(full) /\ n = Len(script) /\ SendPhase(n)
  BY DEF Sending
<1>2. Rest(full)' /\ n = Len(script')
  BY <1>1 DEF Rest, Answered
<1>3. n \notin {7, 5, 3, 1}
  BY <1>1 DEF SendPhase, Answered, Writes, Resting
<1>4. n = 6 => Waits("SEND", "AWAIT_ADDRESS", {"idle"}, {"idle", "await_address"})'
  <2>1. \A l : l[1] = "SEND" /\ bridge \in {"idle"} => \A a \in Serial!Answers(l) :
            Clean(a.lines, "AWAIT_ADDRESS") /\ (Has(a.lines, "AWAIT_ADDRESS") => a.state \in {"idle", "await_address"})
    BY AnswerSend
  <2> QED  BY <1>1, <2>1, AnswerWaits, SendWords DEF SendPhase
<1>5. n = 4 => Waits("ADDRESS", "AWAIT_DATA", {"idle", "await_address"}, {"idle", "await_data"})'
  <2>1. \A l : l[1] = "ADDRESS" /\ bridge \in {"idle", "await_address"} => \A a \in Serial!Answers(l) :
            Clean(a.lines, "AWAIT_DATA") /\ (Has(a.lines, "AWAIT_DATA") => a.state \in {"idle", "await_data"})
    BY AnswerSend
  <2> QED  BY <1>1, <2>1, AnswerWaits, SendWords DEF SendPhase
<1>6. n = 2 => Waits("DATA", "SENDING", {"idle", "await_data"}, {"idle"})'
  <2>1. \A l : l[1] = "DATA" /\ bridge \in {"idle", "await_data"} => \A a \in Serial!Answers(l) :
            Clean(a.lines, "SENDING") /\ (Has(a.lines, "SENDING") => a.state \in {"idle"})
    BY AnswerSend
  <2> QED  BY <1>1, <2>1, AnswerWaits, SendWords DEF SendPhase
<1>7. SendPhase(n)'
  BY <1>3, <1>4, <1>5, <1>6 DEF SendPhase
<1> QED  BY <1>2, <1>7 DEF Sending

\* A step of a send.
LEMMA StepSending ==
  ASSUME Typed, Typed', Scripted, (hungUp => toBridge = <<>>), Written \/ Heard, Sending
  PROVE  Sending' \/ (script' = <<>> /\ Resting')
<1>1. PICK full \in SendScripts, n \in 1..7 : Rest(full) /\ n = Len(script) /\ SendPhase(n)
  BY DEF Sending
<1>h. /\ Len(full) = 7
      /\ n = 7 => Says(Head(script), "write", "SEND")
      /\ n = 6 => WaitsFor(Head(script), "AWAIT_ADDRESS")
      /\ n = 5 => Says(Head(script), "write", "ADDRESS")
      /\ n = 4 => WaitsFor(Head(script), "AWAIT_DATA")
      /\ n = 3 => Says(Head(script), "write", "DATA")
      /\ n = 2 => WaitsFor(Head(script), "SENDING")
      /\ n = 1 => WaitsFor(Head(script), "IDLE")
  BY <1>1, SendHead
<1>k. /\ Says(Head(script), "write", "SEND") \/ Says(Head(script), "write", "ADDRESS") \/ Says(Head(script), "write", "DATA")
           => Written
      /\ (\E w : WaitsFor(Head(script), w)) => Heard
  BY AwaitedLine DEF Written, Heard, Says
<1>t. script' = Tail(script)
  BY DEF Written, Heard
<1>2. n # 1 => Rest(full)' /\ Len(script') = n - 1 /\ n - 1 \in 1..7
  <2>1. Len(full) \in Nat
    BY <1>h
  <2>2. n # 1 => Rest(full)' /\ Len(script') = n - 1
    BY <1>1, <1>t, <2>1, RestTail
  <2> QED  BY <2>2
<1>3. n = 1 => script' = <<>>
  <2>1. Len(full) \in Nat
    BY <1>h
  <2> QED  BY <1>1, <1>t, <2>1, RestTail
<1>7. n = 7 => Waits("SEND", "AWAIT_ADDRESS", {"idle"}, {"idle", "await_address"})'
  BY <1>1, <1>h, <1>k, WrittenWaits, SendWords DEF SendPhase, Resting, Says
<1>6. n = 6 => Writes({"idle", "await_address"})'
  BY <1>1, <1>h, <1>k, HeardWrites, SendWords DEF SendPhase
<1>5. n = 5 => Waits("ADDRESS", "AWAIT_DATA", {"idle", "await_address"}, {"idle", "await_data"})'
  BY <1>1, <1>h, <1>k, WrittenWaits, SendWords DEF SendPhase, Says
<1>4. n = 4 => Writes({"idle", "await_data"})'
  BY <1>1, <1>h, <1>k, HeardWrites, SendWords DEF SendPhase
<1>33. n = 3 => Waits("DATA", "SENDING", {"idle", "await_data"}, {"idle"})'
  BY <1>1, <1>h, <1>k, WrittenWaits, SendWords DEF SendPhase, Says
<1>22. n = 2 => Resting'
  BY <1>1, <1>h, <1>k, HeardWrites, SendWords DEF SendPhase, Resting
<1>11. n = 1 => Resting'
  BY <1>1, <1>h, <1>k, HeardResting DEF SendPhase, Resting
<1>8. n # 1 => SendPhase(n - 1)'
  BY <1>7, <1>6, <1>5, <1>4, <1>33, <1>22 DEF SendPhase
<1> QED  BY <1>2, <1>3, <1>8, <1>11 DEF Sending

-----------------------------------------------------------------------------
(* A loop *)

\* What has been read of the one message on the line, by the number of steps that are left.
Kept(n, m) ==
    /\ n < 5 => from_address \in {Serial!Zero, m[1]}
    /\ n < 3 => data \in {Serial!NoData, m[2]}

\* What loop() has asked for is on its way, or the answer; then it is read.
AsksForMessage ==
    /\ BridgeIn({"idle"})
    /\ \/ Pending("RECEIVE")
       \/ /\ toBridge = <<>> /\ Framed(toGateway, "SEND_ADDRESS")
          /\ \E m \in Messages : OfOne(toGateway, m)
ReadsMessage(n) ==
    /\ BridgeIn({"idle"}) /\ toBridge = <<>> /\ Clean(toGateway, "IDLE")
    /\ \E m \in Messages : OfOne(toGateway, m) /\ Kept(n, m)
HasMessage == Resting /\ \E m \in Messages : Kept(1, m)

LoopPhase(n) ==
    /\ n = 7 => Resting
    /\ n = 6 => AsksForMessage
    /\ n \in {2, 3, 4, 5} => ReadsMessage(n)
    /\ n = 1 => HasMessage
Receiving == \E n \in 1..7 : Rest(Serial!LoopScript) /\ n = Len(script) /\ LoopPhase(n)

\* There is always the message that is none.
LEMMA SomeMessage == \E m \in Messages : TRUE
  BY DEF Messages

\* Faults in the middle of a loop.
LEMMA StormReceiving ==
  ASSUME Typed, Typed', Storm, Receiving
  PROVE  Receiving'
<1>1. PICK n \in 1..7 : Rest(Serial!LoopScript) /\ n = Len(script) /\ LoopPhase(n)
  BY DEF Receiving
<1>2. Rest(Serial!LoopScript)' /\ n = Len(script')
  BY <1>1 DEF Rest, Storm
<1>b. BridgeIn({"idle"}) => BridgeIn({"idle"})'
  BY DEF Storm, BridgeIn
<1>w. /\ \A what : what # Serial!Bad /\ Clean(toGateway, what) => Clean(toGateway', what)
      /\ \A what : what # Serial!Bad /\ Framed(toGateway, what) => Framed(toGateway', what)
      /\ \A m : OfOne(toGateway, m) => OfOne(toGateway', m)
  BY WeatherKeeps DEF Storm, Typed
<1>e. toBridge = <<>> => toBridge' = <<>>
  BY FadeEmpty DEF Storm
<1>k. \A m : Kept(n, m) => Kept(n, m)'
  BY DEF Kept, Storm
<1>i. "IDLE" # Serial!Bad /\ "SEND_ADDRESS" # Serial!Bad
  BY DEF Serial!Bad
<1>3. n = 7 => Resting'
  BY <1>1, StormWrites DEF LoopPhase, Resting
<1>4. ASSUME n = 6 PROVE AsksForMessage'
  <2>1. AsksForMessage /\ BridgeIn({"idle"})'
    BY <1>1, <1>4, <1>b DEF LoopPhase, AsksForMessage
  <2>2. CASE Pending("RECEIVE")
    <3>1. Pending("RECEIVE")' \/ (toBridge' = <<>> /\ AllJunk(toGateway'))
      BY <2>2, StormPending
    <3>2. CASE toBridge' = <<>> /\ AllJunk(toGateway')
      BY <2>1, <3>2, JunkIs, SomeMessage DEF AsksForMessage
    <3> QED  BY <2>1, <3>1, <3>2 DEF AsksForMessage
  <2>3. CASE toBridge = <<>> /\ Framed(toGateway, "SEND_ADDRESS") /\ \E m \in Messages : OfOne(toGateway, m)
    BY <2>1, <2>3, <1>w, <1>e, <1>i DEF AsksForMessage
  <2> QED  BY <2>1, <2>2, <2>3 DEF AsksForMessage
<1>5. ASSUME n \in {2, 3, 4, 5} PROVE ReadsMessage(n)'
  <2>1. ReadsMessage(n)
    BY <1>1, <1>5 DEF LoopPhase
  <2>2. PICK m \in Messages : OfOne(toGateway, m) /\ Kept(n, m)
    BY <2>1 DEF ReadsMessage
  <2>3. OfOne(toGateway', m) /\ Kept(n, m)'
    BY <2>2, <1>w, <1>k
  <2>4. BridgeIn({"idle"})' /\ toBridge' = <<>> /\ Clean(toGateway', "IDLE")
    BY <2>1, <1>b, <1>e, <1>w, <1>i DEF ReadsMessage
  <2> QED  BY <2>3, <2>4 DEF ReadsMessage
<1>6. ASSUME n = 1 PROVE HasMessage'
  <2>1. HasMessage
    BY <1>1, <1>6 DEF LoopPhase
  <2>2. Resting'
    BY <2>1, StormWrites DEF HasMessage, Resting
  <2>3. \E m \in Messages : Kept(1, m)'
    BY <1>6, <1>k, <2>1 DEF HasMessage
  <2> QED  BY <2>2, <2>3 DEF HasMessage
<1>7. LoopPhase(n)'
  BY <1>3, <1>4, <1>5, <1>6 DEF LoopPhase
<1> QED  BY <1>2, <1>7 DEF Receiving

\* The bridge answers in the middle of a loop.
LEMMA AnswerReceiving ==
  ASSUME Typed, Answered, Receiving
  PROVE  Receiving'
<1>1. PICK n \in 1..7 : Rest(Serial!LoopScript) /\ n = Len(script) /\ LoopPhase(n)
  BY DEF Receiving
<1>2. Rest(Serial!LoopScript)' /\ n = Len(script')
  BY <1>1 DEF Rest, Answered
<1>3. n \notin {7, 5, 4, 3, 2, 1}
  BY <1>1 DEF LoopPhase, Answered, Writes, Resting, ReadsMessage, HasMessage
<1>4. n = 6 /\ AsksForMessage
  BY <1>1, <1>3 DEF LoopPhase
<1>5. Pending("RECEIVE") /\ bridge = "idle"
  BY <1>4 DEF AsksForMessage, Answered, BridgeIn
<1>6. PICK a \in Serial!Answers(Head(toBridge)) : toGateway' = toGateway \o a.lines /\ bridge' = a.state
  BY DEF Answered
<1>7. toBridge' = <<>> /\ a.lines \in Seq(Lines) /\ AllJunk(toGateway) /\ Head(toBridge)[1] \in {"RECEIVE", "?"}
  BY <1>5, AnswerPending
<1>8. a.state = "idle" /\ Framed(a.lines, "SEND_ADDRESS") /\ \E m \in Messages : OfOne(a.lines, m)
  <2>1. CASE Head(toBridge)[1] = "RECEIVE"
    BY <1>5, <2>1, AnswerReceive
  <2>2. CASE Head(toBridge)[1] = "?"
    <3>1. AllJunk(a.lines) /\ a.state = "idle"
      BY <1>5, <2>2, AnswerOther
    <3> QED  BY <3>1, JunkIs, SomeMessage
  <2> QED  BY <1>7, <2>1, <2>2
<1>9. Framed(toGateway', "SEND_ADDRESS") /\ \E m \in Messages : OfOne(toGateway', m)
  BY <1>6, <1>7, <1>8, JoinKeeps, SendWords DEF Typed
<1>10. AsksForMessage'
  BY <1>6, <1>7, <1>8, <1>9 DEF AsksForMessage, BridgeIn
<1>11. LoopPhase(n)'
  BY <1>4, <1>10 DEF LoopPhase
<1> QED  BY <1>2, <1>11 DEF Receiving

\* The end of loop(): what was read is handed to Core, unless its address is nobody's.
Delivered ==
    /\ script # <<>> /\ Head(script)[1] = "receiveData" /\ script' = Tail(script)
    /\ handed' = IF from_address = Serial!Zero THEN handed ELSE <<from_address, data>>
    /\ UNCHANGED <<gateway, fd, toBridge, toGateway, bridge, hungUp, from_address, data>>

\* One step less is left.
LEMMA OneLess == \A n \in 1..7 : n # 1 => n - 1 \in 1..7
  OBVIOUS

\* What is left of loop() after a step of it.
LEMMA LoopGoesOn ==
  ASSUME Scripted, script' = Tail(script), NEW n \in 1..7, Rest(Serial!LoopScript), n = Len(script)
  PROVE  /\ n # 1 => Rest(Serial!LoopScript)' /\ Len(script') = n - 1 /\ n - 1 \in 1..7
         /\ n = 1 => script' = <<>>
<1>1. Len(Serial!LoopScript) = 7
  BY LoopHead
<1>2. Len(Serial!LoopScript) \in Nat
  <2> DEFINE k == Len(Serial!LoopScript)
  <2>1. k = 7
    BY <1>1
  <2> HIDE DEF k
  <2>2. k \in Nat
    BY <2>1
  <2> QED  BY <2>2 DEF k
<1>3. /\ n # 1 => Rest(Serial!LoopScript)' /\ Len(script') = n - 1
      /\ n = 1 => script' = <<>>
  BY <1>2, RestTail
<1> QED  BY <1>3, OneLess

\* Lines that are taken off the line leave those of the same message.
LEMMA TakenKeeps ==
  ASSUME toGateway \in Seq(Lines), toGateway # <<>>, toGateway' = Tail(toGateway)
  PROVE  /\ Clean(toGateway, "IDLE") => Clean(toGateway', "IDLE")
         /\ \A m : OfOne(toGateway, m) => OfOne(toGateway', m)
         /\ AllJunk(toGateway) => AllJunk(toGateway')
         /\ \A m : OfOne(toGateway, m) => /\ Head(toGateway)[1] = "ADDRESS" => Head(toGateway)[2] \in {m[1], Serial!Bad}
                                          /\ Head(toGateway)[1] = "DATA" => Head(toGateway)[2] \in {m[2], Serial!Bad}
<1>1. Thins(toGateway, toGateway') /\ toGateway' \in Seq(Lines)
  BY ThinTail, QueueTail
<1>2. "IDLE" # Serial!Bad
  BY DEF Serial!Bad
<1>3. 1 \in 1..Len(toGateway) /\ Head(toGateway) = toGateway[1]
  BY QueueTail
<1>4. \A m : OfOne(toGateway, m) => /\ Head(toGateway)[1] = "ADDRESS" => Head(toGateway)[2] \in {m[1], Serial!Bad}
                                    /\ Head(toGateway)[1] = "DATA" => Head(toGateway)[2] \in {m[2], Serial!Bad}
  BY <1>3 DEF OfOne
<1> QED  BY <1>1, <1>2, <1>4, ThinKeeps

\* A read of loop() gives a part of the message, or nothing.
LEMMA TookPart ==
  ASSUME toGateway \in Seq(Lines), NEW l, Took(l), NEW m, OfOne(toGateway, m)
  PROVE  Serial!readSendAddress(l) \in {Serial!Zero, m[1]} /\ Serial!readData(l) \in {Serial!NoData, m[2]}
<1>1. CASE toGateway # <<>> /\ Head(toGateway) = l /\ toGateway' = Tail(toGateway)
  BY <1>1, TakenKeeps DEF Serial!readSendAddress, Serial!readData
<1>2. CASE l = <<"?", Serial!Bad>>
  BY <1>2 DEF Serial!readSendAddress, Serial!readData
<1> QED  BY <1>1, <1>2 DEF Took

\* A step that reads or waits leaves a line such that the reading goes on.
LEMMA LineGoesOnReading ==
  ASSUME Typed, Heard \/ (\E l : Took(l)), NEW n, ReadsMessage(n)
  PROVE  /\ BridgeIn({"idle"})' /\ toBridge' = <<>> /\ Clean(toGateway', "IDLE")
         /\ \A m : OfOne(toGateway, m) => OfOne(toGateway', m)
<1>1. BridgeIn({"idle"})' /\ toBridge' = <<>>
  BY DEF Heard, Took, BridgeIn, ReadsMessage
<1>2. (toGateway # <<>> /\ toGateway' = Tail(toGateway)) \/ toGateway' = toGateway
  BY DEF Heard, Took
<1>3. CASE toGateway # <<>> /\ toGateway' = Tail(toGateway)
  BY <1>1, <1>3, TakenKeeps DEF ReadsMessage, Typed
<1>4. CASE toGateway' = toGateway
  BY <1>1, <1>4 DEF ReadsMessage
<1> QED  BY <1>2, <1>3, <1>4

\* The answer to RECEIVE begins.
LEMMA HeardAsked ==
  ASSUME Typed, Heard, (hungUp => toBridge = <<>>), WaitsFor(Head(script), "SEND_ADDRESS"), AsksForMessage
  PROVE  ReadsMessage(5)'
<1>k. \A m : Kept(5, m)'
  BY DEF Kept
<1>b. BridgeIn({"idle"})'
  BY DEF AsksForMessage, Heard, BridgeIn
<1>1. CASE toGateway # <<>> /\ Head(toGateway) = Tail(Head(script)) /\ toGateway' = Tail(toGateway)
  <2>1. Head(toGateway) = Serial!OK("SEND_ADDRESS") /\ toGateway \in Seq(Lines)
    BY <1>1, AwaitedLine DEF Typed
  <2>2. Has(toGateway, "SEND_ADDRESS")
    <3>1. 1 \in 1..Len(toGateway) /\ Head(toGateway) = toGateway[1]
      BY <1>1, <2>1, QueueTail
    <3> QED  BY <2>1, <3>1 DEF Has
  <2>3. ~AllJunk(toGateway)
    BY <2>2, JunkIs, SendWords
  <2>4. toBridge = <<>> /\ Framed(toGateway, "SEND_ADDRESS") /\ \E m \in Messages : OfOne(toGateway, m)
    BY <2>3 DEF AsksForMessage, Pending
  <2>5. Clean(toGateway', "IDLE")
    BY <1>1, <2>1, <2>4, WaitKeeps
  <2>6. \E m \in Messages : OfOne(toGateway', m)
    BY <1>1, <2>1, <2>4, TakenKeeps
  <2>7. toBridge' = <<>>
    BY <2>4 DEF Heard
  <2> QED  BY <1>b, <1>k, <2>5, <2>6, <2>7 DEF ReadsMessage
<1>2. CASE hungUp /\ toGateway = <<>> /\ UNCHANGED toGateway
  <2>1. toBridge' = <<>> /\ AllJunk(toGateway')
    BY <1>2, NoLines DEF Heard
  <2> QED  BY <1>b, <1>k, <2>1, JunkIs, SomeMessage DEF ReadsMessage
<1> QED  BY <1>1, <1>2 DEF Heard

\* The answer to RECEIVE ends.
LEMMA HeardEnd ==
  ASSUME Typed, Heard, WaitsFor(Head(script), "IDLE"), ReadsMessage(2)
  PROVE  HasMessage'
<1>1. PICK m \in Messages : Kept(2, m)
  BY DEF ReadsMessage
<1>2. Kept(1, m)'
  BY <1>1 DEF Kept, Heard
<1>3. BridgeIn({"idle"})' /\ toBridge' = <<>>
  BY DEF ReadsMessage, Heard, BridgeIn
<1>4. AllJunk(toGateway')
  <2>1. CASE toGateway # <<>> /\ Head(toGateway) = Tail(Head(script)) /\ toGateway' = Tail(toGateway)
    BY <2>1, AwaitedLine, WaitKeeps DEF Typed, ReadsMessage
  <2>2. CASE toGateway = <<>> /\ UNCHANGED toGateway
    BY <2>2, NoLines
  <2> QED  BY <2>1, <2>2 DEF Heard
<1> QED  BY <1>2, <1>3, <1>4 DEF HasMessage, Resting, Writes

\* A step of loop().
LEMMA StepReceiving ==
  ASSUME Typed, Scripted, (hungUp => toBridge = <<>>), Written \/ Heard \/ (\E l : Took(l)), Receiving
  PROVE  Receiving'
<1>1. PICK n \in 1..7 : Rest(Serial!LoopScript) /\ n = Len(script) /\ LoopPhase(n)
  BY DEF Receiving
<1>h. /\ n = 7 => Says(Head(script), "write", "RECEIVE")
      /\ n = 6 => WaitsFor(Head(script), "SEND_ADDRESS")
      /\ n = 5 => Says(Head(script), "read", "ADDRESS")
      /\ n = 4 => WaitsFor(Head(script), "SEND_DATA")
      /\ n = 3 => Says(Head(script), "read", "DATA")
      /\ n = 2 => WaitsFor(Head(script), "IDLE")
      /\ n = 1 => Head(script)[1] = "receiveData"
  BY <1>1, LoopHead
<1>k. /\ Says(Head(script), "write", "RECEIVE") => Written
      /\ Says(Head(script), "read", "ADDRESS") \/ Says(Head(script), "read", "DATA") => \E l : Took(l)
      /\ (\E w : WaitsFor(Head(script), w)) => Heard
      /\ Head(script)[1] # "receiveData"
  BY AwaitedLine DEF Written, Heard, Took, Says
<1>t. script' = Tail(script)
  BY DEF Written, Heard, Took
<1>2. n # 1 /\ Rest(Serial!LoopScript)' /\ Len(script') = n - 1 /\ n - 1 \in 1..7
  BY <1>1, <1>h, <1>k, <1>t, LoopGoesOn
<1>7. ASSUME n = 7 PROVE AsksForMessage'
  <2>1. Resting /\ Written /\ Head(script)[2] = "RECEIVE"
    BY <1>1, <1>7, <1>h, <1>k DEF LoopPhase, Says
  <2>2. Waits("RECEIVE", "SEND_ADDRESS", {"idle"}, {"idle"})'
    BY <2>1, WrittenWaits, SendWords DEF Resting
  <2>3. BridgeIn({"idle"})'
    BY <2>1 DEF Resting, Writes, Written, BridgeIn
  <2>4. AllJunk(toGateway')
    BY <2>1 DEF Resting, Writes, Written
  <2> QED  BY <2>2, <2>3, <2>4, JunkIs, SomeMessage DEF Waits, AsksForMessage
<1>6. n = 6 => ReadsMessage(5)'
  BY <1>1, <1>h, <1>k, HeardAsked DEF LoopPhase
<1>5. ASSUME n = 5 PROVE ReadsMessage(4)'
  <2>1. ReadsMessage(5) /\ Head(script)[2] = "ADDRESS"
    BY <1>1, <1>5, <1>h DEF LoopPhase, Says
  <2>2. PICK l : Took(l)
    BY <1>5, <1>h, <1>k
  <2>3. PICK m \in Messages : OfOne(toGateway, m)
    BY <2>1 DEF ReadsMessage
  <2>4. from_address' \in {Serial!Zero, m[1]}
    BY <2>1, <2>2, <2>3, TookPart DEF Took, MessageFields, Typed
  <2>5. Kept(4, m)'
    BY <2>4 DEF Kept
  <2> QED  BY <2>1, <2>2, <2>3, <2>5, LineGoesOnReading DEF ReadsMessage
<1>4. ASSUME n = 4 PROVE ReadsMessage(3)'
  <2>1. ReadsMessage(4) /\ Heard
    BY <1>1, <1>4, <1>h, <1>k DEF LoopPhase
  <2>2. \A m : Kept(4, m) => Kept(3, m)'
    BY <2>1 DEF Kept, Heard
  <2> QED  BY <2>1, <2>2, LineGoesOnReading DEF ReadsMessage
<1>3. ASSUME n = 3 PROVE ReadsMessage(2)'
  <2>1. ReadsMessage(3) /\ Head(script)[2] = "DATA"
    BY <1>1, <1>3, <1>h DEF LoopPhase, Says
  <2>2. PICK l : Took(l)
    BY <1>3, <1>h, <1>k
  <2>3. PICK m \in Messages : OfOne(toGateway, m) /\ Kept(3, m)
    BY <2>1 DEF ReadsMessage
  <2>4. data' \in {Serial!NoData, m[2]} /\ from_address' = from_address
    BY <2>1, <2>2, <2>3, TookPart DEF Took, MessageFields, Typed
  <2>5. Kept(2, m)'
    BY <2>3, <2>4 DEF Kept
  <2> QED  BY <2>1, <2>2, <2>3, <2>5, LineGoesOnReading DEF ReadsMessage
<1>22. n = 2 => HasMessage'
  BY <1>1, <1>h, <1>k, HeardEnd DEF LoopPhase
<1>8. LoopPhase(n - 1)'
  BY <1>2, <1>7, <1>6, <1>5, <1>4, <1>3, <1>22 DEF LoopPhase
<1> QED  BY <1>2, <1>8 DEF Receiving

\* What loop() hands to Core.
LEMMA DeliverReceiving ==
  ASSUME Scripted, Delivered, Receiving, Serial!Attributed
  PROVE  script' = <<>> /\ Resting' /\ Serial!Attributed'
<1>1. PICK n \in 1..7 : Rest(Serial!LoopScript) /\ n = Len(script) /\ LoopPhase(n)
  BY DEF Receiving
<1>2. n = 1
  <2>1. /\ n = 7 => Says(Head(script), "write", "RECEIVE")
        /\ n = 6 => WaitsFor(Head(script), "SEND_ADDRESS")
        /\ n = 5 => Says(Head(script), "read", "ADDRESS")
        /\ n = 4 => WaitsFor(Head(script), "SEND_DATA")
        /\ n = 3 => Says(Head(script), "read", "DATA")
        /\ n = 2 => WaitsFor(Head(script), "IDLE")
    BY <1>1, LoopHead
  <2>2. Head(script)[1] = "receiveData"
    BY DEF Delivered
  <2> QED  BY <2>1, <2>2, AwaitedLine DEF Says
<1>3. script' = <<>>
  BY <1>1, <1>2, LoopGoesOn DEF Delivered
<1>4. HasMessage
  BY <1>1, <1>2 DEF LoopPhase
<1>5. Resting'
  BY <1>4 DEF HasMessage, Resting, Writes, BridgeIn, Delivered
<1>6. Serial!Attributed'
  <2>1. CASE from_address = Serial!Zero
    BY <2>1 DEF Delivered, Serial!Attributed, Serial!Zero, Serial!NoData
  <2>2. CASE from_address # Serial!Zero
    <3>1. PICK m \in Messages : from_address \in {Serial!Zero, m[1]} /\ data \in {Serial!NoData, m[2]}
      BY <1>4 DEF HasMessage, Kept
    <3>2. m \in Radio
      BY <2>2, <3>1 DEF Messages
    <3>3. m = <<m[1], m[2]>> /\ m[1] \in Addresses
      BY <3>2, ConstantsAssumption DEF Serial!ConstantsOK
    <3>4. handed' = <<from_address, data>> /\ from_address = m[1]
      BY <2>2, <3>1 DEF Delivered
    <3>5. CASE data = m[2]
      BY <3>2, <3>3, <3>4, <3>5 DEF Serial!Attributed
    <3>6. CASE data = Serial!NoData
      BY <3>3, <3>4, <3>6 DEF Serial!Attributed, Serial!Zero, Serial!NoData
    <3> QED  BY <3>1, <3>5, <3>6
  <2> QED  BY <2>1, <2>2
<1> QED  BY <1>3, <1>5, <1>6

-----------------------------------------------------------------------------
(* begin() and getMaximumMessageLength *)

\* The gateway has written nothing but resets, and cmd as the last line.
Asking(s, cmd) ==
    \A i \in 1..Len(s) : s[i][1] \in {"RESET", "?"} \/ (i = Len(s) /\ s[i][1] = cmd)

ConfigPhase(n) ==
    /\ n \in {13, 14, 15} => Asking(toBridge, "RESET") /\ AllJunk(toGateway)
    /\ n = 12 => /\ Asking(toBridge, "CONFIGURATION") /\ Framed(toGateway, "SEND_STATUS")
                 /\ toBridge # <<>> => AllJunk(toGateway)
    /\ n \in 2..11 => toBridge = <<>> /\ Clean(toGateway, "IDLE")
    /\ n = 1 => Resting
AtConfiguration == \E full \in ConfigScripts, n \in 1..15 : Rest(full) /\ n = Len(script) /\ ConfigPhase(n)
Configuring ==
    /\ BridgeIn({"idle"})
    /\ ~fd => toBridge = <<>> /\ toGateway = <<>>
    /\ IF script = <<>> THEN toBridge = <<>> ELSE AtConfiguration

\* The lines that are left of those the gateway has written.
LEMMA AskingFades ==
  ASSUME NEW s \in Seq(Spoken), NEW cmd, Asking(s, cmd), NEW r, Fades(s, r)
  PROVE  Asking(r, cmd)
<1>1. CASE r = s
  BY <1>1
<1>2. CASE r = <<>>
  BY <1>2 DEF Asking
<1>3. CASE s # <<>> /\ r = Tail(s)
  <2>1. Len(r) = Len(s) - 1 /\ Len(s) \in Nat /\ \A i \in 1..(Len(s) - 1) : r[i] = s[i + 1]
    BY <1>3, QueueTail
  <2>2. ASSUME NEW i \in 1..Len(r) PROVE r[i][1] \in {"RESET", "?"} \/ (i = Len(r) /\ r[i][1] = cmd)
    <3>1. i + 1 \in 1..Len(s) /\ i \in 1..(Len(s) - 1) /\ (i + 1 = Len(s) => i = Len(r))
      BY <2>1
    <3> QED  BY <2>1, <3>1 DEF Asking
  <2> QED  BY <2>2 DEF Asking
<1>4. CASE s # <<>> /\ r = [s EXCEPT ![1] = <<"?", Serial!Bad>>]
  <2>1. Len(r) = Len(s) /\ \A i \in 1..Len(s) : r[i] = IF i = 1 THEN <<"?", Serial!Bad>> ELSE s[i]
    BY <1>4
  <2>2. <<"?", Serial!Bad>>[1] = "?"
    OBVIOUS
  <2> QED  BY <2>1, <2>2 DEF Asking
<1> QED  BY <1>1, <1>2, <1>3, <1>4 DEF Fades

\* One more line is written.
LEMMA AskingAppend ==
  ASSUME NEW s \in Seq(Spoken), Asking(s, "RESET"), NEW l \in Spoken
  PROVE  Asking(Append(s, l), l[1])
<1> DEFINE r == Append(s, l)
<1>1. Len(r) = Len(s) + 1 /\ Len(s) \in Nat /\ (\A i \in 1..Len(s) : r[i] = s[i]) /\ r[Len(s) + 1] = l
  BY QueueAppend
<1> HIDE DEF r
<1>2. \A i \in 1..Len(r) : i \in 1..Len(s) \/ (i = Len(r) /\ i = Len(s) + 1)
  BY <1>1
<1>3. Asking(r, l[1])
  BY <1>1, <1>2 DEF Asking
<1> QED  BY <1>3 DEF r

\* The line the bridge reads next.
LEMMA AskingHead ==
  ASSUME NEW s \in Seq(Spoken), NEW cmd, Asking(s, cmd), s # <<>>
  PROVE  Head(s)[1] \in {"RESET", "?"} \/ (Tail(s) = <<>> /\ Head(s)[1] = cmd)
<1>1. Head(s) = s[1] /\ Len(s) \in Nat /\ Len(s) >= 1 /\ Len(Tail(s)) = Len(s) - 1 /\ Tail(s) \in Seq(Spoken)
  BY QueueTail
<1>2. 1 \in 1..Len(s)
  BY <1>1
<1>3. s[1][1] \in {"RESET", "?"} \/ (Len(s) = 1 /\ s[1][1] = cmd)
  BY <1>2 DEF Asking
<1>4. ASSUME Len(s) = 1 PROVE Tail(s) = <<>>
  <2>1. Len(Tail(s)) = 0
    BY <1>1, <1>4
  <2> QED  BY <1>1, <2>1, EmptySeq
<1> QED  BY <1>1, <1>3, <1>4

\* Faults while the configuration is asked for.
LEMMA StormConfiguring ==
  ASSUME Typed, Typed', Storm, Configuring
  PROVE  Configuring'
<1>b. BridgeIn({"idle"})'
  BY DEF Storm, BridgeIn, Configuring
<1>e. toBridge = <<>> => toBridge' = <<>>
  BY FadeEmpty DEF Storm
<1>f. (~fd => toBridge = <<>> /\ toGateway = <<>>)'
  BY DEF Configuring, Storm
<1>s. script' = script
  BY DEF Storm
<1>1. CASE script = <<>>
  BY <1>1, <1>b, <1>e, <1>f, <1>s DEF Configuring
<1>2. CASE script # <<>>
  <2>1. PICK full \in ConfigScripts, n \in 1..15 : Rest(full) /\ n = Len(script) /\ ConfigPhase(n)
    BY <1>2 DEF Configuring, AtConfiguration
  <2>2. Rest(full)' /\ n = Len(script')
    BY <2>1, <1>s DEF Rest
  <2>w. /\ AllJunk(toGateway) => AllJunk(toGateway')
        /\ \A what : what # Serial!Bad /\ Clean(toGateway, what) => Clean(toGateway', what)
        /\ \A what : what # Serial!Bad /\ Framed(toGateway, what) => Framed(toGateway', what)
    BY WeatherKeeps DEF Storm, Typed
  <2>a. \A cmd : Asking(toBridge, cmd) => Asking(toBridge', cmd)
    BY AskingFades DEF Storm, Typed
  <2>i. "IDLE" # Serial!Bad /\ "SEND_STATUS" # Serial!Bad
    BY DEF Serial!Bad
  <2>3. n \in {13, 14, 15} => Asking(toBridge', "RESET") /\ AllJunk(toGateway')
    BY <2>1, <2>w, <2>a DEF ConfigPhase
  <2>4. n = 12 => /\ Asking(toBridge', "CONFIGURATION") /\ Framed(toGateway', "SEND_STATUS")
                  /\ toBridge' # <<>> => AllJunk(toGateway')
    BY <2>1, <2>w, <2>a, <2>i, <1>e DEF ConfigPhase
  <2>5. n \in 2..11 => toBridge' = <<>> /\ Clean(toGateway', "IDLE")
    BY <2>1, <2>w, <2>i, <1>e DEF ConfigPhase
  <2>6. n = 1 => Resting'
    BY <2>1, StormWrites DEF ConfigPhase, Resting
  <2>7. ConfigPhase(n)'
    BY <2>3, <2>4, <2>5, <2>6 DEF ConfigPhase
  <2>8. AtConfiguration'
    BY <2>2, <2>7 DEF AtConfiguration
  <2> QED  BY <1>2, <1>b, <1>f, <1>s, <2>8 DEF Configuring
<1> QED  BY <1>1, <1>2

\* The bridge answers while the configuration is asked for.
LEMMA AnswerConfiguring ==
  ASSUME Typed, Answered, Configuring
  PROVE  Configuring'
<1>1. PICK full \in ConfigScripts, n \in 1..15 : Rest(full) /\ n = Len(script) /\ ConfigPhase(n)
  BY DEF Configuring, AtConfiguration, Answered
<1>2. Rest(full)' /\ n = Len(script') /\ script' = script /\ script # <<>>
  BY <1>1 DEF Rest, Answered, Configuring
<1>3. n \in {12, 13, 14, 15}
  <2>1. n = 1 \/ n \in 2..11 \/ n \in {12, 13, 14, 15}
    OBVIOUS
  <2> QED  BY <1>1, <2>1 DEF ConfigPhase, Answered, Resting, Writes
<1>4. bridge = "idle" /\ toBridge \in Seq(Spoken) /\ toBridge # <<>> /\ toBridge' = Tail(toBridge) /\ toGateway \in Seq(Lines)
  BY DEF Configuring, BridgeIn, Answered, Typed
<1>5. PICK a \in Serial!Answers(Head(toBridge)) : toGateway' = toGateway \o a.lines /\ bridge' = a.state
  BY DEF Answered
<1>6. a.lines \in Seq(Lines)
  BY AnswerLines
<1>7. AllJunk(toGateway)
  BY <1>1, <1>3, <1>4 DEF ConfigPhase
<1>8. ASSUME NEW cmd, Asking(toBridge, cmd)
      PROVE  Asking(toBridge', cmd) /\ (Head(toBridge)[1] \in {"RESET", "?"} \/ (toBridge' = <<>> /\ Head(toBridge)[1] = cmd))
  BY <1>4, <1>8, AskingFades, AskingHead DEF Fades
<1>9. Head(toBridge)[1] \in {"RESET", "?"} => AllJunk(toGateway') /\ bridge' = "idle"
  <2>1. Head(toBridge)[1] \in {"RESET", "?"} => AllJunk(a.lines) /\ a.state = "idle"
    BY <1>4, AnswerOther
  <2> QED  BY <1>4, <1>5, <1>6, <1>7, <2>1, JoinKeeps
<1>10. ConfigPhase(n)' /\ bridge' = "idle"
  <2>1. CASE n \in {13, 14, 15}
    <3>1. Asking(toBridge', "RESET") /\ Head(toBridge)[1] \in {"RESET", "?"}
      BY <1>1, <1>8, <2>1 DEF ConfigPhase
    <3> QED  BY <1>9, <2>1, <3>1 DEF ConfigPhase
  <2>2. CASE n = 12
    <3>1. /\ Asking(toBridge', "CONFIGURATION")
          /\ Head(toBridge)[1] \in {"RESET", "?"} \/ (toBridge' = <<>> /\ Head(toBridge)[1] = "CONFIGURATION")
      BY <1>1, <1>8, <2>2 DEF ConfigPhase
    <3>2. CASE Head(toBridge)[1] \in {"RESET", "?"}
      BY <1>9, <2>2, <3>1, <3>2, JunkIs DEF ConfigPhase
    <3>3. CASE toBridge' = <<>> /\ Head(toBridge)[1] = "CONFIGURATION"
      <4>1. a.state = "idle" /\ Framed(a.lines, "SEND_STATUS")
        BY <1>4, <3>3, AnswerConfiguration
      <4>2. Framed(toGateway', "SEND_STATUS")
        BY <1>4, <1>5, <1>6, <1>7, <4>1, JoinKeeps, SendWords
      <4> QED  BY <1>5, <2>2, <3>1, <3>3, <4>1, <4>2 DEF ConfigPhase
    <3> QED  BY <3>1, <3>2, <3>3
  <2> QED  BY <1>3, <2>1, <2>2
<1>11. fd' = fd /\ fd
  BY <1>4 DEF Configuring, Answered
<1>12. AtConfiguration' /\ BridgeIn({"idle"})'
  BY <1>2, <1>10 DEF AtConfiguration, BridgeIn
<1> QED  BY <1>2, <1>11, <1>12 DEF Configuring

\* Arithmetic of the steps that are left.
LEMMA ConfigCounts ==
  /\ \A n \in 1..15 : n # 1 => n - 1 \in 1..15
  /\ \A n \in 1..15 : n \in {13, 14, 15} \/ n = 12 \/ n \in 3..11 \/ n = 2 \/ n = 1
  /\ \A n \in 3..11 : n - 1 \in 2..11 /\ n - 1 \notin {1, 12, 13, 14, 15} /\ n \in 2..11
  OBVIOUS

\* A step of begin() or getMaximumMessageLength.
LEMMA StepConfiguring ==
  ASSUME Typed, Scripted, (hungUp => toBridge = <<>>), fd, Written \/ Heard \/ (\E l : Took(l)), Configuring
  PROVE  Configuring'
<1>s. script # <<>> /\ script' = Tail(script) /\ fd' = fd /\ bridge' = bridge /\ hungUp' = hungUp
  BY DEF Written, Heard, Took
<1>b. BridgeIn({"idle"})'
  BY <1>s DEF Configuring, BridgeIn
<1>1. PICK full \in ConfigScripts, n \in 1..15 : Rest(full) /\ n = Len(script) /\ ConfigPhase(n)
  BY <1>s DEF Configuring, AtConfiguration
<1>h. /\ n = 15 => Says(Head(script), "write", "RESET")
      /\ n = 14 => Head(script)[1] = "wait"
      /\ n = 13 => Says(Head(script), "write", "CONFIGURATION")
      /\ n = 12 => WaitsFor(Head(script), "SEND_STATUS")
      /\ n \in 3..11 => Head(script)[1] \in {"wait", "read"}
      /\ n = 2 => WaitsFor(Head(script), "IDLE")
      /\ n = 1 => Head(script) \in EndCommands
  BY <1>1, ConfigHead
<1>k. /\ Head(script)[1] = "write" => Written
      /\ Head(script)[1] = "wait" => Heard
      /\ Head(script)[1] \in {"wait", "read"} => Heard \/ (\E l : Took(l))
      /\ (\E w : WaitsFor(Head(script), w)) => Heard
      /\ Head(script) \notin EndCommands
  BY AwaitedLine, CommandKinds DEF Written, Heard, Took
<1>2. n # 1 /\ Rest(full)' /\ Len(script') = n - 1 /\ n - 1 \in 1..15
  <2>1. full \in Seq(Commands)
    BY ConfigPlaces
  <2>2. Len(full) \in Nat
    BY <2>1
  <2>3. n # 1
    BY <1>h, <1>k
  <2>4. Rest(full)' /\ Len(script') = n - 1
    BY <1>1, <1>s, <2>2, <2>3, RestTail
  <2> QED  BY <2>3, <2>4, ConfigCounts
<1>g. (Heard \/ (\E l : Took(l))) => (toGateway # <<>> /\ toGateway' = Tail(toGateway)) \/ toGateway' = toGateway
  BY DEF Heard, Took
<1>j. ASSUME Heard \/ (\E l : Took(l))
      PROVE  /\ AllJunk(toGateway) => AllJunk(toGateway')
             /\ Clean(toGateway, "IDLE") => Clean(toGateway', "IDLE")
             /\ toBridge' = toBridge
  <2>1. toBridge' = toBridge
    BY <1>j DEF Heard, Took
  <2> QED  BY <1>g, <1>j, <2>1, TakenKeeps DEF Typed
<1>w. ASSUME Written, Asking(toBridge, "RESET"), NEW cmd, Head(script)[2] = cmd
      PROVE  Asking(toBridge', cmd) /\ toGateway' = toGateway
  <2>1. CASE hungUp
    <3>1. toBridge' = <<>> /\ toGateway' = toGateway
      BY <1>w, <2>1 DEF Written
    <3> QED  BY <3>1 DEF Asking
  <2>2. CASE ~hungUp
    <3>1. toBridge' = Append(toBridge, Tail(Head(script))) /\ toGateway' = toGateway
      BY <1>w, <2>2 DEF Written
    <3>2. Head(script) \in Commands
      BY <1>s, QueueTail DEF Scripted
    <3>3. Tail(Head(script)) \in Spoken /\ Tail(Head(script))[1] = cmd
      BY <1>w, <3>2, WrittenLine DEF Written
    <3> QED  BY <1>w, <3>1, <3>3, AskingAppend DEF Typed
  <2> QED  BY <2>1, <2>2
<1>15. n = 15 => ConfigPhase(n - 1)'
  <2>1. n = 15 => Asking(toBridge', "RESET") /\ AllJunk(toGateway')
    BY <1>1, <1>h, <1>k, <1>w DEF ConfigPhase, Says
  <2> QED  BY <2>1 DEF ConfigPhase
<1>14. n = 14 => ConfigPhase(n - 1)'
  <2>1. n = 14 => Asking(toBridge', "RESET") /\ AllJunk(toGateway')
    BY <1>1, <1>h, <1>k, <1>j DEF ConfigPhase
  <2> QED  BY <2>1 DEF ConfigPhase
<1>13. n = 13 => ConfigPhase(n - 1)'
  <2>1. n = 13 => Asking(toBridge', "CONFIGURATION") /\ AllJunk(toGateway')
    BY <1>1, <1>h, <1>k, <1>w DEF ConfigPhase, Says
  <2> QED  BY <2>1, JunkIs DEF ConfigPhase
<1>12. ASSUME n = 12 PROVE ConfigPhase(n - 1)'
  <2>0. Heard /\ WaitsFor(Head(script), "SEND_STATUS")
    BY <1>12, <1>h, <1>k
  <2>1. toBridge' = <<>> /\ Clean(toGateway', "IDLE")
    <3>1. CASE toGateway # <<>> /\ Head(toGateway) = Tail(Head(script)) /\ toGateway' = Tail(toGateway)
      <4>1. Head(toGateway) = Serial!OK("SEND_STATUS") /\ toGateway \in Seq(Lines)
        BY <2>0, <3>1, AwaitedLine DEF Typed
      <4>2. Has(toGateway, "SEND_STATUS")
        <5>1. 1 \in 1..Len(toGateway) /\ Head(toGateway) = toGateway[1]
          BY <3>1, <4>1, QueueTail
        <5> QED  BY <4>1, <5>1 DEF Has
      <4>3. ~AllJunk(toGateway)
        BY <4>2, JunkIs, SendWords
      <4>4. toBridge = <<>> /\ Framed(toGateway, "SEND_STATUS")
        BY <1>1, <1>12, <4>3 DEF ConfigPhase
      <4> QED  BY <2>0, <3>1, <4>1, <4>4, WaitKeeps DEF Heard
    <3>2. CASE hungUp /\ toGateway = <<>> /\ UNCHANGED toGateway
      <4>1. toBridge' = <<>> /\ AllJunk(toGateway')
        BY <2>0, <3>2, NoLines DEF Heard
      <4> QED  BY <4>1, JunkIs
    <3> QED  BY <2>0, <3>1, <3>2 DEF Heard
  <2> QED  BY <1>12, <2>1 DEF ConfigPhase
<1>11. ASSUME n \in 3..11 PROVE ConfigPhase(n - 1)'
  <2>1. toBridge = <<>> /\ Clean(toGateway, "IDLE")
    BY <1>1, <1>11, ConfigCounts DEF ConfigPhase
  <2>2. toBridge' = <<>> /\ Clean(toGateway', "IDLE")
    BY <1>11, <1>h, <1>k, <1>j, <2>1
  <2> QED  BY <1>11, <2>2, ConfigCounts DEF ConfigPhase
<1>3. ASSUME n = 2 PROVE ConfigPhase(n - 1)'
  <2>0. Heard /\ WaitsFor(Head(script), "IDLE")
    BY <1>3, <1>h, <1>k
  <2>1. toBridge = <<>> /\ Clean(toGateway, "IDLE")
    BY <1>1, <1>3 DEF ConfigPhase
  <2>2. AllJunk(toGateway')
    <3>1. CASE toGateway # <<>> /\ Head(toGateway) = Tail(Head(script)) /\ toGateway' = Tail(toGateway)
      BY <2>0, <2>1, <3>1, AwaitedLine, WaitKeeps DEF Typed
    <3>2. CASE toGateway = <<>> /\ UNCHANGED toGateway
      BY <3>2, NoLines
    <3> QED  BY <2>0, <3>1, <3>2 DEF Heard
  <2>3. Resting'
    BY <1>b, <2>0, <2>1, <2>2 DEF Resting, Writes, Heard
  <2> QED  BY <1>3, <2>3 DEF ConfigPhase
<1>4. ConfigPhase(n - 1)'
  BY <1>2, <1>15, <1>14, <1>13, <1>12, <1>11, <1>3, ConfigCounts
<1>5. AtConfiguration' /\ script' # <<>>
  <2>1. AtConfiguration'
    BY <1>2, <1>4 DEF AtConfiguration
  <2>2. Len(script') # 0
    BY <1>2
  <2> QED  BY <2>1, <2>2
<1> QED  BY <1>5, <1>b, <1>s DEF Configuring

-----------------------------------------------------------------------------
(* The whole conversation *)

\* A call ends with the gateway, or fails before begin(): then nothing was left unread.
Failed ==
    /\ script' = <<>> /\ gateway' \in {"failed", "killed"}
    /\ toBridge' \in {toBridge, <<>>} /\ (hungUp' => toBridge' = <<>>) /\ UNCHANGED handed
Abandoned ==
    /\ gateway = "starting" /\ script # <<>> /\ (Head(script)[1] = "read" \/ hungUp)
    /\ script' = <<>> /\ UNCHANGED <<gateway, fd, toBridge, bridge, hungUp, handed>>

\* The line is new, or gone.
Fresh ==
    /\ gateway = "starting" /\ toBridge' = <<>> /\ toGateway' = <<>> /\ BridgeIn({"idle"})'
    /\ script' = <<>> \/ script' \in ConfigScripts
    /\ UNCHANGED <<gateway, handed>>

\* Core calls send() or loop(), or is told that the socket is connected.
Called ==
    /\ gateway = "running" /\ script = <<>> /\ script' \in SendScripts \cup {Serial!LoopScript}
    /\ UNCHANGED <<gateway, fd, toBridge, toGateway, bridge, hungUp, handed>>
Connected ==
    /\ script # <<>> /\ Head(script)[1] = "notify" /\ script' = Tail(script) /\ gateway' = "running"
    /\ UNCHANGED <<toBridge, toGateway, bridge, hungUp, handed>>

TalkStep ==
    \/ Storm \/ Answered \/ Written \/ Heard \/ (\E l : Took(l)) \/ Delivered
    \/ Failed \/ Abandoned \/ Fresh \/ Called \/ Connected

\* The inductive invariant: what is on the line fits where the script is.
Conversing ==
    /\ gateway = "starting" => Configuring
    /\ gateway = "running" => (script = <<>> /\ Resting) \/ Sending \/ Receiving
    /\ gateway \notin {"starting", "running"} => script = <<>>
LineTyped == toBridge \in Seq(Spoken) /\ (hungUp => toBridge = <<>>)

\* A script that is left is not empty.
LEMMA RestNotEmpty == ASSUME NEW full, Rest(full) PROVE script # <<>>
<1>1. ASSUME script = <<>> PROVE FALSE
  <2>1. Len(script) = 0
    BY <1>1
  <2>2. Len(script) \in 1..Len(full)
    BY DEF Rest
  <2> QED  BY <2>1, <2>2
<1> QED  BY <1>1

\* What is written stays of its type.
LEMMA LineTypedKept ==
  ASSUME LineTyped, Scripted, TalkStep
  PROVE  LineTyped'
<1>1. CASE Storm
  BY <1>1, FadeKeeps DEF LineTyped, Storm
<1>2. CASE Answered
  BY <1>2, QueueTail DEF LineTyped, Answered
<1>3. CASE Written
  <2>1. CASE hungUp
    BY <1>3, <2>1 DEF LineTyped, Written
  <2>2. CASE ~hungUp
    <3>1. Head(script) \in Commands /\ Head(script)[1] = "write"
      BY <1>3, QueueTail DEF Scripted, Written
    <3>2. Tail(Head(script)) \in Spoken
      BY <3>1, WrittenLine
    <3>3. toBridge' = Append(toBridge, Tail(Head(script))) /\ hungUp' = hungUp
      BY <1>3, <2>2 DEF Written
    <3> QED  BY <2>2, <3>2, <3>3, QueueAppend DEF LineTyped
  <2> QED  BY <2>1, <2>2
<1>4. CASE Heard \/ (\E l : Took(l)) \/ Delivered \/ Abandoned \/ Called \/ Connected
  <2>1. toBridge' = toBridge /\ hungUp' = hungUp
    BY <1>4 DEF Heard, Took, Delivered, Abandoned, Called, Connected
  <2> QED  BY <2>1 DEF LineTyped
<1>5. CASE Failed
  <2>1. toBridge' = toBridge \/ toBridge' = <<>>
    BY <1>5 DEF Failed
  <2>2. toBridge' \in Seq(Spoken)
    <3>1. <<>> \in Seq(Spoken)
      OBVIOUS
    <3>2. toBridge \in Seq(Spoken)
      BY DEF LineTyped
    <3> QED  BY <2>1, <3>1, <3>2, Zenon
  <2>3. hungUp' => toBridge' = <<>>
    BY <1>5 DEF Failed
  <2> QED  BY <2>2, <2>3 DEF LineTyped
<1>6. CASE Fresh
  BY <1>6 DEF Fresh, LineTyped
<1> QED  BY <1>1, <1>2, <1>3, <1>4, <1>5, <1>6 DEF TalkStep

\* A call before begin() that fails has read all that was asked for.
LEMMA AbandonedConfiguring ==
  ASSUME Scripted, fd, LineTyped, Configuring, Abandoned
  PROVE  Configuring'
<1>1. PICK full \in ConfigScripts, n \in 1..15 : Rest(full) /\ n = Len(script) /\ ConfigPhase(n)
  BY DEF Abandoned, Configuring, AtConfiguration
<1>2. toBridge = <<>>
  <2>1. CASE hungUp
    BY <2>1 DEF LineTyped
  <2>2. CASE Head(script)[1] = "read"
    <3>1. /\ n = 15 => Says(Head(script), "write", "RESET")
          /\ n = 14 => Head(script)[1] = "wait"
          /\ n = 13 => Says(Head(script), "write", "CONFIGURATION")
          /\ n = 12 => WaitsFor(Head(script), "SEND_STATUS")
          /\ n = 2 => WaitsFor(Head(script), "IDLE")
          /\ n = 1 => Head(script) \in EndCommands
      BY <1>1, ConfigHead
    <3>2. n \in 3..11
      BY <2>2, <3>1, ConfigCounts, AwaitedLine, CommandKinds DEF Says
    <3> QED  BY <1>1, <3>2, ConfigCounts DEF ConfigPhase
  <2> QED  BY <2>1, <2>2 DEF Abandoned
<1>3. toBridge' = <<>> /\ fd' /\ script' = <<>>
  BY <1>2 DEF Abandoned
<1>4. BridgeIn({"idle"})'
  BY DEF Configuring, BridgeIn, Abandoned
<1> QED  BY <1>3, <1>4 DEF Configuring

\* A new line.
LEMMA FreshConfiguring ==
  ASSUME Fresh
  PROVE  Configuring'
<1>1. toBridge' = <<>> /\ toGateway' = <<>> /\ BridgeIn({"idle"})'
  BY DEF Fresh
<1>2. CASE script' = <<>>
  BY <1>1, <1>2 DEF Configuring
<1>3. CASE script' # <<>>
  <2>1. PICK full \in ConfigScripts : script' = full
    BY <1>3 DEF Fresh
  <2>2. full \in Seq(Commands) /\ full # <<>> /\ Len(full) \in {13, 15}
    BY ConfigPlaces
  <2>3. Rest(full)' /\ Len(script') = Len(full)
    BY <2>1, <2>2, RestStart
  <2>4. PICK n \in {13, 15} : n = Len(full)
    BY <2>2
  <2>5. ConfigPhase(n)'
    <3>1. Asking(<<>>, "RESET") /\ AllJunk(<<>>)
      BY NoLines DEF Asking
    <3>2. n \in {13, 14, 15} /\ n # 12 /\ n \notin 2..11 /\ n # 1
      OBVIOUS
    <3> QED  BY <1>1, <3>1, <3>2 DEF ConfigPhase
  <2>6. n \in 1..15
    OBVIOUS
  <2>7. n = Len(script')
    BY <2>3, <2>4
  <2>8. AtConfiguration'
    BY <2>3, <2>5, <2>6, <2>7 DEF AtConfiguration
  <2> QED  BY <1>1, <1>3, <2>8 DEF Configuring
<1> QED  BY <1>2, <1>3

\* The end of begin() leaves nothing on the line.
LEMMA ConnectedRests ==
  ASSUME LineShape, Configuring, Connected
  PROVE  script' = <<>> /\ Resting'
<1>1. Len(script) = 1 /\ script' = <<>>
  BY EndIsLast DEF Connected
<1>2. PICK full \in ConfigScripts, n \in 1..15 : Rest(full) /\ n = Len(script) /\ ConfigPhase(n)
  BY DEF Connected, Configuring, AtConfiguration
<1>3. Resting
  BY <1>1, <1>2 DEF ConfigPhase
<1>4. Resting'
  BY <1>3 DEF Resting, Writes, BridgeIn, Connected
<1> QED  BY <1>1, <1>4

\* A call starts on a line that rests.
LEMMA CalledConverses ==
  ASSUME Called, Resting
  PROVE  Sending' \/ Receiving'
<1>r. Resting'
  BY DEF Called, Resting, Writes, BridgeIn
<1>m. MessageCommands \subseteq Commands
  BY DEF Commands
<1>1. CASE script' \in SendScripts
  <2>1. PICK full \in SendScripts : script' = full
    BY <1>1
  <2>2. full \in Seq(Commands)
    BY <1>m, MessageScripts DEF SendScripts
  <2>3. Len(full) = 7 /\ full # <<>>
    <3>1. \A b, c, d, e, f, g, h : Len(<<b, c, d, e, f, g, h>>) = 7 /\ <<b, c, d, e, f, g, h>> # <<>>
      OBVIOUS
    <3>2. PICK a \in Addresses, m \in Radio : full = Serial!SendScript(a, m[2])
      BY DEF SendScripts
    <3> QED  BY <3>1, <3>2 DEF Serial!SendScript
  <2>4. Rest(full)' /\ Len(script') = Len(full)
    BY <2>1, <2>2, <2>3, RestStart
  <2>5. SendPhase(7)'
    BY <1>r DEF SendPhase
  <2>6. 7 \in 1..7 /\ 7 = Len(script')
    BY <2>3, <2>4
  <2> QED  BY <2>4, <2>5, <2>6 DEF Sending
<1>2. CASE script' = Serial!LoopScript
  <2>2. Serial!LoopScript \in Seq(Commands)
    BY <1>m, MessageScripts
  <2>3. Len(Serial!LoopScript) = 7 /\ Serial!LoopScript # <<>>
    <3>1. \A b, c, d, e, f, g, h : Len(<<b, c, d, e, f, g, h>>) = 7 /\ <<b, c, d, e, f, g, h>> # <<>>
      OBVIOUS
    <3> QED  BY <3>1 DEF Serial!LoopScript
  <2>4. Rest(Serial!LoopScript)' /\ Len(script') = Len(Serial!LoopScript)
    BY <1>2, <2>2, <2>3, RestStart
  <2>5. LoopPhase(7)'
    BY <1>r DEF LoopPhase
  <2>6. 7 \in 1..7 /\ 7 = Len(script')
    BY <2>3, <2>4
  <2> QED  BY <2>4, <2>5, <2>6 DEF Receiving
<1> QED  BY <1>1, <1>2 DEF Called

\* A step before begin() has returned.
LEMMA StartingKept ==
  ASSUME LineShape, LineShape', LineTyped, LineTyped', Serial!Attributed, TalkStep,
         gateway = "starting", Configuring
  PROVE  Conversing' /\ Serial!Attributed'
<1>t. Typed /\ Typed' /\ Scripted
  BY DEF LineShape, LineTyped, Typed, Scripted
<1>h. ~Delivered
  <2>1. script # <<>> => Head(script)[1] # "receiveData"
    <3>1. script # <<>> => Head(script) = script[1] /\ 1 \in 1..Len(script)
      BY ScriptTail
    <3>2. \A i \in 1..Len(script) : script[i] \in ConfigCommands \/ script[i] \in EndCommands
      BY DEF LineShape
    <3> QED  BY <3>1, <3>2, CommandKinds
  <2> QED  BY <2>1 DEF Delivered
<1>a. Serial!Attributed'
  <2>1. handed' = handed
    BY <1>h DEF TalkStep, Storm, Answered, Written, Heard, Took, Failed, Abandoned, Fresh, Called, Connected
  <2> QED  BY <2>1 DEF Serial!Attributed, Serial!Zero, Serial!NoData
<1>1. CASE Storm
  <2>1. Configuring' /\ gateway' = "starting"
    BY <1>1, <1>t, StormConfiguring DEF Storm
  <2> QED  BY <1>a, <2>1 DEF Conversing
<1>2. CASE Answered
  <2>1. Configuring' /\ gateway' = "starting"
    BY <1>2, <1>t, AnswerConfiguring DEF Answered
  <2> QED  BY <1>a, <2>1 DEF Conversing
<1>3. CASE Written \/ Heard \/ (\E l : Took(l))
  <2>1. fd /\ gateway' = "starting"
    BY <1>3 DEF LineShape, Written, Heard, Took
  <2>2. Configuring'
    BY <1>3, <1>t, <2>1, StepConfiguring DEF LineTyped
  <2> QED  BY <1>a, <2>1, <2>2 DEF Conversing
<1>4. CASE Failed
  BY <1>a, <1>4 DEF Failed, Conversing
<1>5. CASE Abandoned
  <2>1. fd /\ gateway' = "starting"
    BY <1>5 DEF LineShape, Abandoned
  <2>2. Configuring'
    BY <1>5, <1>t, <2>1, AbandonedConfiguring
  <2> QED  BY <1>a, <2>1, <2>2 DEF Conversing
<1>6. CASE Fresh
  <2>1. Configuring' /\ gateway' = "starting"
    BY <1>6, FreshConfiguring DEF Fresh
  <2> QED  BY <1>a, <2>1 DEF Conversing
<1>7. CASE Connected
  <2>1. script' = <<>> /\ Resting' /\ gateway' = "running"
    BY <1>7, ConnectedRests DEF Connected
  <2> QED  BY <1>a, <2>1 DEF Conversing
<1>8. ~Called
  BY DEF Called
<1> QED  BY <1>h, <1>1, <1>2, <1>3, <1>4, <1>5, <1>6, <1>7, <1>8 DEF TalkStep

\* The heads of a send.
LEMMA SendingHead ==
  ASSUME Scripted, Sending
  PROVE  script # <<>> /\ Head(script)[1] \in {"write", "wait"}
<1>1. PICK full \in SendScripts, n \in 1..7 : Rest(full) /\ n = Len(script)
  BY DEF Sending
<1>h. /\ n = 7 => Says(Head(script), "write", "SEND")
      /\ n = 6 => WaitsFor(Head(script), "AWAIT_ADDRESS")
      /\ n = 5 => Says(Head(script), "write", "ADDRESS")
      /\ n = 4 => WaitsFor(Head(script), "AWAIT_DATA")
      /\ n = 3 => Says(Head(script), "write", "DATA")
      /\ n = 2 => WaitsFor(Head(script), "SENDING")
      /\ n = 1 => WaitsFor(Head(script), "IDLE")
      /\ script # <<>>
  BY <1>1, SendHead
<1>2. n = 7 \/ n = 6 \/ n = 5 \/ n = 4 \/ n = 3 \/ n = 2 \/ n = 1
  OBVIOUS
<1>3. Head(script)[1] \in {"write", "wait"}
  BY <1>h, <1>2, AwaitedLine DEF Says
<1> QED  BY <1>h, <1>3

\* A step while the gateway runs.
LEMMA RunningKept ==
  ASSUME LineShape, LineShape', LineTyped, LineTyped', Serial!Attributed, TalkStep,
         gateway = "running", (script = <<>> /\ Resting) \/ Sending \/ Receiving
  PROVE  Conversing' /\ Serial!Attributed'
<1>t. Typed /\ Typed' /\ Scripted /\ (hungUp => toBridge = <<>>)
  BY DEF LineShape, LineTyped, Typed, Scripted
<1>n. ~Connected /\ ~Abandoned /\ ~Fresh
  <2>1. ~Connected
    BY EndIsLast DEF Connected
  <2> QED  BY <2>1 DEF Abandoned, Fresh
<1>a. Delivered \/ Serial!Attributed'
  <2>1. Delivered \/ handed' = handed
    BY DEF TalkStep, Storm, Answered, Written, Heard, Took, Failed, Abandoned, Fresh, Called, Connected
  <2> QED  BY <2>1 DEF Serial!Attributed, Serial!Zero, Serial!NoData
<1>e. (Delivered \/ Written \/ Heard \/ (\E l : Took(l))) => script # <<>> /\ gateway' = gateway
  BY DEF Delivered, Written, Heard, Took
<1>1. CASE Storm
  <2>1. gateway' = "running" /\ script' = script /\ ~Delivered
    BY <1>1, <1>e DEF Storm, Delivered
  <2>2. (script = <<>> /\ Resting) => Resting'
    BY <1>1, <1>t, StormWrites DEF Resting
  <2>3. (script' = <<>> /\ Resting') \/ Sending' \/ Receiving'
    BY <1>1, <1>t, <2>1, <2>2, StormSending, StormReceiving
  <2>4. Serial!Attributed'
    BY <1>1 DEF Storm, Serial!Attributed, Serial!Zero, Serial!NoData
  <2> QED  BY <2>1, <2>3, <2>4 DEF Conversing
<1>2. CASE Answered
  <2>1. gateway' = "running" /\ ~Resting
    BY <1>2 DEF Answered, Resting, Writes
  <2>2. Sending' \/ Receiving'
    BY <1>2, <1>t, <2>1, AnswerSending, AnswerReceiving
  <2>3. Serial!Attributed'
    BY <1>2 DEF Answered, Serial!Attributed, Serial!Zero, Serial!NoData
  <2> QED  BY <2>1, <2>2, <2>3 DEF Conversing
<1>3. CASE Written \/ Heard \/ (\E l : Took(l))
  <2>1. gateway' = "running" /\ script # <<>>
    BY <1>3, <1>e
  <2>2. ASSUME Sending PROVE Sending' \/ (script' = <<>> /\ Resting')
    <3>1. ~(\E l : Took(l))
      BY <1>t, <2>2, SendingHead DEF Took
    <3> QED  BY <1>3, <1>t, <2>2, <3>1, StepSending
  <2>3. Receiving => Receiving'
    BY <1>3, <1>t, StepReceiving
  <2>4. Serial!Attributed'
    BY <1>3 DEF Written, Heard, Took, Serial!Attributed, Serial!Zero, Serial!NoData
  <2> QED  BY <2>1, <2>2, <2>3, <2>4 DEF Conversing
<1>4. CASE Delivered
  <2>1. gateway' = "running" /\ script # <<>> /\ Head(script)[1] = "receiveData"
    BY <1>4, <1>e DEF Delivered
  <2>2. ~Sending
    BY <1>t, <2>1, SendingHead
  <2>3. Receiving
    BY <2>1, <2>2
  <2>4. script' = <<>> /\ Resting' /\ Serial!Attributed'
    BY <1>4, <1>t, <2>3, DeliverReceiving
  <2> QED  BY <2>1, <2>4 DEF Conversing
<1>5. CASE Failed
  <2>1. Serial!Attributed'
    BY <1>5 DEF Failed, Serial!Attributed, Serial!Zero, Serial!NoData
  <2> QED  BY <1>5, <2>1 DEF Failed, Conversing
<1>6. CASE Called
  <2>1. gateway' = "running" /\ script = <<>>
    BY <1>6 DEF Called
  <2>2. ~Sending /\ ~Receiving
    BY <2>1, RestNotEmpty DEF Sending, Receiving
  <2>3. Sending' \/ Receiving'
    BY <1>6, <2>2, CalledConverses
  <2>4. Serial!Attributed'
    BY <1>6 DEF Called, Serial!Attributed, Serial!Zero, Serial!NoData
  <2> QED  BY <2>1, <2>3, <2>4 DEF Conversing
<1> QED  BY <1>n, <1>1, <1>2, <1>3, <1>4, <1>5, <1>6 DEF TalkStep

\* A gateway that has stopped says nothing.
LEMMA StoppedKept ==
  ASSUME Serial!Attributed, TalkStep, gateway \notin {"starting", "running"}, script = <<>>
  PROVE  Conversing' /\ Serial!Attributed'
<1>1. Storm \/ Answered \/ Failed
  BY DEF TalkStep, Written, Heard, Took, Delivered, Abandoned, Fresh, Called, Connected
<1>2. script' = <<>> /\ gateway' \notin {"starting", "running"} /\ handed' = handed
  BY <1>1 DEF Storm, Answered, Failed
<1> QED  BY <1>2 DEF Conversing, Serial!Attributed, Serial!Zero, Serial!NoData

\* Every step of the conversation keeps it.
LEMMA TalkKept ==
  ASSUME LineShape, LineShape', LineTyped, Serial!Attributed, Conversing, TalkStep
  PROVE  LineTyped' /\ Conversing' /\ Serial!Attributed'
<1>1. LineTyped'
  BY LineTypedKept DEF LineShape, Scripted
<1> QED  BY <1>1, StartingKept, RunningKept, StoppedKept DEF Conversing

-----------------------------------------------------------------------------
(* The steps of LinuxSerialSocket and LinuxTelnetSocket *)

\* A line that is not the one waited for is skipped.
LEMMA SkipIsStorm ==
  ASSUME LineShape, LineTyped, toGateway # <<>>, toGateway' = Tail(toGateway),
         UNCHANGED <<toBridge, bridge, hungUp, gateway, fd, script, from_address, data, handed>>
  PROVE  Storm
<1>1. Weathers(toGateway, toGateway')
  BY ThinTail DEF LineShape, Weathers
<1>2. Fades(toBridge, toBridge')
  BY DEF Fades
<1> QED  BY <1>1, <1>2 DEF Storm, LineTyped

\* The steps the two sockets share.
LEMMA SharedTalk ==
  ASSUME LineShape, LineTyped, UNCHANGED hungUp,
         \/ Serial!send \/ Serial!loop \/ (Serial!write_line /\ ~hungUp) \/ Serial!wait_line \/ Serial!receiveData
         \/ Serial!notify_socket_connected \/ (Serial!bridge_answers /\ ~hungUp)
  PROVE  TalkStep
<1>1. CASE Serial!send \/ Serial!loop
  <2>1. Called
    BY <1>1 DEF Serial!send, Serial!loop, Called, SendScripts, Serial!line, Serial!read
  <2> QED  BY <2>1 DEF TalkStep
<1>2. CASE Serial!write_line /\ ~hungUp
  <2>1. Written
    BY <1>2 DEF Serial!write_line, Serial!Step, Serial!Returns, Written, Serial!read
  <2> QED  BY <2>1 DEF TalkStep
<1>3. CASE Serial!wait_line
  <2>1. CASE Head(toGateway) = Tail(Head(script))
    <3>1. Heard
      BY <1>3, <2>1 DEF Serial!wait_line, Serial!Step, Serial!Returns, Heard, Serial!read
    <3> QED  BY <3>1 DEF TalkStep
  <2>2. CASE Head(toGateway) # Tail(Head(script))
    <3>1. Storm
      BY <1>3, <2>2, SkipIsStorm DEF Serial!wait_line, Serial!Step, Serial!read
    <3> QED  BY <3>1 DEF TalkStep
  <2> QED  BY <2>1, <2>2
<1>4. CASE Serial!receiveData
  <2>1. Delivered
    BY <1>4 DEF Serial!receiveData, Serial!Step, Serial!Returns, Delivered, Serial!line, Serial!read
  <2> QED  BY <2>1 DEF TalkStep
<1>5. CASE Serial!notify_socket_connected
  <2>1. Connected
    BY <1>5 DEF Serial!notify_socket_connected, Serial!Step, Serial!Returns, Connected, Serial!line
  <2> QED  BY <2>1 DEF TalkStep
<1>6. CASE Serial!bridge_answers /\ ~hungUp
  <2>1. Answered
    BY <1>6 DEF Serial!bridge_answers, Answered, Serial!read
  <2> QED  BY <2>1 DEF TalkStep
<1> QED  BY <1>1, <1>2, <1>3, <1>4, <1>5, <1>6

\* A line of a message is read.
LEMMA MessageTook ==
  ASSUME script # <<>>, Head(script)[1] = "read", Head(script)[2] \in {"ADDRESS", "DATA"}, NEW l,
         \/ toGateway # <<>> /\ Head(toGateway) = l /\ toGateway' = Tail(toGateway)
         \/ hungUp /\ toGateway = <<>> /\ UNCHANGED toGateway /\ l = <<"?", Serial!Bad>>,
         Serial!ReadMessage(Head(script)[2], l),
         UNCHANGED <<fd, toBridge, bridge, hungUp, handed>>
  PROVE  TalkStep
<1>1. Took(l)
  BY DEF Took, Serial!ReadMessage, Serial!Returns, MessageFields
<1> QED  BY <1>1 DEF TalkStep

\* A line of the configuration is read.
LEMMA ConfigTook ==
  ASSUME script # <<>>, Head(script)[1] = "read", Head(script)[2] \notin {"ADDRESS", "DATA"},
         toGateway # <<>>, toGateway' = Tail(toGateway), script' = Tail(script),
         UNCHANGED <<gateway, fd, toBridge, bridge, hungUp, handed>>
  PROVE  TalkStep
<1>1. Took(Head(toGateway))
  BY DEF Took, MessageFields
<1> QED  BY <1>1 DEF TalkStep

\* The steps of LinuxSerialSocket.
LEMMA SerialTalk ==
  ASSUME LineShape, LineTyped, Conversing, ~hungUp, UNCHANGED hungUp, Serial!Next
  PROVE  TalkStep
<1>1. CASE Serial!begin
  <2>1. gateway = "starting" /\ script = <<>> /\ Configuring /\ ~fd /\ UNCHANGED <<toBridge, toGateway, bridge, handed>>
    BY <1>1 DEF Serial!begin, Conversing, LineShape, Serial!line
  <2>2. toBridge' = <<>> /\ toGateway' = <<>> /\ BridgeIn({"idle"})'
    BY <2>1 DEF Configuring, BridgeIn
  <2>3. CASE script' = Append(Serial!resetController \o Serial!updateConfiguration, <<"notify">>) /\ UNCHANGED gateway
    <3>1. script' \in ConfigScripts
      BY <2>3 DEF ConfigScripts, EndCommands
    <3>2. Fresh
      BY <2>1, <2>2, <2>3, <3>1 DEF Fresh
    <3> QED  BY <3>2 DEF TalkStep
  <2>4. CASE gateway' = "failed" /\ UNCHANGED script
    <3>1. Failed
      BY <2>1, <2>2, <2>4 DEF Failed
    <3> QED  BY <3>1 DEF TalkStep
  <2> QED  BY <1>1, <2>3, <2>4 DEF Serial!begin
<1>2. CASE Serial!read_line
  <2>1. /\ script # <<>> /\ Head(script)[1] = "read" /\ toGateway # <<>> /\ toGateway' = Tail(toGateway)
        /\ UNCHANGED <<fd, toBridge, bridge, hungUp, handed>>
    BY <1>2 DEF Serial!read_line, Serial!Step
  <2>2. CASE Head(script)[2] \in {"ADDRESS", "DATA"}
    <3>1. Serial!ReadMessage(Head(script)[2], Head(toGateway))
      BY <1>2, <2>2 DEF Serial!read_line, Serial!Step
    <3> QED  BY <2>1, <2>2, <3>1, MessageTook
  <2>3. CASE Head(script)[2] \notin {"ADDRESS", "DATA"}
    <3>1. Serial!ReadConfig(Head(script)[2], Head(toGateway))
      BY <1>2, <2>3 DEF Serial!read_line, Serial!Step
    <3>2. CASE Serial!ReadOK(Head(script)[2], Head(toGateway))
      BY <2>1, <2>3, <3>1, <3>2, ConfigTook DEF Serial!ReadConfig, Serial!Returns
    <3>3. CASE ~Serial!ReadOK(Head(script)[2], Head(toGateway))
      <4>1. Failed
        BY <2>1, <3>1, <3>3 DEF Serial!ReadConfig, Failed
      <4> QED  BY <4>1 DEF TalkStep
    <3> QED  BY <3>2, <3>3
  <2> QED  BY <2>2, <2>3
<1>3. CASE Serial!bridge_restarts
  <2>1. Storm
    BY <1>3 DEF Serial!bridge_restarts, Storm, Serial!read, Fades, Weathers
  <2> QED  BY <2>1 DEF TalkStep
<1>4. CASE Serial!line_fault
  <2>1. UNCHANGED <<gateway, fd, script, bridge, from_address, data, handed>>
    BY <1>4 DEF Serial!line_fault, Serial!read
  <2>2. CASE /\ toBridge # <<>> /\ UNCHANGED toGateway
             /\ toBridge' \in {Tail(toBridge), [toBridge EXCEPT ![1] = <<"?", Serial!Bad>>]}
    <3>1. Weathers(toGateway, toGateway')
      BY <2>2, ThinSame DEF LineShape, Weathers
    <3>2. Fades(toBridge, toBridge')
      BY <2>2 DEF Fades
    <3>3. Storm
      BY <2>1, <2>2, <3>1, <3>2 DEF Storm
    <3> QED  BY <3>3 DEF TalkStep
  <2>3. ASSUME UNCHANGED toBridge, NEW i \in DOMAIN toGateway,
               toGateway' \in {Serial!RemoveAt(toGateway, i), [toGateway EXCEPT ![i] = <<"?", Serial!Bad>>],
                               [toGateway EXCEPT ![i] = <<@[1], Serial!Bad>>]}
        PROVE  TalkStep
    <3>0. toGateway \in Seq(Lines)
      BY DEF LineShape
    <3>1. \A a, b : <<a, b>>[2] = b
      OBVIOUS
    <3>2. Thins(toGateway, toGateway')
      <4>1. CASE toGateway' = Serial!RemoveAt(toGateway, i)
        BY <3>0, <4>1, ThinRemove
      <4>2. CASE toGateway' = [toGateway EXCEPT ![i] = <<"?", Serial!Bad>>]
        BY <3>0, <3>1, <4>2, ThinGarble
      <4>3. CASE toGateway' = [toGateway EXCEPT ![i] = <<@[1], Serial!Bad>>]
        BY <3>0, <3>1, <4>3, ThinGarble
      <4> QED  BY <2>3, <4>1, <4>2, <4>3
    <3>3. toGateway # <<>>
      BY <3>0
    <3>4. Storm
      BY <2>1, <2>3, <3>2, <3>3 DEF Storm, Fades, Weathers
    <3> QED  BY <3>4 DEF TalkStep
  <2> QED  BY <1>4, <2>2, <2>3 DEF Serial!line_fault
<1> QED  BY <1>1, <1>2, <1>3, <1>4, SharedTalk DEF Serial!Next, Serial!Steps

\* Only begin() and getMaximumMessageLength end with a promise or a closed connection.
LEMMA EndsStarting ==
  ASSUME LineShape, script # <<>>, Telnet!Last(script) \in {<<"notify">>, <<"close">>}
  PROVE  gateway = "starting"
<1>1. Len(script) \in 1..Len(script) /\ Telnet!Last(script) = script[Len(script)]
  BY ScriptTail DEF Telnet!Last
<1>2. \A c \in MessageCommands : c # <<"notify">> /\ c # <<"close">>
  BY CommandKinds
<1> QED  BY <1>1, <1>2 DEF LineShape

\* updateConfiguration returns false.
LEMMA FailsTalk ==
  ASSUME LineTyped, script # <<>>, gateway = "starting", Telnet!Fails, Head(script)[1] = "read" \/ hungUp,
         UNCHANGED <<fd, toBridge, bridge, hungUp, handed>>
  PROVE  TalkStep
<1>1. CASE Telnet!Last(script) = <<"close">>
  <2>1. Abandoned
    BY <1>1 DEF Abandoned, Telnet!Fails
  <2> QED  BY <2>1 DEF TalkStep
<1>2. CASE Telnet!Last(script) # <<"close">>
  <2>1. Failed
    BY <1>2 DEF Failed, Telnet!Fails, LineTyped
  <2> QED  BY <2>1 DEF TalkStep
<1> QED  BY <1>1, <1>2

\* The steps of LinuxTelnetSocket.
LEMMA TelnetTalk ==
  ASSUME LineShape, LineTyped, Conversing, Telnet!Next
  PROVE  TalkStep
<1>o. ASSUME Telnet!initTelnetPort(TRUE), gateway = "starting", UNCHANGED <<gateway, handed>>,
             NEW last \in EndCommands, script' = Append(Telnet!updateConfiguration, last)
      PROVE  TalkStep
  <2>1. script' \in ConfigScripts
    BY <1>o, SameScripts DEF ConfigScripts
  <2>2. Fresh
    BY <1>o, <2>1 DEF Fresh, Telnet!initTelnetPort, BridgeIn
  <2> QED  BY <2>2 DEF TalkStep
<1>e. <<"notify">> \in EndCommands /\ <<"close">> \in EndCommands
  BY DEF EndCommands
<1>1. CASE Telnet!begin
  <2>1. gateway = "starting" /\ script = <<>> /\ UNCHANGED handed
    BY <1>1 DEF Telnet!begin
  <2>2. CASE Telnet!initTelnetPort(TRUE) /\ script' = Append(Telnet!updateConfiguration, <<"notify">>) /\ UNCHANGED gateway
    BY <1>e, <1>o, <2>1, <2>2
  <2>3. CASE Telnet!initTelnetPort(FALSE) /\ gateway' = "failed" /\ UNCHANGED script
    <3>1. Failed
      BY <2>1, <2>3 DEF Failed, Telnet!initTelnetPort
    <3> QED  BY <3>1 DEF TalkStep
  <2> QED  BY <1>1, <2>2, <2>3 DEF Telnet!begin
<1>2. CASE Telnet!getMaximumMessageLength
  <2>1. gateway = "starting" /\ script = <<>> /\ UNCHANGED <<gateway, handed>>
    BY <1>2 DEF Telnet!getMaximumMessageLength, LineShape
  <2>2. CASE Telnet!initTelnetPort(TRUE) /\ script' = Append(Telnet!updateConfiguration, <<"close">>)
    BY <1>e, <1>o, <2>1, <2>2
  <2>3. CASE Telnet!initTelnetPort(FALSE) /\ UNCHANGED script
    <3>1. Fresh
      BY <2>1, <2>3 DEF Fresh, Telnet!initTelnetPort, BridgeIn
    <3> QED  BY <3>1 DEF TalkStep
  <2> QED  BY <1>2, <2>2, <2>3 DEF Telnet!getMaximumMessageLength
<1>3. CASE Telnet!write_closed
  <2>1. /\ script # <<>> /\ Head(script)[1] = "write" /\ hungUp
        /\ UNCHANGED <<fd, toBridge, toGateway, bridge, hungUp, from_address, data, handed>>
    BY <1>3 DEF Telnet!write_closed, Telnet!Step, Telnet!line, Telnet!read
  <2>2. CASE script' = Tail(script) /\ UNCHANGED gateway
    <3>1. Written
      BY <2>1, <2>2 DEF Written
    <3> QED  BY <3>1 DEF TalkStep
  <2>3. CASE gateway' = "killed" /\ script' = <<>>
    <3>1. Failed
      BY <2>1, <2>3 DEF Failed, LineTyped
    <3> QED  BY <3>1 DEF TalkStep
  <2> QED  BY <1>3, <2>2, <2>3 DEF Telnet!write_closed, Telnet!Returns
<1>4. CASE Telnet!wait_gives_up
  <2>1. /\ script # <<>> /\ Head(script)[1] = "wait" /\ hungUp /\ toGateway = <<>>
        /\ UNCHANGED <<fd, toBridge, toGateway, bridge, hungUp, from_address, data, handed>>
    BY <1>4 DEF Telnet!wait_gives_up, Telnet!Step, Telnet!line, Telnet!read
  <2>2. CASE Telnet!Last(script) \in {<<"notify">>, <<"close">>}
    <3>1. Telnet!Fails /\ gateway = "starting"
      BY <1>4, <2>1, <2>2, EndsStarting DEF Telnet!wait_gives_up
    <3> QED  BY <2>1, <3>1, FailsTalk
  <2>3. CASE Telnet!Last(script) \notin {<<"notify">>, <<"close">>}
    <3>1. Heard
      BY <1>4, <2>1, <2>3 DEF Telnet!wait_gives_up, Telnet!Returns, Heard
    <3> QED  BY <3>1 DEF TalkStep
  <2> QED  BY <2>2, <2>3
<1>5. CASE Telnet!read_line
  <2>1. /\ script # <<>> /\ Head(script)[1] = "read" /\ toGateway # <<>> /\ toGateway' = Tail(toGateway)
        /\ UNCHANGED <<fd, toBridge, bridge, hungUp, handed>>
    BY <1>5 DEF Telnet!read_line, Telnet!Step
  <2>2. CASE Head(script)[2] \in {"ADDRESS", "DATA"}
    <3>1. Serial!ReadMessage(Head(script)[2], Head(toGateway))
      BY <1>5, <2>2, SameReads DEF Telnet!read_line, Telnet!Step
    <3> QED  BY <2>1, <2>2, <3>1, MessageTook
  <2>3. CASE Head(script)[2] \notin {"ADDRESS", "DATA"}
    <3>1. gateway = "starting"
      BY <2>1, <2>3, ReadConfigField, ReadStarting
    <3>2. (script' = Tail(script) /\ UNCHANGED gateway) \/ Telnet!Fails
      BY <1>5, <2>3 DEF Telnet!read_line, Telnet!Step, Telnet!Returns
    <3> QED  BY <2>1, <2>3, <3>1, <3>2, ConfigTook, FailsTalk
  <2> QED  BY <2>2, <2>3
<1>6. CASE Telnet!read_closed
  <2>1. /\ script # <<>> /\ Head(script)[1] = "read" /\ toGateway = <<>> /\ hungUp
        /\ UNCHANGED <<fd, toBridge, toGateway, bridge, hungUp, handed>>
    BY <1>6 DEF Telnet!read_closed, Telnet!Step, Telnet!line
  <2>2. CASE gateway' = "killed" /\ script' = <<>>
    <3>1. Failed
      BY <2>1, <2>2 DEF Failed, LineTyped
    <3> QED  BY <3>1 DEF TalkStep
  <2>3. CASE Head(script)[2] \in {"ADDRESS", "DATA"} /\ Telnet!Serial!ReadMessage(Head(script)[2], <<"?", Telnet!Serial!Bad>>)
    <3>1. Serial!ReadMessage(Head(script)[2], <<"?", Serial!Bad>>)
      BY <2>3, SameReads, SameLines
    <3> QED  BY <2>1, <2>3, <3>1, MessageTook
  <2>4. CASE Head(script)[2] \notin {"ADDRESS", "DATA"} /\ Telnet!Fails
    <3>1. gateway = "starting"
      BY <2>1, <2>4, ReadConfigField, ReadStarting
    <3> QED  BY <2>1, <2>4, <3>1, FailsTalk
  <2> QED  BY <1>6, <2>2, <2>3, <2>4 DEF Telnet!read_closed, Telnet!Step
<1>7. CASE Telnet!close_sock
  <2>1. /\ script # <<>> /\ Head(script)[1] = "close" /\ script' = Tail(script) /\ toBridge' = <<>> /\ toGateway' = <<>>
        /\ UNCHANGED <<gateway, bridge, hungUp, handed>>
    BY <1>7 DEF Telnet!close_sock, Telnet!Step, Telnet!Returns
  <2>2. gateway = "starting" /\ script' = <<>>
    BY <2>1, EndIsLast
  <2>3. Fresh
    BY <2>1, <2>2 DEF Fresh, Conversing, Configuring, BridgeIn
  <2> QED  BY <2>3 DEF TalkStep
<1>8. CASE Telnet!bridge_hangs_up
  <2>1. Weathers(toGateway, toGateway')
    BY <1>8, ThinSame DEF Telnet!bridge_hangs_up, LineShape, Weathers
  <2>2. Storm
    BY <1>8, <2>1 DEF Telnet!bridge_hangs_up, Storm, Fades, Telnet!read
  <2> QED  BY <2>2 DEF TalkStep
<1>9. CASE \/ Telnet!send \/ Telnet!loop \/ Telnet!write_line \/ Telnet!wait_line \/ Telnet!receiveData
           \/ Telnet!notify_socket_connected \/ Telnet!bridge_answers
  BY <1>9, SameSteps, SharedTalk
     DEF Telnet!send, Telnet!loop, Telnet!write_line, Telnet!wait_line, Telnet!receiveData,
         Telnet!notify_socket_connected, Telnet!bridge_answers
<1> QED  BY <1>1, <1>2, <1>3, <1>4, <1>5, <1>6, <1>7, <1>8, <1>9 DEF Telnet!Next, Telnet!Steps

-----------------------------------------------------------------------------
(* Calls keep in step with the bridge *)

TalkInv ==
    /\ build \in {"serial", "telnet"} => LineTyped /\ Conversing /\ (build = "serial" => ~hungUp)
    /\ Serial!Attributed

\* The conversation has not begun.
LEMMA TalkInit == Init => TalkInv
<1> SUFFICES ASSUME Init PROVE TalkInv  OBVIOUS
<1>1. /\ gateway = "starting" /\ script = <<>> /\ toGateway = <<>> /\ toBridge = <<>> /\ hungUp = FALSE
      /\ bridge = "idle" /\ handed = <<Serial!Zero, Serial!NoData>>
  BY SameLines DEF Init, Telnet!Init, Telnet!Serial!Init, Telnet!Serial!NoData, Serial!NoData
<1>2. Configuring
  BY <1>1 DEF Configuring, BridgeIn
<1>3. LineTyped
  BY <1>1 DEF LineTyped
<1>4. Serial!Attributed
  BY <1>1 DEF Serial!Attributed
<1> QED  BY <1>1, <1>2, <1>3, <1>4 DEF TalkInv, Conversing

\* Every step of the gateway keeps the conversation.
LEMMA TalkNext == ASSUME LineInv, LineInv', TalkInv, [Next]_vars PROVE TalkInv'
<1>1. CASE UNCHANGED vars
  <2>1. UNCHANGED <<build, toBridge, toGateway, bridge, hungUp, gateway, fd, script, from_address, data, handed>>
    BY <1>1 DEF vars, lineVars
  <2>2. CASE build \in {"serial", "telnet"}
    <3>1. LineShape /\ LineShape' /\ LineTyped /\ Conversing /\ Serial!Attributed
      BY <2>1, <2>2 DEF LineInv, TalkInv
    <3>2. Storm
      BY <2>1, <3>1, ThinSame DEF Storm, Fades, Weathers, LineShape, LineTyped
    <3> QED  BY <2>1, <2>2, <3>1, <3>2, TalkKept DEF TalkStep, TalkInv
  <2>3. CASE build \notin {"serial", "telnet"}
    BY <2>1, <2>3 DEF TalkInv, Serial!Attributed, Serial!Zero, Serial!NoData
  <2> QED  BY <2>2, <2>3
<1>2. CASE SerialStep
  <2>1. build = "serial" /\ build' = build /\ Serial!Next /\ UNCHANGED hungUp
    BY <1>2 DEF SerialStep
  <2>2. LineShape /\ LineShape' /\ LineTyped /\ Conversing /\ ~hungUp /\ Serial!Attributed
    BY <2>1 DEF LineInv, TalkInv
  <2> QED  BY <2>1, <2>2, SerialTalk, TalkKept DEF TalkInv
<1>3. CASE TelnetStep
  <2>1. build = "telnet" /\ build' = build /\ Telnet!Next
    BY <1>3 DEF TelnetStep
  <2>2. LineShape /\ LineShape' /\ LineTyped /\ Conversing /\ Serial!Attributed
    BY <2>1 DEF LineInv, TalkInv
  <2> QED  BY <2>1, <2>2, TelnetTalk, TalkKept DEF TalkInv
<1>4. CASE UdpStep \/ SingleStep \/ TcpStep \/ BleStep \/ ProcessStep
  <2>1. build' \notin {"serial", "telnet"} /\ handed' = handed
    BY <1>4 DEF UdpStep, SingleStep, TcpStep, BleStep, ProcessStep, lineVars
  <2> QED  BY <2>1 DEF TalkInv, Serial!Attributed, Serial!Zero, Serial!NoData
<1> QED  BY <1>1, <1>2, <1>3, <1>4 DEF Next

\* A call that returns leaves nothing on the line that the next could take for its answer,
\* and no bridge in the middle of an earlier one (InStep), however many lines are lost or
\* garbled and however often the bridge restarts.
THEOREM InStepCorrect == Spec => []InStep
<1>1. Init => LineInv /\ TalkInv
  BY ReadyInit, TalkInit DEF ReadyInv
<1>2. LineInv /\ TalkInv /\ [Next]_vars => (LineInv /\ TalkInv)'
  BY LineNext, TalkNext
<1>3. LineInv /\ TalkInv => InStep
  <2> SUFFICES ASSUME LineInv, TalkInv PROVE InStep  OBVIOUS
  <2>1. ASSUME build \in {"serial", "telnet"}, gateway = "running", script = <<>> PROVE Resting
    <3>1. ~Sending /\ ~Receiving
      BY <2>1, RestNotEmpty DEF Sending, Receiving
    <3> QED  BY <2>1, <3>1 DEF TalkInv, Conversing
  <2>2. ASSUME Resting, ~hungUp, toGateway \in Seq(Lines)
        PROVE  /\ toBridge = <<>> /\ bridge = "idle"
               /\ \A i \in 1..Len(toGateway) : toGateway[i] = Serial!OK("IDLE") \/ toGateway[i][2] = Serial!Bad
    BY <2>2 DEF Resting, Writes, BridgeIn, AllJunk, Junk
  <2>3. toGateway \in Seq(Lines) => Serial!Range(toGateway) = {toGateway[i] : i \in 1..Len(toGateway)}
    BY DEF Serial!Range
  <2>4. toGateway \in Seq(Lines) => Telnet!Serial!Range(toGateway) = {toGateway[i] : i \in 1..Len(toGateway)}
    BY DEF Telnet!Serial!Range
  <2>5. ASSUME build = "serial" PROVE Serial!InStep
    <3>1. toGateway \in Seq(Lines) /\ ~hungUp
      BY <2>5 DEF LineInv, LineShape, TalkInv
    <3> QED  BY <2>5, <2>1, <2>2, <2>3, <3>1 DEF Serial!InStep
  <2>6. ASSUME build = "telnet" PROVE Telnet!InStep
    <3>1. toGateway \in Seq(Lines)
      BY <2>6 DEF LineInv, LineShape
    <3>2. Telnet!Serial!Bad = Serial!Bad /\ Telnet!Serial!OK("IDLE") = Serial!OK("IDLE")
      BY DEF Telnet!Serial!Bad, Serial!Bad, Telnet!Serial!OK, Serial!OK
    <3> QED  BY <2>6, <2>1, <2>2, <2>4, <3>1, <3>2 DEF Telnet!InStep, Telnet!Serial!InStep
  <2> QED  BY <2>5, <2>6 DEF InStep
<1> QED  BY <1>1, <1>2, <1>3, PTL DEF Spec

-----------------------------------------------------------------------------
(* What is handed to Core bears the address it came from *)

\* A datagram comes from an endpoint, or from the gateway itself.
Senders  == Udp!Endpoints \cup {Udp!Own}
ReplyInv ==
    /\ arrived \in [{"unicast", "multicast"} -> Seq(Senders)]
    /\ Udp!RepliesReachSender

\* The client that is connected is the only one that ever was.
ServedInv ==
    /\ sent \subseteq Clients /\ served \subseteq {connection_socket}
    /\ connection_socket \in {"zero", "none"} \/ tcp_socket = "none" => served = {}
    /\ build = "single_tcp" /\ gateway = "starting" => served = {}

\* An address is a pair of a host and a port.
LEMMA SenderPairs == \A s \in Senders : s = <<s[1], s[2]>>
  BY DEF Senders, Udp!Endpoints, Udp!Own

\* No datagram has arrived, and none has been answered.
LEMMA ReplyInit == Init => ReplyInv
<1> SUFFICES ASSUME Init PROVE ReplyInv  OBVIOUS
<1>1. arrived = [unicast |-> <<>>, multicast |-> <<>>] /\ reply.to = reply.meant
  BY DEF Init, Udp!Init
<1>2. <<>> \in Seq(Senders)
  OBVIOUS
<1>3. \A S, x : x \in S => [unicast |-> x, multicast |-> x] \in [{"unicast", "multicast"} -> S]
  OBVIOUS
<1>4. arrived \in [{"unicast", "multicast"} -> Seq(Senders)]
  BY <1>1, <1>2, <1>3
<1> QED  BY <1>1, <1>4 DEF ReplyInv, Udp!RepliesReachSender

\* A step of LinuxUdpSocket.
LEMMA ReplyNext == ASSUME ReplyInv, [Next]_vars PROVE ReplyInv'
<1>1. CASE UNCHANGED <<arrived, reply>>
  BY <1>1 DEF ReplyInv, Udp!RepliesReachSender
<1>2. ASSUME NEW w \in {"unicast", "multicast"}, Udp!receive(w) PROVE ReplyInv'
  <2>1. arrived[w] \in Seq(Senders) /\ arrived[w] # <<>>
    BY <1>2 DEF ReplyInv, Udp!receive
  <2> DEFINE s == Head(arrived[w])
  <2>2. s \in Senders /\ Tail(arrived[w]) \in Seq(Senders)
    BY <2>1, QueueTail
  <2>3. arrived' \in [{"unicast", "multicast"} -> Seq(Senders)]
    BY <1>2, <2>2 DEF ReplyInv, Udp!receive
  <2>4. CASE UNCHANGED reply
    BY <2>3, <2>4 DEF ReplyInv, Udp!RepliesReachSender
  <2>5. CASE reply' = [to |-> <<client'[1], client'[2]>>, meant |-> s] /\ client' = Udp!getDevice_address(s)
    <3>1. client'[1] = s[1] /\ (s[2] # 0 => client'[2] = s[2])
      BY <2>5 DEF Udp!getDevice_address
    <3>2. s[2] # 0 => <<client'[1], client'[2]>> = s
      BY <2>2, <3>1, SenderPairs
    <3>3. reply'.to = <<client'[1], client'[2]>> /\ reply'.meant = s
      BY <2>5
    <3> QED  BY <2>3, <3>2, <3>3 DEF ReplyInv, Udp!RepliesReachSender
  <2> QED  BY <1>2, <2>4, <2>5 DEF Udp!receive, Udp!SendTo, Udp!getIp_address, Udp!getPort
<1>3. ASSUME NEW w \in {"unicast", "multicast"}, NEW e \in Senders,
             arrived' = [arrived EXCEPT ![w] = Append(@, e)], UNCHANGED reply
      PROVE  ReplyInv'
  <2>1. Append(arrived[w], e) \in Seq(Senders)
    BY <1>3, QueueAppend DEF ReplyInv
  <2> QED  BY <1>3, <2>1 DEF ReplyInv, Udp!RepliesReachSender
<1>4. CASE UdpStep
  <2>1. CASE Udp!start \/ Udp!loop_reopen \/ Udp!loop_enter \/ Udp!loop_return \/ Udp!send
    BY <1>1, <2>1 DEF Udp!start, Udp!loop_reopen, Udp!loop_enter, Udp!loop_return, Udp!send
  <2>2. CASE Udp!Loop
    BY <1>1, <1>2, <2>2 DEF Udp!Loop, Udp!receive_nothing
  <2>3. CASE Udp!send_broadcast
    <3>1. Udp!Own \in Senders
      BY DEF Senders
    <3> QED  BY <1>3, <2>3, <3>1 DEF Udp!send_broadcast
  <2>4. CASE Udp!datagram("unicast") \/ Udp!datagram("multicast")
    <3>1. Udp!Endpoints \subseteq Senders
      BY DEF Senders
    <3> QED  BY <1>3, <2>4, <3>1 DEF Udp!datagram
  <2> QED  BY <1>4, <2>1, <2>2, <2>3, <2>4 DEF UdpStep, Udp!Next
<1>5. CASE UNCHANGED vars \/ SerialStep \/ TelnetStep \/ SingleStep \/ TcpStep \/ BleStep \/ ProcessStep
  BY <1>1, <1>5 DEF vars, SerialStep, TelnetStep, SingleStep, TcpStep, BleStep, ProcessStep, udpVars
<1> QED  BY <1>4, <1>5 DEF Next

\* A step of SingleTcpSocket.
LEMMA ServedNext == ASSUME ServedInv, [Next]_vars PROVE ServedInv'
<1>c. Clients \cap {"zero", "none"} = {}
  BY ConstantsAssumption DEF Single!ConstantsOK
<1>1. CASE SingleStep
  <2>0. build = "single_tcp" /\ build' = build /\ Single!Next
    BY <1>1 DEF SingleStep
  <2>1. CASE Single!start
    BY <2>0, <2>1 DEF ServedInv, Single!start, Single!initTcpSocket, Single!Started
  <2>2. CASE Single!loop_reopen
    BY <2>0, <2>2 DEF ServedInv, Single!loop_reopen, Single!initTcpSocket, Single!Reopened
  <2>3. CASE Single!loop_accept
    BY <2>0, <2>3 DEF ServedInv, Single!loop_accept
  <2>4. CASE Single!loop_receive
    BY <1>c, <2>0, <2>4 DEF ServedInv, Single!loop_receive
  <2>5. CASE Single!send_closed
    BY <2>0, <2>5 DEF ServedInv, Single!send_closed
  <2>6. ASSUME NEW c \in Clients, Single!client_connects(c) \/ Single!client_sends(c) \/ Single!client_closes(c)
        PROVE  ServedInv'
    BY <2>0, <2>6 DEF ServedInv, Single!client_connects, Single!client_sends, Single!client_closes
  <2> QED  BY <2>0, <2>1, <2>2, <2>3, <2>4, <2>5, <2>6 DEF Single!Next
<1>2. CASE UNCHANGED vars
  BY <1>2 DEF vars, singleVars, ServedInv
<1>3. CASE SerialStep \/ TelnetStep \/ UdpStep \/ TcpStep \/ BleStep \/ ProcessStep
  BY <1>3 DEF SerialStep, TelnetStep, UdpStep, TcpStep, BleStep, ProcessStep, singleVars, ServedInv
<1> QED  BY <1>1, <1>2, <1>3 DEF Next

\* A payload is handed to Core with the address it came from, and an answer reaches it
\* (Attributed), whatever lines are lost or garbled, whatever Core sends in between and
\* however many clients there are.
THEOREM AttributedCorrect == Spec => []Attributed
<1>1. Init => LineInv /\ TalkInv /\ ReplyInv /\ ServedInv
  <2> SUFFICES ASSUME Init PROVE ReplyInv /\ ServedInv
    BY ReadyInit, TalkInit DEF ReadyInv
  <2>1. ServedInv
    BY DEF Init, Single!Init, ServedInv
  <2> QED  BY <2>1, ReplyInit
<1>2. LineInv /\ TalkInv /\ ReplyInv /\ ServedInv /\ [Next]_vars => (LineInv /\ TalkInv /\ ReplyInv /\ ServedInv)'
  BY LineNext, TalkNext, ReplyNext, ServedNext
<1>3. TalkInv /\ ReplyInv /\ ServedInv => Attributed
  <2> SUFFICES ASSUME TalkInv, ReplyInv, ServedInv PROVE Attributed  OBVIOUS
  <2>1. served = {} \/ served = {connection_socket}
    BY DEF ServedInv
  <2>2. Single!OneClientServed
    <3>1. Cardinality(served) = 0 \/ Cardinality(served) = 1
      BY <2>1, FS_EmptySet, FS_Singleton
    <3>2. Cardinality(served) = Single!Cardinality(served)
      BY Zenon DEF Cardinality, Single!Cardinality
    <3>3. Cardinality(served) <= 1
      BY <3>1
    <3> QED  BY <3>2, <3>3 DEF Single!OneClientServed
  <2> QED  BY <2>2 DEF Attributed, TalkInv, ReplyInv
<1> QED  BY <1>1, <1>2, <1>3, PTL DEF Spec

-----------------------------------------------------------------------------
(* Types: the lines *)

\* What has been read from the bridge, and the state of the bridge and of the line.
LineAddresses == Addresses \cup {Serial!Zero, Serial!Short}
ValueTypes ==
    /\ ownAddress \in LineAddresses /\ broadcastAddress \in LineAddresses /\ from_address \in LineAddresses
    /\ maximumMessageLength \in 0..255
BridgeTypes == bridge \in {"idle", "await_address", "await_data"} /\ faults \in 0..MaxLineFaults
ScriptTypes == \A i \in DOMAIN script : script[i][1] \in {"write", "wait", "read", "receiveData", "notify", "close"}
LineTypes   == ValueTypes /\ BridgeTypes /\ ScriptTypes /\ fd \in BOOLEAN /\ hungUp \in BOOLEAN

\* The parsers give an address or what stands for none, whatever the line says.
LEMMA ParsedTypes ==
  ASSUME NEW l \in Lines
  PROVE  /\ Serial!readOwnAddress(l).value \in LineAddresses
         /\ Serial!readBroadcastAddress(l).value \in LineAddresses
         /\ Serial!readSendAddress(l) \in LineAddresses
         /\ Serial!readMaximumMessageLength(l).value \in 0..255
<1>1. /\ l[1] = "OWN_ADDRESS" => l[2] \in Addresses \cup {Serial!NA, Serial!Bad, Serial!Short}
      /\ l[1] = "BROADCAST_ADDRESS" => l[2] \in Addresses \cup {Serial!NA, Serial!Bad}
      /\ l[1] = "ADDRESS" => l[2] \in Addresses \cup {Serial!Zero, Serial!Bad}
  BY DEF Lines, AddressFields
<1>2. Serial!readOwnAddress(l).value \in LineAddresses
  BY <1>1 DEF Serial!readOwnAddress, Serial!Parsed, LineAddresses
<1>3. Serial!readBroadcastAddress(l).value \in LineAddresses
  BY <1>1 DEF Serial!readBroadcastAddress, Serial!Parsed, LineAddresses
<1>4. Serial!readSendAddress(l) \in LineAddresses
  BY <1>1 DEF Serial!readSendAddress, LineAddresses
<1>5. Serial!readMaximumMessageLength(l).value \in 0..255
  BY DEF Serial!readMaximumMessageLength, Serial!Parsed
<1> QED  BY <1>2, <1>3, <1>4, <1>5

\* What a read leaves behind.
LEMMA ReadTypes ==
  ASSUME ValueTypes, NEW w, NEW l \in Lines, Serial!ReadParts(w, l) \/ Serial!ReadMessage(w, l)
  PROVE  ValueTypes'
<1>z. Serial!Zero \in LineAddresses
  BY DEF LineAddresses
<1>1. CASE Serial!ReadParts(w, l)
  <2>1. ownAddress' \in LineAddresses /\ broadcastAddress' \in LineAddresses
    BY <1>1, ParsedTypes DEF Serial!ReadParts, ValueTypes
  <2>2. from_address' \in LineAddresses
    BY <1>1, <1>z DEF Serial!ReadParts, ValueTypes
  <2>3. maximumMessageLength' \in 0..255
    BY <1>1, ParsedTypes DEF Serial!ReadParts, ValueTypes
  <2> QED  BY <2>1, <2>2, <2>3 DEF ValueTypes, LineAddresses
<1>2. CASE Serial!ReadMessage(w, l)
  <2>1. from_address' \in LineAddresses
    BY <1>2, ParsedTypes DEF Serial!ReadMessage, ValueTypes
  <2>2. UNCHANGED <<ownAddress, broadcastAddress, maximumMessageLength>>
    BY <1>2 DEF Serial!ReadMessage, Serial!config
  <2> QED  BY <2>1, <2>2 DEF ValueTypes, LineAddresses
<1> QED  BY <1>1, <1>2

\* An answer leaves the bridge in one of its states.
LEMMA AnswerState ==
  ASSUME bridge \in {"idle", "await_address", "await_data"}, NEW l, NEW a \in Serial!Answers(l)
  PROVE  a.state \in {"idle", "await_address", "await_data"}
<1>1. CASE l[1] = "RESET"
  BY <1>1 DEF Serial!Answers
<1>2. CASE l[1] # "RESET" /\ bridge = "idle" /\ l[1] = "CONFIGURATION"
  <2>1. \E own, broadcast, length : a = [lines |-> Serial!Configuration(own, broadcast, length), state |-> "idle"]
    BY <1>2 DEF Serial!Answers
  <2> QED  BY <2>1
<1>3. CASE l[1] # "RESET" /\ bridge = "idle" /\ l[1] = "RECEIVE"
  <2>1. \E m : a = [lines |-> Serial!Received(m[1], m[2]), state |-> "idle"]
    BY <1>3 DEF Serial!Answers
  <2> QED  BY <2>1
<1>4. CASE l[1] # "RESET" /\ bridge = "idle" /\ l[1] = "SEND"
  BY <1>4 DEF Serial!Answers
<1>5. CASE bridge = "await_address" /\ l[1] = "ADDRESS"
  BY <1>5 DEF Serial!Answers
<1>6. CASE bridge = "await_data" /\ l[1] = "DATA"
  BY <1>6 DEF Serial!Answers
<1>7. CASE /\ l[1] # "RESET" /\ ~(bridge = "idle" /\ l[1] = "CONFIGURATION") /\ ~(bridge = "idle" /\ l[1] = "SEND")
           /\ ~(bridge = "idle" /\ l[1] = "RECEIVE") /\ ~(bridge = "await_address" /\ l[1] = "ADDRESS")
           /\ ~(bridge = "await_data" /\ l[1] = "DATA")
  BY <1>7 DEF Serial!Answers
<1> QED  BY <1>1, <1>2, <1>3, <1>4, <1>5, <1>6, <1>7

\* The steps of a script are of the kinds that LineShape allows.
LEMMA ScriptKinds ==
  ASSUME NEW s \in Seq(Commands)
  PROVE  \A i \in DOMAIN s : s[i][1] \in {"write", "wait", "read", "receiveData", "notify", "close"}
<1> SUFFICES ASSUME NEW i \in DOMAIN s PROVE s[i][1] \in {"write", "wait", "read", "receiveData", "notify", "close"}
  OBVIOUS
<1>1. s[i] \in Commands
  OBVIOUS
<1> QED  BY <1>1, CommandForms

\* The number of faults, when there is one more.
LEMMA OneMoreFault == BridgeTypes /\ faults < MaxLineFaults => faults + 1 \in 0..MaxLineFaults
BY ConstantsAssumption DEF BridgeTypes, Serial!ConstantsOK

\* No value that has been read changes.
ValuesKept == UNCHANGED <<ownAddress, broadcastAddress, from_address, maximumMessageLength>>

\* The steps the two sockets share.
LEMMA SharedTypes ==
  ASSUME LineTypes,
         \/ Serial!send \/ Serial!loop \/ Serial!write_line \/ Serial!wait_line \/ Serial!receiveData
         \/ Serial!notify_socket_connected \/ Serial!bridge_answers
  PROVE  ValueTypes' /\ BridgeTypes' /\ fd' \in BOOLEAN
<1>1. CASE \/ Serial!send \/ Serial!loop \/ Serial!write_line \/ Serial!wait_line \/ Serial!receiveData
           \/ Serial!notify_socket_connected
  <2>1. UNCHANGED <<fd, bridge, faults>> /\ ValuesKept
    BY <1>1 DEF Serial!send, Serial!loop, Serial!write_line, Serial!wait_line, Serial!receiveData,
       Serial!notify_socket_connected, Serial!line, Serial!read, Serial!config, ValuesKept
  <2> QED  BY <2>1 DEF ValuesKept, LineTypes, ValueTypes, BridgeTypes, LineAddresses
<1>2. CASE Serial!bridge_answers
  <2>1. UNCHANGED <<fd, faults>> /\ ValuesKept
    BY <1>2 DEF Serial!bridge_answers, Serial!read, Serial!config, ValuesKept
  <2>2. PICK a \in Serial!Answers(Head(toBridge)) : bridge' = a.state
    BY <1>2 DEF Serial!bridge_answers
  <2>3. bridge' \in {"idle", "await_address", "await_data"}
    <3>1. bridge \in {"idle", "await_address", "await_data"}
      BY DEF LineTypes, BridgeTypes
    <3>2. a.state \in {"idle", "await_address", "await_data"}
      BY <3>1, AnswerState
    <3> QED  BY <2>2, <3>2
  <2> QED  BY <2>1, <2>3 DEF ValuesKept, LineTypes, ValueTypes, BridgeTypes, LineAddresses
<1> QED  BY <1>1, <1>2

\* The steps of LinuxSerialSocket.
LEMMA SerialTypes ==
  ASSUME LineShape, LineShape', LineTypes, Serial!Next, UNCHANGED hungUp
  PROVE  LineTypes'
<1>s. ScriptTypes' /\ hungUp' \in BOOLEAN
  <2>1. ScriptTypes'
    <3>1. script' \in Seq(Commands)
      BY DEF LineShape
    <3> QED  BY <3>1, ScriptKinds DEF ScriptTypes
  <2> QED  BY <2>1 DEF LineTypes
<1> SUFFICES ValueTypes' /\ BridgeTypes' /\ fd' \in BOOLEAN
  BY <1>s DEF LineTypes
<1>1. CASE Serial!begin
  <2>1. fd' \in BOOLEAN /\ UNCHANGED <<bridge, faults>> /\ ValuesKept
    BY <1>1 DEF LineTypes, Serial!begin, Serial!line, Serial!read, Serial!config, ValuesKept
  <2> QED  BY <2>1 DEF ValuesKept, LineTypes, ValueTypes, BridgeTypes, LineAddresses
<1>2. CASE Serial!read_line
  <2>1. Head(toGateway) \in Lines /\ UNCHANGED <<fd, bridge, faults>>
    BY <1>2, LinesTail DEF LineShape, Serial!read_line
  <2>2. Serial!ReadMessage(Head(script)[2], Head(toGateway)) \/ Serial!ReadParts(Head(script)[2], Head(toGateway))
    BY <1>2 DEF Serial!read_line, Serial!ReadConfig, Serial!Step
  <2>3. ValueTypes'
    BY <2>1, <2>2, ReadTypes DEF LineTypes
  <2> QED  BY <2>1, <2>3 DEF LineTypes, BridgeTypes
<1>3. CASE Serial!bridge_restarts \/ Serial!line_fault
  <2>1. faults < MaxLineFaults /\ faults' = faults + 1 /\ bridge' \in {bridge, "idle"} /\ UNCHANGED fd /\ ValuesKept
    BY <1>3 DEF Serial!bridge_restarts, Serial!line_fault, Serial!read, Serial!config, ValuesKept
  <2>2. BridgeTypes'
    BY <2>1, OneMoreFault DEF LineTypes, BridgeTypes
  <2> QED  BY <2>1, <2>2 DEF ValuesKept, LineTypes, ValueTypes, LineAddresses
<1> QED  BY <1>1, <1>2, <1>3, SharedTypes DEF Serial!Next, Serial!Steps

\* The steps of LinuxTelnetSocket.
LEMMA TelnetTypes ==
  ASSUME LineShape, LineShape', LineTypes, Telnet!Next
  PROVE  LineTypes'
<1>s. ScriptTypes'
  <2>1. script' \in Seq(Commands)
    BY DEF LineShape
  <2> QED  BY <2>1, ScriptKinds DEF ScriptTypes
<1> SUFFICES ValueTypes' /\ BridgeTypes' /\ fd' \in BOOLEAN /\ hungUp' \in BOOLEAN
  BY <1>s DEF LineTypes
<1>h. hungUp \in BOOLEAN /\ fd \in BOOLEAN /\ BridgeTypes /\ ValueTypes
  BY DEF LineTypes
<1>0. ValuesKept => ValueTypes'
  BY <1>h DEF ValuesKept, ValueTypes, LineAddresses
<1>1. CASE Telnet!begin
  <2>1. fd' = TRUE /\ hungUp' \in BOOLEAN /\ bridge' = "idle" /\ UNCHANGED <<faults, from_address, maximumMessageLength>>
    BY <1>1 DEF Telnet!begin, Telnet!initTelnetPort
  <2>2. ownAddress' = Serial!Zero /\ broadcastAddress' = Serial!Zero
    BY <1>1, SameLines DEF Telnet!begin
  <2> QED  BY <1>h, <2>1, <2>2 DEF ValueTypes, BridgeTypes, LineAddresses
<1>2. CASE Telnet!getMaximumMessageLength
  <2>1. fd' = TRUE /\ hungUp' \in BOOLEAN /\ bridge' = "idle" /\ UNCHANGED faults /\ ValuesKept
    BY <1>2 DEF Telnet!getMaximumMessageLength, Telnet!initTelnetPort, Telnet!read, Telnet!config, ValuesKept
  <2> QED  BY <1>h, <1>0, <2>1 DEF BridgeTypes
<1>3. CASE Telnet!write_closed \/ Telnet!wait_gives_up
  <2>1. UNCHANGED <<fd, hungUp, bridge, faults>> /\ ValuesKept
    BY <1>3 DEF Telnet!write_closed, Telnet!wait_gives_up, Telnet!line, Telnet!read, Telnet!config, ValuesKept
  <2> QED  BY <1>h, <1>0, <2>1 DEF BridgeTypes
<1>4. CASE Telnet!read_line
  <2>1. Head(toGateway) \in Lines /\ UNCHANGED <<fd, hungUp, bridge, faults>>
    BY <1>4, LinesTail DEF LineShape, Telnet!read_line
  <2>2. Telnet!Serial!ReadMessage(Head(script)[2], Head(toGateway)) \/ Telnet!Serial!ReadParts(Head(script)[2], Head(toGateway))
    BY <1>4 DEF Telnet!read_line, Telnet!Step
  <2>3. ValueTypes'
    BY <1>h, <2>1, <2>2, ReadTypes, SameReads
  <2> QED  BY <1>h, <2>1, <2>3 DEF BridgeTypes
<1>5. CASE Telnet!read_closed
  <2>1. UNCHANGED <<fd, hungUp, bridge, faults>>
    BY <1>5 DEF Telnet!read_closed, Telnet!line
  <2> DEFINE l == <<"?", Serial!Bad>>
  <2>2. l \in Lines
    BY DEF Lines, Keywords, ConfigFields, MessageFields, AddressFields, Arguments
  <2>3. Telnet!Serial!ReadMessage(Head(script)[2], l) \/ Telnet!Serial!ReadParts(Head(script)[2], l) \/ ValuesKept
    BY <1>5, SameLines DEF Telnet!read_closed, Telnet!Step, Telnet!read, Telnet!config, ValuesKept
  <2> HIDE DEF l
  <2>4. ValueTypes'
    BY <1>0, <1>h, <2>2, <2>3, ReadTypes, SameReads
  <2> QED  BY <1>h, <2>1, <2>4 DEF BridgeTypes
<1>6. CASE Telnet!close_sock
  <2>1. fd' = FALSE /\ UNCHANGED <<hungUp, bridge, faults>> /\ ValuesKept
    BY <1>6 DEF Telnet!close_sock, Telnet!read, Telnet!config, ValuesKept
  <2> QED  BY <1>h, <1>0, <2>1 DEF BridgeTypes
<1>7. CASE Telnet!bridge_hangs_up
  <2>1. faults < MaxLineFaults /\ faults' = faults + 1 /\ hungUp' = TRUE /\ UNCHANGED <<fd, bridge>> /\ ValuesKept
    BY <1>7 DEF Telnet!bridge_hangs_up, Telnet!read, Telnet!config, ValuesKept
  <2>2. BridgeTypes'
    BY <1>h, <2>1, OneMoreFault DEF BridgeTypes
  <2> QED  BY <1>h, <1>0, <2>1, <2>2
<1>8. CASE \/ Telnet!send \/ Telnet!loop \/ Telnet!write_line \/ Telnet!wait_line \/ Telnet!receiveData
           \/ Telnet!notify_socket_connected \/ Telnet!bridge_answers
  <2>1. UNCHANGED hungUp
    BY <1>8 DEF Telnet!send, Telnet!loop, Telnet!write_line, Telnet!wait_line, Telnet!receiveData,
       Telnet!notify_socket_connected, Telnet!bridge_answers
  <2>2. \/ Serial!send \/ Serial!loop \/ Serial!write_line \/ Serial!wait_line \/ Serial!receiveData
        \/ Serial!notify_socket_connected \/ Serial!bridge_answers
    BY <1>8, SameSteps DEF Telnet!send, Telnet!loop, Telnet!write_line, Telnet!wait_line, Telnet!receiveData,
       Telnet!notify_socket_connected, Telnet!bridge_answers
  <2> QED  BY <1>h, <2>1, <2>2, SharedTypes
<1> QED  BY <1>1, <1>2, <1>3, <1>4, <1>5, <1>6, <1>7, <1>8 DEF Telnet!Next, Telnet!Steps

\* The lines keep their types; other builds have none.
LEMMA LineTypesNext == ASSUME LineInv, LineInv', LineTypes, [Next]_vars PROVE LineTypes'
<1>1. CASE SerialStep
  <2>1. build = "serial" /\ build' = build /\ Serial!Next /\ UNCHANGED hungUp
    BY <1>1 DEF SerialStep
  <2>2. LineShape /\ LineShape'
    BY <2>1 DEF LineInv
  <2> QED  BY <2>1, <2>2, SerialTypes
<1>2. CASE TelnetStep
  <2>1. build = "telnet" /\ build' = build /\ Telnet!Next
    BY <1>2 DEF TelnetStep
  <2>2. LineShape /\ LineShape'
    BY <2>1 DEF LineInv
  <2> QED  BY <2>1, <2>2, TelnetTypes
<1>3. CASE UNCHANGED vars \/ UdpStep \/ SingleStep \/ TcpStep \/ BleStep \/ ProcessStep
  <2>1. UNCHANGED <<fd, script, hungUp, bridge, faults>> /\ ValuesKept
    BY <1>3 DEF vars, UdpStep, SingleStep, TcpStep, BleStep, ProcessStep, lineVars, ValuesKept
  <2> QED  BY <2>1 DEF LineTypes, ValuesKept, ValueTypes, BridgeTypes, ScriptTypes, LineAddresses
<1> QED  BY <1>1, <1>2, <1>3 DEF Next

\* The types of TelnetSocket, which are those of SerialSocket and one more.
LEMMA LineTypesCorrect == LineTypes => Telnet!TypeOK
<1>1. Telnet!Serial!Zero = Serial!Zero /\ Telnet!Serial!Short = Serial!Short
  BY DEF Telnet!Serial!Zero, Serial!Zero, Telnet!Serial!Short, Serial!Short
<1> QED  BY <1>1 DEF LineTypes, ValueTypes, BridgeTypes, ScriptTypes, LineAddresses, Telnet!TypeOK, Telnet!Serial!TypeOK

\* No script runs, nothing has been read.
LEMMA LineTypesInit == Init => LineTypes
<1> SUFFICES ASSUME Init PROVE LineTypes  OBVIOUS
<1>1. /\ script = <<>> /\ fd = FALSE /\ hungUp = FALSE /\ bridge = "idle" /\ faults = 0 /\ maximumMessageLength = 0
      /\ ownAddress = Serial!Zero /\ broadcastAddress = Serial!Zero /\ from_address = Serial!Zero
  BY SameLines DEF Init, Telnet!Init, Telnet!Serial!Init
<1>2. faults \in 0..MaxLineFaults
  BY <1>1, ConstantsAssumption DEF Serial!ConstantsOK
<1>3. ValueTypes
  BY <1>1 DEF ValueTypes, LineAddresses
<1>4. BridgeTypes
  BY <1>1, <1>2 DEF BridgeTypes
<1>5. ScriptTypes
  <2>1. script \in Seq(Commands)
    BY <1>1
  <2> QED  BY <2>1, ScriptKinds DEF ScriptTypes
<1> QED  BY <1>1, <1>3, <1>4, <1>5 DEF LineTypes

-----------------------------------------------------------------------------
(* Types: the sockets *)

UdpTypes ==
    /\ udp_socket \in Udp!Descriptors /\ socket_descriptor \in Udp!Descriptors \cup {"zero"}
    /\ at \in {"idle", "unicast", "multicast", "end"}
SingleTypes == Single!TypeOK
TcpTypes ==
    /\ tcp_listens \in BOOLEAN /\ tcp_loop \in {"idle", "pop"} /\ gone \subseteq Peers
    /\ conn \in [Peers -> {"none", "waiting", "accepted", "added", "refused"}]
    /\ deviceAddress \in [Peers -> Tcp!Garbage]
    /\ \A c \in Peers : sends[c].sent <= MaxSent

\* What LinuxUdpSocket::begin leaves in the descriptors.
LEMMA UdpBegins ==
  ASSUME UdpTypes, NEW ok, NEW exits, Udp!begin(ok, exits)
  PROVE  udp_socket' \in Udp!Descriptors /\ socket_descriptor' \in Udp!Descriptors \cup {"zero"}
<1>1. PICK u \in Udp!initUdpSocket, m \in Udp!initMulticastUdpSocket :
         udp_socket' = u.fd /\ socket_descriptor' = IF u.ok THEN m.fd ELSE socket_descriptor
  BY DEF Udp!begin
<1>2. u.fd \in Udp!Descriptors
  BY DEF Udp!initUdpSocket, Udp!Descriptors
<1>3. m.fd \in Udp!Descriptors
  BY DEF Udp!initMulticastUdpSocket, Udp!Descriptors
<1> QED  BY <1>1, <1>2, <1>3 DEF UdpTypes

\* A step of LinuxUdpSocket.
LEMMA UdpTypesNext == ASSUME UdpTypes, [Next]_vars PROVE UdpTypes'
<1>1. CASE UdpStep
  <2>1. CASE Udp!start \/ Udp!loop_reopen
    <3>1. PICK ok, exits \in BOOLEAN : Udp!begin(ok, exits)
      BY <2>1 DEF Udp!start, Udp!loop_reopen
    <3>2. UNCHANGED at
      BY <2>1 DEF Udp!start, Udp!loop_reopen
    <3> QED  BY <3>1, <3>2, UdpBegins DEF UdpTypes
  <2>2. CASE Udp!loop_enter \/ Udp!Loop \/ Udp!loop_return
    BY <2>2 DEF Udp!loop_enter, Udp!Loop, Udp!receive, Udp!receive_nothing, Udp!loop_return, Udp!After,
       Udp!sockets, UdpTypes
  <2>3. CASE Udp!send \/ Udp!send_broadcast \/ Udp!datagram("unicast") \/ Udp!datagram("multicast")
    BY <2>3 DEF Udp!send, Udp!send_broadcast, Udp!datagram, Udp!sockets, UdpTypes
  <2> QED  BY <1>1, <2>1, <2>2, <2>3 DEF UdpStep, Udp!Next
<1>2. CASE UNCHANGED vars \/ SerialStep \/ TelnetStep \/ SingleStep \/ TcpStep \/ BleStep \/ ProcessStep
  BY <1>2 DEF vars, SerialStep, TelnetStep, SingleStep, TcpStep, BleStep, ProcessStep, udpVars, UdpTypes
<1> QED  BY <1>1, <1>2 DEF Next

\* A step of SingleTcpSocket.
LEMMA SingleTypesNext == ASSUME SingleTypes, [Next]_vars PROVE SingleTypes'
<1> USE DEF SingleTypes, Single!TypeOK
<1>1. CASE SingleStep
  <2>0. Single!Next
    BY <1>1 DEF SingleStep
  <2>1. CASE Single!start
    BY <2>1 DEF Single!start, Single!initTcpSocket
  <2>2. CASE Single!loop_reopen
    BY <2>2 DEF Single!loop_reopen, Single!initTcpSocket
  <2>3. CASE Single!loop_accept
    BY <2>3 DEF Single!loop_accept
  <2>4. CASE Single!loop_receive
    BY <2>4 DEF Single!loop_receive
  <2>5. CASE Single!send_closed
    BY <2>5 DEF Single!send_closed
  <2>6. ASSUME NEW c \in Clients, Single!client_connects(c) \/ Single!client_sends(c) \/ Single!client_closes(c)
        PROVE  SingleTypes'
    BY <2>6 DEF Single!client_connects, Single!client_sends, Single!client_closes
  <2> QED  BY <2>0, <2>1, <2>2, <2>3, <2>4, <2>5, <2>6 DEF Single!Next
<1>2. CASE UNCHANGED vars \/ SerialStep \/ TelnetStep \/ UdpStep \/ TcpStep \/ BleStep \/ ProcessStep
  BY <1>2 DEF vars, SerialStep, TelnetStep, UdpStep, TcpStep, BleStep, ProcessStep, singleVars
<1> QED  BY <1>1, <1>2 DEF Next

\* The bounds of a client's counts, with which the messages of the queue have theirs.
LEMMA CountBounds ==
  ASSUME QueueInv, TcpTypes
  PROVE  /\ sends \in [Peers -> [sent : 0..MaxSent, received : 0..MaxSent]]
         /\ Tcp!Range(receiver_queue) \subseteq Peers \X (0..MaxSent)
<1>m. MaxSent \in Nat
  BY ConstantsAssumption DEF Tcp!ConstantsOK
<1>1. ASSUME NEW c \in Peers
      PROVE  sends[c] \in [sent : 0..MaxSent, received : 0..MaxSent]
  <2>1. sends[c] \in Counts
    BY DEF QueueInv, CountsInv
  <2>2. sends[c].received <= sends[c].sent /\ sends[c].sent <= MaxSent
    BY DEF QueueInv, CountsInv, TcpTypes
  <2> QED  BY <1>m, <2>1, <2>2 DEF Counts
<1>2. sends \in [Peers -> [sent : 0..MaxSent, received : 0..MaxSent]]
  BY <1>1 DEF QueueInv, CountsInv
<1>3. ASSUME NEW i \in 1..Len(receiver_queue) PROVE receiver_queue[i] \in Peers \X (0..MaxSent)
  <2>1. receiver_queue[i] \in Received /\ receiver_queue[i][2] <= sends[receiver_queue[i][1]].received
    BY DEF QueueInv, CountsInv
  <2>2. sends[receiver_queue[i][1]].received \in 0..MaxSent
    BY <1>1, <2>1 DEF Received
  <2> QED  BY <1>m, <2>1, <2>2 DEF Received
<1>4. Tcp!Range(receiver_queue) = {receiver_queue[i] : i \in 1..Len(receiver_queue)}
  BY DEF QueueInv, CountsInv, Tcp!Range
<1> QED  BY <1>2, <1>3, <1>4

\* A step of TcpSocket.
LEMMA TcpTypesNext == ASSUME QueueInv, TcpTypes, [Next]_vars PROVE TcpTypes'
<1>1. CASE TcpStep
  <2>0. Tcp!Next
    BY <1>1 DEF TcpStep
  <2>1. CASE Tcp!begin \/ Tcp!loop_empty \/ Tcp!loop_pop
    BY <2>1 DEF Tcp!begin, Tcp!loop_empty, Tcp!loop_pop, TcpTypes
  <2>2. ASSUME NEW c \in Peers, Tcp!connects(c) \/ Tcp!addTcpConnection(c) \/ Tcp!closes(c) \/ Tcp!receive_empty(c)
        PROVE  TcpTypes'
    BY <2>2 DEF Tcp!connects, Tcp!addTcpConnection, Tcp!closes, Tcp!receive_empty, TcpTypes
  <2>3. ASSUME NEW c \in Peers, Tcp!accept(c)
        PROVE  TcpTypes'
    <3>1. deviceAddress' \in [Peers -> Tcp!Garbage]
      BY <2>3 DEF Tcp!accept, TcpTypes
    <3>2. conn' \in [Peers -> {"none", "waiting", "accepted", "added", "refused"}]
      BY <2>3 DEF Tcp!accept, TcpTypes
    <3> QED  BY <2>3, <3>1, <3>2 DEF Tcp!accept, TcpTypes
  <2>4. ASSUME NEW c \in Peers, Tcp!writes(c)
        PROVE  TcpTypes'
    <3>1. sends \in [Peers -> Counts] /\ MaxSent \in Nat
      BY ConstantsAssumption DEF QueueInv, CountsInv, Tcp!ConstantsOK
    <3>2. sends' = [sends EXCEPT ![c] = [sends[c] EXCEPT !.sent = sends[c].sent + 1]] /\ sends[c].sent < MaxSent
      BY <2>4 DEF Tcp!writes
    <3>3. \A d \in Peers : sends'[d].sent <= MaxSent
      BY <3>1, <3>2 DEF TcpTypes, Counts
    <3> QED  BY <2>4, <3>3 DEF Tcp!writes, TcpTypes
  <2>5. ASSUME NEW c \in Peers, Tcp!receive_message(c)
        PROVE  TcpTypes'
    <3>1. sends \in [Peers -> Counts]
      BY DEF QueueInv, CountsInv
    <3>2. \E n : sends' = [sends EXCEPT ![c] = [sends[c] EXCEPT !.received = n]]
      BY <2>5 DEF Tcp!receive_message
    <3>3. \A d \in Peers : sends'[d].sent = sends[d].sent
      BY <3>1, <3>2 DEF Counts
    <3> QED  BY <2>5, <3>3 DEF Tcp!receive_message, TcpTypes
  <2> QED  BY <2>0, <2>1, <2>2, <2>3, <2>4, <2>5 DEF Tcp!Next
<1>2. CASE UNCHANGED vars \/ SerialStep \/ TelnetStep \/ UdpStep \/ SingleStep \/ BleStep \/ ProcessStep
  BY <1>2 DEF vars, SerialStep, TelnetStep, UdpStep, SingleStep, BleStep, ProcessStep, tcpVars, TcpTypes
<1> QED  BY <1>1, <1>2 DEF Next

\* The descriptors, the clients and the peers of a process that has just started.
LEMMA SocketTypesInit == Init => UdpTypes /\ SingleTypes /\ TcpTypes
<1> SUFFICES ASSUME Init PROVE UdpTypes /\ SingleTypes /\ TcpTypes  OBVIOUS
<1>1. UdpTypes
  BY DEF Init, Udp!Init, UdpTypes, Udp!Descriptors
<1>2. SingleTypes
  BY DEF Init, Single!Init, SingleTypes, Single!TypeOK
<1>3. TcpTypes
  <2>1. MaxSent \in Nat
    BY ConstantsAssumption DEF Tcp!ConstantsOK
  <2>2. /\ tcp_listens = FALSE /\ tcp_loop = "idle" /\ gone = {} /\ conn = [c \in Peers |-> "none"]
        /\ deviceAddress = [c \in Peers |-> "g1"] /\ sends = [c \in Peers |-> [sent |-> 0, received |-> 0]]
    BY DEF Init, Tcp!Init
  <2>3. \A c \in Peers : sends[c].sent <= MaxSent
    BY <2>1, <2>2
  <2> QED  BY <2>2, <2>3 DEF TcpTypes, Tcp!Garbage
<1> QED  BY <1>1, <1>2, <1>3

-----------------------------------------------------------------------------
(* Types: the Bluetooth LE transport, the process and what all builds share *)

ScanTypes    == stopped \in BOOLEAN /\ todo \subseteq Macs /\ devices \subseteq Macs /\ bleMessageQueue \in Seq(Macs)
ProcessTypes ==
    /\ dispatch \in {"none", "check", "loop", "ended"}
    /\ loopStopped \in BOOLEAN /\ stopping \in {"no", "join", "returned"}
    /\ sinceBeat \in 0..MaxTicks /\ sinceAsked \in 0..MaxTicks
SharedTypesInv ==
    /\ build \in Builds
    /\ gateway \in {"starting", "running", "failed", "killed", "stopping", "stopped"}
    /\ core \in {"unknown", "connected", "disconnected"}

\* The acceptor visits devices that the adapter lists, and a thread that pushes a message
\* is one of a device.
LEMMA ScanTypesNext == ASSUME BleInv, ScanTypes, [Next]_vars PROVE ScanTypes'
<1>1. CASE UNCHANGED bleVars
  BY <1>1 DEF bleVars, ScanTypes
<1>2. CASE Ble!Acceptor
  BY <1>2 DEF Ble!Acceptor, Ble!loop_start, Ble!loop_adapter, Ble!loop_no_adapter, Ble!loop_scan, Ble!loop_return,
     Ble!loop_broken, Ble!loop_device, Ble!loop_faulty, Ble!connect, Ble!socket, ScanTypes
<1>3. CASE Ble!Gateway
  <2>1. CASE Ble!loop
    <3>1. Tail(bleMessageQueue) \in Seq(Macs)
      BY <2>1 DEF Ble!loop, ScanTypes
    <3> QED  BY <2>1, <3>1 DEF Ble!loop, Ble!others, ScanTypes
  <2>2. CASE Ble!start_succeeds \/ Ble!start_fails \/ Ble!destroy \/ Ble!destroyed \/ \E m \in Macs : Ble!send(m)
    BY <2>2 DEF Ble!start_succeeds, Ble!start_fails, Ble!destroy, Ble!destroyed, Ble!send, Ble!others, Ble!socket,
       ScanTypes
  <2> QED  BY <1>3, <2>1, <2>2 DEF Ble!Gateway
<1>4. CASE Ble!Surroundings
  BY <1>4 DEF Ble!Surroundings, Ble!tick, Ble!discovered, Ble!others, Ble!socket, ScanTypes
<1>5. ASSUME NEW t \in Slots, Ble!Progress(t) \/ Ble!addBLEMessage(t) \/ Ble!link_down(t)
      PROVE  ScanTypes'
  <2>1. CASE Ble!addBLEMessage(t)
    <3>1. thread[t].mac \in Macs
      BY <2>1 DEF Ble!addBLEMessage, BleInv, ThreadsInv, Working
    <3>2. Append(bleMessageQueue, thread[t].mac) \in Seq(Macs)
      BY <3>1 DEF ScanTypes
    <3> QED  BY <2>1, <3>2 DEF Ble!addBLEMessage, Ble!others, ScanTypes
  <2>2. CASE Ble!link_down(t)
    BY <2>2 DEF Ble!link_down, Ble!others, Ble!socket, ScanTypes
  <2>3. CASE Ble!Progress(t)
    <3>1. UNCHANGED <<stopped, todo, bleMessageQueue>> /\ (devices' = devices \/ devices' = devices \ {thread[t].mac})
      BY <2>3 DEF Ble!Progress, Ble!connect_succeeds, Ble!connect_fails, Ble!service_fails, Ble!service_found,
         Ble!mac_empty, Ble!nus_connect, Ble!addBLEConnection, Ble!disconnects, Ble!disconnect_throws,
         Ble!removeBLEConnection, Ble!removeBLEDevice, Ble!unsetConnectionInProgress, Ble!thread_ends,
         Ble!others, Ble!socket
    <3> QED  BY <3>1 DEF ScanTypes
  <2> QED  BY <2>1, <2>2, <2>3, <1>5
<1> QED  BY <1>1, <1>2, <1>3, <1>4, <1>5, BleFrame DEF Ble!Next

\* A step of the process; the time since the last beat grows while the bound lets it.
LEMMA ProcessTypesNext == ASSUME ProcessTypes, [Next]_vars PROVE ProcessTypes'
<1>m. MaxTicks \in Nat
  BY ConstantsAssumption DEF Process!ConstantsOK
<1>1. CASE UNCHANGED processVars
  BY <1>1 DEF processVars, ProcessTypes
<1>2. CASE Process!setup \/ Process!dispatch_loop \/ Process!stop_loop \/ Process!stop_loop_joined
  BY <1>2 DEF Process!setup, Process!dispatch_loop, Process!stop_loop, Process!stop_loop_joined, Process!clockVars,
     ProcessTypes
<1>3. CASE Process!set_heartbeat \/ Process!has_beaten \/ Process!get_elapsed_time \/ Process!tick
  <2>1. UNCHANGED <<dispatch, loopStopped, stopping>>
    BY <1>3 DEF Process!set_heartbeat, Process!has_beaten, Process!get_elapsed_time, Process!tick, Process!loopVars
  <2>2. /\ sinceBeat' \in {sinceBeat, 0} \/ (sinceBeat < MaxTicks /\ sinceBeat' = sinceBeat + 1)
        /\ sinceAsked' \in {sinceAsked, 0} \/ (sinceAsked < MaxTicks /\ sinceAsked' = sinceAsked + 1)
    BY <1>3 DEF Process!set_heartbeat, Process!has_beaten, Process!get_elapsed_time, Process!tick
  <2>3. sinceBeat' \in 0..MaxTicks /\ sinceAsked' \in 0..MaxTicks
    BY <1>m, <2>2 DEF ProcessTypes
  <2> QED  BY <2>1, <2>3 DEF ProcessTypes
<1> QED  BY <1>1, <1>2, <1>3, ClockFrame DEF Process!Next

\* What the steps of the lines do to gateway and core.
LEMMA LineShared ==
  ASSUME Serial!Next \/ Telnet!Next
  PROVE  gateway' \in {gateway, "failed", "killed", "running"} /\ core' \in {core, "connected"}
<1>1. ASSUME NEW what, NEW l, Serial!ReadMessage(what, l) \/ Serial!ReadConfig(what, l)
      PROVE  gateway' \in {gateway, "failed"}
  BY <1>1 DEF Serial!ReadMessage, Serial!ReadConfig
<1>2. ASSUME NEW what, NEW l, Telnet!Serial!ReadMessage(what, l)
      PROVE  UNCHANGED gateway
  BY <1>2 DEF Telnet!Serial!ReadMessage
<1>3. CASE Serial!Next
  <2>1. CASE Serial!read_line
    BY <1>1, <2>1 DEF Serial!read_line
  <2>2. CASE Serial!begin \/ Serial!send \/ Serial!loop \/ Serial!write_line \/ Serial!wait_line
    BY <2>2 DEF Serial!begin, Serial!send, Serial!loop, Serial!write_line, Serial!wait_line
  <2>3. CASE \/ Serial!receiveData \/ Serial!notify_socket_connected \/ Serial!bridge_answers
             \/ Serial!bridge_restarts \/ Serial!line_fault
    BY <2>3 DEF Serial!receiveData, Serial!notify_socket_connected, Serial!bridge_answers, Serial!bridge_restarts,
       Serial!line_fault
  <2> QED  BY <1>3, <2>1, <2>2, <2>3 DEF Serial!Next, Serial!Steps
<1>4. CASE Telnet!Next
  <2>1. CASE Telnet!read_line \/ Telnet!read_closed
    BY <1>2, <2>1 DEF Telnet!read_line, Telnet!read_closed, Telnet!Fails
  <2>2. CASE \/ Telnet!begin \/ Telnet!getMaximumMessageLength \/ Telnet!write_closed \/ Telnet!wait_gives_up
             \/ Telnet!close_sock \/ Telnet!bridge_hangs_up
    BY <2>2 DEF Telnet!begin, Telnet!getMaximumMessageLength, Telnet!write_closed, Telnet!wait_gives_up,
       Telnet!close_sock, Telnet!bridge_hangs_up, Telnet!Fails
  <2>3. CASE \/ Telnet!send \/ Telnet!loop \/ Telnet!write_line \/ Telnet!wait_line \/ Telnet!receiveData
             \/ Telnet!notify_socket_connected \/ Telnet!bridge_answers
    BY <2>3 DEF Telnet!send, Telnet!loop, Telnet!write_line, Telnet!wait_line, Telnet!receiveData,
       Telnet!notify_socket_connected, Telnet!bridge_answers, Telnet!Serial!send, Telnet!Serial!loop,
       Telnet!Serial!write_line, Telnet!Serial!wait_line, Telnet!Serial!receiveData,
       Telnet!Serial!notify_socket_connected, Telnet!Serial!bridge_answers
  <2> QED  BY <1>4, <2>1, <2>2, <2>3 DEF Telnet!Next, Telnet!Steps
<1> QED  BY <1>3, <1>4

\* What the other sockets do to gateway and core.
LEMMA SocketShared ==
  ASSUME Udp!Next \/ Single!Next \/ Tcp!Next
  PROVE  gateway' \in {gateway, "failed", "killed", "running"} /\ core' \in {core, "connected", "disconnected"}
<1>1. CASE Udp!Next
  <2>1. CASE Udp!start \/ Udp!loop_reopen
    BY <2>1 DEF Udp!start, Udp!loop_reopen, Udp!Started, Udp!Reopened
  <2>2. CASE \/ Udp!loop_enter \/ Udp!Loop \/ Udp!loop_return \/ Udp!send \/ Udp!send_broadcast
             \/ Udp!datagram("unicast") \/ Udp!datagram("multicast")
    <3>1. UNCHANGED Udp!sockets
      BY <2>2 DEF Udp!loop_enter, Udp!Loop, Udp!receive, Udp!receive_nothing, Udp!loop_return, Udp!send,
         Udp!send_broadcast, Udp!datagram
    <3> QED  BY <3>1 DEF Udp!sockets
  <2> QED  BY <1>1, <2>1, <2>2 DEF Udp!Next
<1>2. CASE Single!Next
  <2>1. CASE Single!start \/ Single!loop_reopen
    BY <2>1 DEF Single!start, Single!loop_reopen, Single!Started, Single!Reopened, Single!begin
  <2>2. CASE \/ Single!loop_accept \/ Single!loop_receive \/ Single!send_closed
             \/ \E c \in Clients : Single!client_connects(c) \/ Single!client_sends(c) \/ Single!client_closes(c)
    BY <2>2 DEF Single!loop_accept, Single!loop_receive, Single!send_closed, Single!client_connects,
       Single!client_sends, Single!client_closes
  <2> QED  BY <1>2, <2>1, <2>2 DEF Single!Next
<1>3. CASE Tcp!Next
  BY <1>3 DEF Tcp!Next, Tcp!begin, Tcp!loop_empty, Tcp!loop_pop, Tcp!connects, Tcp!accept, Tcp!addTcpConnection,
     Tcp!writes, Tcp!receive_message, Tcp!closes, Tcp!receive_empty
<1> QED  BY <1>1, <1>2, <1>3

\* What the Bluetooth LE transport and the process do to gateway and core.
LEMMA RestShared ==
  /\ Ble!Next => /\ gateway' \in {gateway, "running", "failed", "stopping", "stopped"}
                 /\ core' \in {core, "connected"}
  /\ Process!Next => gateway' \in {gateway, "running", "failed"}
<1>1. ASSUME Ble!Next
      PROVE  /\ gateway' \in {gateway, "running", "failed", "stopping", "stopped"}
             /\ core' \in {core, "connected"}
  <2>1. CASE Ble!Acceptor
    BY <2>1 DEF Ble!Acceptor, Ble!loop_start, Ble!loop_adapter, Ble!loop_no_adapter, Ble!loop_scan, Ble!loop_return,
       Ble!loop_broken, Ble!loop_device, Ble!loop_faulty, Ble!connect
  <2>2. CASE Ble!Gateway
    BY <2>2 DEF Ble!Gateway, Ble!start_succeeds, Ble!start_fails, Ble!destroy, Ble!destroyed, Ble!send, Ble!loop,
       Ble!others
  <2>3. CASE Ble!Surroundings
    BY <2>3 DEF Ble!Surroundings, Ble!tick, Ble!discovered, Ble!others
  <2>4. ASSUME NEW t \in Slots, Ble!Progress(t) \/ Ble!addBLEMessage(t) \/ Ble!link_down(t)
        PROVE  UNCHANGED Ble!others
    BY <2>4 DEF Ble!Progress, Ble!connect_succeeds, Ble!connect_fails, Ble!service_fails, Ble!service_found,
       Ble!mac_empty, Ble!nus_connect, Ble!addBLEConnection, Ble!disconnects, Ble!disconnect_throws,
       Ble!removeBLEConnection, Ble!removeBLEDevice, Ble!unsetConnectionInProgress, Ble!thread_ends,
       Ble!addBLEMessage, Ble!link_down
  <2>5. UNCHANGED Ble!others => UNCHANGED <<gateway, core>>
    BY DEF Ble!others
  <2> QED  BY <1>1, <2>1, <2>2, <2>3, <2>4, <2>5 DEF Ble!Next
<1>2. ASSUME Process!Next PROVE gateway' \in {gateway, "running", "failed"}
  BY <1>2 DEF Process!Next, Process!setup, Process!dispatch_loop, Process!stop_loop, Process!stop_loop_joined,
     Process!set_heartbeat, Process!has_beaten, Process!get_elapsed_time, Process!tick, Process!loopVars
<1> QED  BY <1>1, <1>2

\* A step of any build.
LEMMA SharedTypesNext == ASSUME SharedTypesInv, [Next]_vars PROVE SharedTypesInv'
<1>1. CASE UNCHANGED vars
  BY <1>1 DEF vars, SharedTypesInv
<1>2. CASE SerialStep \/ TelnetStep
  BY <1>2, LineShared DEF SerialStep, TelnetStep, SharedTypesInv
<1>3. CASE UdpStep \/ SingleStep \/ TcpStep
  BY <1>3, SocketShared DEF UdpStep, SingleStep, TcpStep, SharedTypesInv
<1>4. CASE BleStep \/ ProcessStep
  BY <1>4, RestShared DEF BleStep, ProcessStep, SharedTypesInv
<1> QED  BY <1>1, <1>2, <1>3, <1>4 DEF Next

-----------------------------------------------------------------------------
(* Types: all parts *)

TypesInv == LineTypes /\ UdpTypes /\ SingleTypes /\ TcpTypes /\ ScanTypes /\ ProcessTypes /\ SharedTypesInv

\* Every part starts with the values of its constructor.
LEMMA TypesInit == Init => TypesInv
<1> SUFFICES ASSUME Init PROVE TypesInv  OBVIOUS
<1>1. ScanTypes
  <2>1. stopped = FALSE /\ todo = {} /\ devices = {} /\ bleMessageQueue = <<>>
    BY DEF Init, Ble!Init
  <2>2. stopped \in BOOLEAN
    BY <2>1, Zenon
  <2>3. todo \subseteq Macs /\ devices \subseteq Macs /\ bleMessageQueue \in Seq(Macs)
    BY <2>1
  <2> QED  BY <2>2, <2>3, Zenon DEF ScanTypes
<1>2. ProcessTypes
  <2>1. MaxTicks \in Nat
    BY ConstantsAssumption DEF Process!ConstantsOK
  <2>2. dispatch = "none" /\ loopStopped = FALSE /\ stopping = "no" /\ sinceBeat = 0 /\ sinceAsked = 0
    BY DEF Init, Process!Init
  <2>3. dispatch \in {"none", "check", "loop", "ended"} /\ loopStopped \in BOOLEAN /\ stopping \in {"no", "join", "returned"}
    BY <2>2, Zenon
  <2>4. sinceBeat \in 0..MaxTicks /\ sinceAsked \in 0..MaxTicks
    BY <2>1, <2>2
  <2> QED  BY <2>3, <2>4, Zenon DEF ProcessTypes
<1>3. SharedTypesInv
  BY DEF Init, Udp!Init, SharedTypesInv
<1> QED  BY <1>1, <1>2, <1>3, LineTypesInit, SocketTypesInit DEF TypesInv

\* Together with the invariants of the parts, these are the types.
LEMMA TypesImply == ASSUME TypesInv, ReplyInv, QueueInv, BleInv, ClockInv PROVE TypeOK
<1>1. Telnet!TypeOK
  BY LineTypesCorrect DEF TypesInv
<1>2. Udp!TypeOK
  <2>1. ASSUME NEW d \in DOMAIN arrived PROVE Udp!Range(arrived[d]) \subseteq Udp!Endpoints \cup {Udp!Own}
    <3>1. arrived[d] \in Seq(Senders)
      BY DEF ReplyInv
    <3>2. Udp!Range(arrived[d]) = {arrived[d][i] : i \in 1..Len(arrived[d])}
      BY <3>1 DEF Udp!Range
    <3> QED  BY <3>1, <3>2 DEF Senders
  <2> QED  BY <2>1 DEF Udp!TypeOK, TypesInv, UdpTypes
<1>3. Single!TypeOK
  BY DEF TypesInv, SingleTypes
<1>4. Tcp!TypeOK
  BY CountBounds DEF TypesInv, TcpTypes, Tcp!TypeOK
<1>5. Ble!TypeOK
  BY DEF TypesInv, ScanTypes, BleInv, BleTypes, Ble!TypeOK
<1>6. Process!TypeOK
  BY DEF TypesInv, ProcessTypes, ClockInv, Process!TypeOK
<1> QED  BY <1>1, <1>2, <1>3, <1>4, <1>5, <1>6 DEF TypesInv, SharedTypesInv, TypeOK

\* The variables of every transport and of the process keep to their types (TypeOK): what
\* is parsed from a line is an address or what stands for none, whatever is lost or
\* garbled, the messages in the queues come from clients, and the bounds are kept.
THEOREM TypesCorrect == Spec => []TypeOK
<1> DEFINE Inv == LineInv /\ ReplyInv /\ QueueInv /\ BleInv /\ ClockInv /\ TypesInv
<1>1. Init => Inv
  BY ReadyInit, ReplyInit, QueueInit, BleInit, ClockInit, TypesInit DEF ReadyInv
<1>2. Inv /\ [Next]_vars => Inv'
  <2> SUFFICES ASSUME Inv, [Next]_vars PROVE Inv'  OBVIOUS
  <2>1. LineInv' /\ ReplyInv' /\ QueueInv' /\ BleInv' /\ ClockInv'
    BY LineNext, ReplyNext, QueueNext, BleNext, ClockNext
  <2>2. LineTypes'
    BY <2>1, LineTypesNext DEF TypesInv
  <2>3. UdpTypes' /\ SingleTypes' /\ TcpTypes'
    BY UdpTypesNext, SingleTypesNext, TcpTypesNext DEF TypesInv
  <2>4. ScanTypes' /\ ProcessTypes' /\ SharedTypesInv'
    BY ScanTypesNext, ProcessTypesNext, SharedTypesNext DEF TypesInv
  <2> QED  BY <2>1, <2>2, <2>3, <2>4 DEF TypesInv
<1>3. Inv => TypeOK
  BY TypesImply
<1> QED  BY <1>1, <1>2, <1>3, PTL DEF Spec

=============================================================================
