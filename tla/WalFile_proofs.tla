---------------------------- MODULE WalFile_proofs ---------------------------
(***************************************************************************)
(* Proofs that the log file gives back every acknowledged record, in order *)
(* and nothing else, for any records and any number of crashes, provided   *)
(* that no I/O error leaves part of a record behind (~DirtyFaults), and    *)
(* that it implements a sequence of records with a durable prefix.         *)
(***************************************************************************)
EXTENDS WalFile, Integers, WellFoundedInduction, TLAPS

(***************************************************************************)
(* Records and cells                                                       *)
(***************************************************************************)

Size(r) == HeaderLen + KeyLen[r.key] + ValCells(r.val)

Cell == [rec : Record, at : Nat]

(* A record has a header, and at least its cells.                          *)
LEMMA SizeType ==
    ASSUME NEW r \in Record
    PROVE  /\ HeaderLen \in Nat /\ HeaderLen > 0 /\ MagicLen \in Nat /\ MagicLen < HeaderLen
           /\ KeyLen[r.key] \in Nat /\ ValCells(r.val) \in Nat
           /\ Size(r) \in Nat /\ Size(r) >= HeaderLen
<1>1. KeyLen[r.key] \in Nat /\ ValCells(r.val) \in Nat
  BY WalFileAssumption DEF Record, ValCells
<1>2. QED
  BY <1>1, WalFileAssumption DEF Size

(* What the writes of appendRecord write: cells a + 1 to b of the record.  *)
LEMMA PartOf ==
    ASSUME NEW r \in Record, NEW a \in Nat, NEW b \in Nat, a <= b, b <= Size(r)
    PROVE  /\ SubSeq(Cells(r), a + 1, b) \in Seq(Cell)
           /\ Len(SubSeq(Cells(r), a + 1, b)) = b - a
           /\ \A i \in 1 .. b - a : /\ SubSeq(Cells(r), a + 1, b)[i].rec = r
                                  /\ SubSeq(Cells(r), a + 1, b)[i].at = a + i
<1>1. Size(r) \in Nat
  BY SizeType
<1>2. Cells(r) = [i \in 1 .. Size(r) |-> [rec |-> r, at |-> i]]
  BY DEF Cells, Size
<1>3. \A i \in 1 .. Size(r) : [rec |-> r, at |-> i] \in Cell
  BY <1>1 DEF Cell
<1>4. Cells(r) \in Seq(Cell) /\ Len(Cells(r)) = Size(r)
  BY <1>1, <1>2, <1>3
<1>5. QED
  BY <1>1, <1>2, <1>4

(***************************************************************************)
(* The file                                                                *)
(***************************************************************************)

(* A record of s ends at cell p, or the file starts after it.              *)
Bound(s, p) == p = 0 \/ s[p].at = Size(s[p].rec)

(* From each cell the record goes on, as far as the file reaches; where one *)
(* ends the next begins.                                                    *)
FileOK(s) ==
    /\ s \in Seq(Cell)
    /\ \A p \in 1 .. Len(s) : s[p].at \in 1 .. Size(s[p].rec)
    /\ \A p, q \in 1 .. Len(s) :
          p <= q /\ s[p].at + (q - p) <= Size(s[p].rec)
             => s[q].rec = s[p].rec /\ s[q].at = s[p].at + (q - p)
    /\ \A p \in 0 .. Len(s) - 1 : Bound(s, p) => s[p + 1].at = 1

(* A prefix of the file, which is what a crash or finishReplay leaves, is  *)
(* a file of the same form.                                                *)
LEMMA CutOK ==
    ASSUME NEW s, FileOK(s), NEW n \in 0 .. Len(s)
    PROVE  /\ FileOK(SubSeq(s, 1, n)) /\ Len(SubSeq(s, 1, n)) = n
           /\ \A p \in 1 .. n : SubSeq(s, 1, n)[p] = s[p]
<1> DEFINE t == SubSeq(s, 1, n)
<1>1. s \in Seq(Cell) /\ Len(s) \in Nat
  BY DEF FileOK
<1>2. t \in Seq(Cell) /\ Len(t) = n /\ \A p \in 1 .. n : t[p] = s[p]
  BY <1>1
<1> HIDE DEF t
<1>3. \A p \in 1 .. n : p \in 1 .. Len(s) /\ t[p] = s[p]
  BY <1>1, <1>2
<1>4. \A p \in 1 .. n : t[p].at \in 1 .. Size(t[p].rec)
  BY <1>3, Zenon DEF FileOK
<1>5. \A p, q \in 1 .. n : p <= q /\ t[p].at + (q - p) <= Size(t[p].rec)
         => t[q].rec = t[p].rec /\ t[q].at = t[p].at + (q - p)
  <2> SUFFICES ASSUME NEW p \in 1 .. n, NEW q \in 1 .. n, p <= q,
                      t[p].at + (q - p) <= Size(t[p].rec)
               PROVE  t[q].rec = t[p].rec /\ t[q].at = t[p].at + (q - p)
    BY Zenon
  <2>1. p \in 1 .. Len(s) /\ q \in 1 .. Len(s) /\ t[p] = s[p] /\ t[q] = s[q]
    BY <1>3, Zenon
  <2>2. QED
    BY <2>1 DEF FileOK
<1>6. \A p \in 0 .. n - 1 : Bound(t, p) => t[p + 1].at = 1
  <2>1. \A p \in 0 .. n - 1 : Bound(t, p) => Bound(s, p)
    BY <1>1, <1>2 DEF Bound
  <2>2. \A p \in 0 .. n - 1 : p \in 0 .. Len(s) - 1 /\ p + 1 \in 1 .. n
    BY <1>1
  <2>3. QED
    BY <1>2, <2>1, <2>2 DEF FileOK
<1>7. FileOK(t)
  BY <1>2, <1>4, <1>5, <1>6 DEF FileOK
<1>8. QED
  BY <1>2, <1>7 DEF t

(* The file ends after a cells of record r.                                *)
EndsWith(s, r, a) ==
    IF a = 0 THEN Bound(s, Len(s)) ELSE Len(s) > 0 /\ (s[Len(s)].rec = r /\ s[Len(s)].at = a)

(* t is s and cells a + 1 to b of record r.                                *)
Extended(s, t, r, a, b) ==
    /\ t \in Seq(Cell) /\ Len(t) = Len(s) + (b - a)
    /\ \A p \in 1 .. Len(s) : t[p] = s[p]
    /\ \A p \in Len(s) + 1 .. Len(s) + (b - a) : t[p].rec = r /\ t[p].at = a + (p - Len(s))

(* What a write of appendRecord does to the file.                          *)
LEMMA PartExtends ==
    ASSUME NEW s \in Seq(Cell), NEW r \in Record, NEW a \in Nat, NEW b \in Nat, a <= b, b <= Size(r)
    PROVE  Extended(s, s \o SubSeq(Cells(r), a + 1, b), r, a, b)
<1>1. PICK u : u = SubSeq(Cells(r), a + 1, b)
  BY Zenon
<1>2. PICK L \in Nat : L = Len(s)
  OBVIOUS
<1>3. u \in Seq(Cell) /\ Len(u) = b - a /\ \A i \in 1 .. b - a : u[i].rec = r /\ u[i].at = a + i
  <2>1. /\ SubSeq(Cells(r), a + 1, b) \in Seq(Cell)
        /\ Len(SubSeq(Cells(r), a + 1, b)) = b - a
        /\ \A i \in 1 .. b - a : /\ SubSeq(Cells(r), a + 1, b)[i].rec = r
                               /\ SubSeq(Cells(r), a + 1, b)[i].at = a + i
    BY PartOf, Zenon
  <2>2. QED
    BY <1>1, <2>1, Zenon
<1> HIDE <1>1
<1>31. u \in Seq(Cell) /\ Len(u) = b - a
  BY <1>3
<1>4. s \o u \in Seq(Cell) /\ Len(s \o u) = L + (b - a)
  <2>1. s \o u \in Seq(Cell) /\ Len(s \o u) = Len(s) + Len(u)
    BY <1>31
  <2>2. QED
    BY <1>2, <1>31, <2>1
<1>5. \A p \in 1 .. L : (s \o u)[p] = s[p]
  BY <1>2, <1>31
<1>6. \A p \in L + 1 .. L + (b - a) : (s \o u)[p] = u[p - L]
  BY <1>2, <1>31
<1>7. \A p \in L + 1 .. L + (b - a) : p - L \in 1 .. b - a
  OBVIOUS
<1>8. Extended(s, s \o u, r, a, b)
  BY <1>2, <1>3, <1>4, <1>5, <1>6, <1>7, SMTT(30) DEF Extended
<1>9. QED
  BY <1>1, <1>8

(* The next cells of the record that the file ends in the middle of.       *)
LEMMA AppendOK ==
    ASSUME NEW s, FileOK(s), NEW r \in Record, NEW a \in Nat, NEW b \in Nat, a <= b, b <= Size(r),
           EndsWith(s, r, a), NEW t, Extended(s, t, r, a, b)
    PROVE  FileOK(t) /\ EndsWith(t, r, b)
<1>1. PICK L \in Nat : L = Len(s)
  BY DEF FileOK
<1>3. /\ t \in Seq(Cell) /\ Len(t) = L + (b - a)
      /\ \A p \in 1 .. L : t[p] = s[p]
      /\ \A p \in L + 1 .. L + (b - a) : t[p].rec = r /\ t[p].at = a + (p - L)
  BY <1>1, Zenon DEF Extended
<1>4. \A p, q \in 1 .. L : p <= q /\ s[p].at + (q - p) <= Size(s[p].rec)
         => s[q].rec = s[p].rec /\ s[q].at = s[p].at + (q - p)
  BY <1>1 DEF FileOK
<1>5. Size(r) \in Nat
  BY SizeType
<1>6. \A p \in 1 .. L : s[p].rec \in Record /\ s[p].at \in Nat /\ Size(s[p].rec) \in Nat
  <2>1. \A p \in 1 .. L : s[p] \in Cell
    BY <1>1 DEF FileOK
  <2>2. QED
    BY <2>1, SizeType DEF Cell
<1>7. \A p \in 1 .. Len(t) : t[p].at \in 1 .. Size(t[p].rec)
  <2>1. ASSUME NEW p \in 1 .. L PROVE t[p].at \in 1 .. Size(t[p].rec)
    BY <1>1, <1>3 DEF FileOK
  <2>2. ASSUME NEW p \in L + 1 .. L + (b - a) PROVE t[p].at \in 1 .. Size(t[p].rec)
    <3>1. t[p].at = a + (p - L) /\ t[p].rec = r
      BY <1>3
    <3>2. QED
      BY <1>5, <3>1
  <2>3. QED
    BY <1>3, <2>1, <2>2
<1>8. ASSUME NEW p \in 1 .. L, NEW q \in L + 1 .. L + (b - a), s[p].at + (q - p) <= Size(s[p].rec)
      PROVE  s[p].rec = r /\ s[p].at + (q - p) = a + (q - L)
  <2>1. PICK c \in Nat : c = s[p].at
    BY <1>6
  <2>2. PICK z \in Nat : z = Size(s[p].rec)
    BY <1>6
  <2>3. c + (q - p) <= z
    BY <1>8, <2>1, <2>2
  <2>4. c + (L - p) < z /\ L \in 1 .. L /\ p <= L
    BY <2>3
  <2>5. s[L].rec = s[p].rec /\ s[L].at = c + (L - p)
    BY <1>4, <2>1, <2>2, <2>4
  <2>6. a # 0
    BY <1>1, <2>2, <2>4, <2>5 DEF EndsWith, Bound
  <2>7. s[L].rec = r /\ s[L].at = a
    BY <1>1, <2>6 DEF EndsWith
  <2>8. a = c + (L - p)
    BY <2>5, <2>7
  <2>9. c + (q - p) = a + (q - L)
    BY <2>8
  <2>10. QED
    BY <2>1, <2>5, <2>7, <2>9
<1>9. ASSUME NEW p \in 1 .. Len(t), NEW q \in 1 .. Len(t), p <= q,
             t[p].at + (q - p) <= Size(t[p].rec)
      PROVE  t[q].rec = t[p].rec /\ t[q].at = t[p].at + (q - p)
  <2>1. CASE p \in 1 .. L /\ q \in 1 .. L
    <3>1. t[p] = s[p] /\ t[q] = s[q]
      BY <1>3, <2>1
    <3>2. QED
      BY <1>1, <1>9, <2>1, <3>1, Zenon DEF FileOK
  <2>2. CASE p \in 1 .. L /\ q \in L + 1 .. L + (b - a)
    <3>1. t[p] = s[p] /\ t[q].rec = r /\ t[q].at = a + (q - L)
      BY <1>3, <2>2
    <3>2. QED
      BY <1>8, <1>9, <2>2, <3>1, Zenon
  <2>3. CASE p \in L + 1 .. L + (b - a)
    <3>1. q \in L + 1 .. L + (b - a)
      BY <1>3, <1>9, <2>3
    <3>2. t[p].rec = r /\ t[p].at = a + (p - L) /\ t[q].rec = r /\ t[q].at = a + (q - L)
      BY <1>3, <2>3, <3>1
    <3>3. QED
      BY <2>3, <3>1, <3>2
  <2>4. QED
    BY <1>3, <1>9, <2>1, <2>2, <2>3
<1>10. ASSUME NEW p \in 0 .. Len(t) - 1, Bound(t, p) PROVE t[p + 1].at = 1
  <2>1. CASE p \in 0 .. L - 1
    <3>1. Bound(s, p)
      BY <1>3, <1>10, <2>1 DEF Bound
    <3>2. s[p + 1].at = 1 /\ p + 1 \in 1 .. L
      BY <1>1, <2>1, <3>1 DEF FileOK
    <3>3. QED
      BY <1>3, <3>2
  <2>2. CASE p = L
    <3>1. Bound(s, L)
      BY <1>3, <1>10, <2>2 DEF Bound
    <3>2. L + 1 \in L + 1 .. L + (b - a) /\ a + ((L + 1) - L) = a + 1
      BY <1>3, <1>10, <2>2
    <3>3. t[L + 1].at = a + 1
      BY <1>3, <3>2
    <3>4. a = 0
      <4>1. CASE a > 0
        <5>1. L > 0 /\ s[L].rec = r /\ s[L].at = a
          BY <1>1, <4>1 DEF EndsWith
        <5>2. a = Size(r)
          BY <3>1, <5>1 DEF Bound
        <5>3. QED
          BY <1>5, <3>2, <5>2
      <4>2. QED
        BY <4>1
    <3>5. QED
      BY <2>2, <3>3, <3>4
  <2>3. CASE p \in L + 1 .. L + (b - a) - 1
    <3>1. t[p].rec = r /\ t[p].at = a + (p - L)
      BY <1>3, <2>3
    <3>2. QED
      BY <1>5, <1>10, <2>3, <3>1 DEF Bound
  <2>4. QED
    BY <1>3, <1>10, <2>1, <2>2, <2>3
<1>11. EndsWith(t, r, b)
  <2>1. CASE b = a
    <3>1. Len(t) = L /\ (L > 0 => t[L] = s[L])
      BY <1>3, <2>1
    <3>2. QED
      BY <1>1, <2>1, <3>1 DEF EndsWith, Bound
  <2>2. CASE b > a
    <3>1. L + (b - a) \in L + 1 .. L + (b - a) /\ a + ((L + (b - a)) - L) = b
      BY <2>2
    <3>2. (t[L + (b - a)].rec = r /\ t[L + (b - a)].at = b)
      BY <1>3, <3>1
    <3>3. QED
      BY <1>3, <2>2, <3>2 DEF EndsWith
  <2>3. QED
    BY <2>1, <2>2
<1>12. QED
  BY <1>1, <1>3, <1>7, <1>9, <1>10, <1>11 DEF FileOK

(* The record that begins where another ends, as far as the file reaches.  *)
LEMMA RunAt ==
    ASSUME NEW s, FileOK(s), NEW p \in 0 .. Len(s) - 1, Bound(s, p)
    PROVE  /\ s[p + 1].rec \in Record
           /\ \A q \in p + 1 .. Len(s) : q - p <= Size(s[p + 1].rec)
                 => s[q].rec = s[p + 1].rec /\ s[q].at = q - p
<1>1. s \in Seq(Cell) /\ Len(s) \in Nat /\ p + 1 \in 1 .. Len(s)
  BY DEF FileOK
<1>2. s[p + 1] \in Cell
  BY <1>1
<1>3. s[p + 1].rec \in Record /\ s[p + 1].at = 1 /\ Size(s[p + 1].rec) \in Nat
  BY <1>2, SizeType, Zenon DEF FileOK, Cell
<1>4. ASSUME NEW q \in p + 1 .. Len(s), q - p <= Size(s[p + 1].rec)
      PROVE  s[q].rec = s[p + 1].rec /\ s[q].at = q - p
  <2>1. q \in 1 .. Len(s) /\ p + 1 <= q /\ 1 + (q - (p + 1)) = q - p
    BY <1>1
  <2>2. s[q].rec = s[p + 1].rec /\ s[q].at = s[p + 1].at + (q - (p + 1))
    BY <1>1, <1>3, <1>4, <2>1 DEF FileOK
  <2>3. QED
    BY <1>3, <2>1, <2>2
<1>5. QED
  BY <1>3, <1>4

(***************************************************************************)
(* Where the records of a sequence are in the file                         *)
(***************************************************************************)

Increasing(f, n) == \A i, j \in 1 .. n : i < j => f[i] < f[j]

(* The records recs end, in this order, at some of the first n cells of s.  *)
Placed(recs, s, n) ==
    \E f \in [1 .. Len(recs) -> 1 .. n] :
        /\ Increasing(f, Len(recs))
        /\ \A i \in 1 .. Len(recs) : s[f[i]].rec = recs[i] /\ Bound(s, f[i])

(* ... and are all the records that end there.                             *)
Read(recs, s, n) ==
    \E f \in [1 .. Len(recs) -> 1 .. n] :
        /\ Increasing(f, Len(recs))
        /\ \A i \in 1 .. Len(recs) : s[f[i]].rec = recs[i]
        /\ \A q \in 1 .. n : Bound(s, q) => \E i \in 1 .. Len(recs) : f[i] = q

(* Records stay in place if every cell that ends one is kept.              *)
LEMMA PlacedKept ==
    ASSUME NEW recs \in Seq(Record), NEW s, NEW t, NEW n \in Nat, NEW m \in Nat,
           Placed(recs, s, n), \A p \in 1 .. n : Bound(s, p) => p <= m /\ t[p] = s[p]
    PROVE  Placed(recs, t, m)
<1>1. PICK f \in [1 .. Len(recs) -> 1 .. n] :
        /\ Increasing(f, Len(recs))
        /\ \A i \in 1 .. Len(recs) : s[f[i]].rec = recs[i] /\ Bound(s, f[i])
  BY DEF Placed
<1>2. \A i \in 1 .. Len(recs) : f[i] \in 1 .. m /\ t[f[i]] = s[f[i]]
  BY <1>1
<1>3. f \in [1 .. Len(recs) -> 1 .. m]
  BY <1>1, <1>2
<1>4. \A i \in 1 .. Len(recs) : t[f[i]].rec = recs[i] /\ Bound(t, f[i])
  BY <1>1, <1>2 DEF Bound
<1>5. QED
  BY <1>1, <1>3, <1>4 DEF Placed

(* One place more.                                                         *)
OneMore(f, k, m) == [i \in 1 .. k + 1 |-> IF i = k + 1 THEN m ELSE f[i]]

(* One more position at the end of an increasing list of them.             *)
LEMMA IncreasingAppend ==
    ASSUME NEW k \in Nat, NEW n \in Nat, NEW m \in Nat, n < m,
           NEW f \in [1 .. k -> 1 .. n], Increasing(f, k)
    PROVE  /\ OneMore(f, k, m) \in [1 .. k + 1 -> 1 .. m]
           /\ Increasing(OneMore(f, k, m), k + 1)
           /\ OneMore(f, k, m)[k + 1] = m
           /\ \A i \in 1 .. k : OneMore(f, k, m)[i] = f[i]
<1>1. \A i \in 1 .. k + 1 : i = k + 1 \/ i \in 1 .. k
  OBVIOUS
<1>2. \A i \in 1 .. k : f[i] \in 1 .. n
  OBVIOUS
<1>3. PICK g : g = OneMore(f, k, m)
  OBVIOUS
<1>4. g[k + 1] = m /\ \A i \in 1 .. k : g[i] = f[i]
  BY <1>3 DEF OneMore
<1>5. g \in [1 .. k + 1 -> 1 .. m]
  BY <1>1, <1>2, <1>3 DEF OneMore
<1>6. ASSUME NEW i \in 1 .. k + 1, NEW j \in 1 .. k + 1, i < j PROVE g[i] < g[j]
  <2>1. i \in 1 .. k /\ g[i] = f[i]
    BY <1>4, <1>6
  <2>2. CASE j = k + 1
    BY <1>2, <1>4, <2>1, <2>2
  <2>3. CASE j \in 1 .. k
    BY <1>4, <1>6, <2>1, <2>3 DEF Increasing
  <2>4. QED
    BY <1>1, <2>2, <2>3
<1>7. Increasing(g, k + 1)
  BY <1>6 DEF Increasing
<1>8. QED
  BY <1>3, <1>4, <1>5, <1>7

(* What Append does, cell by cell.                                         *)
LEMMA AppendIs ==
    ASSUME NEW recs \in Seq(Record), NEW r \in Record, NEW k \in Nat, k = Len(recs)
    PROVE  /\ Append(recs, r) \in Seq(Record) /\ Len(Append(recs, r)) = k + 1
           /\ Append(recs, r)[k + 1] = r
           /\ \A i \in 1 .. k : Append(recs, r)[i] = recs[i]
  OBVIOUS

(* A record that ends after all the placed ones is placed, too.            *)
LEMMA PlacedAppend ==
    ASSUME NEW recs \in Seq(Record), NEW s, NEW n \in Nat, Placed(recs, s, n),
           NEW r \in Record, NEW m \in Nat, n < m, s[m].rec = r, Bound(s, m)
    PROVE  Placed(Append(recs, r), s, m)
<1>1. PICK f \in [1 .. Len(recs) -> 1 .. n] :
        /\ Increasing(f, Len(recs))
        /\ \A i \in 1 .. Len(recs) : s[f[i]].rec = recs[i] /\ Bound(s, f[i])
  BY DEF Placed
<1>2. PICK k \in Nat : k = Len(recs)
  OBVIOUS
<1>3. PICK g : g = OneMore(f, k, m)
  OBVIOUS
<1>4. /\ g \in [1 .. k + 1 -> 1 .. m] /\ Increasing(g, k + 1)
      /\ g[k + 1] = m /\ \A i \in 1 .. k : g[i] = f[i]
  <2>1. f \in [1 .. k -> 1 .. n] /\ Increasing(f, k)
    BY <1>1, <1>2
  <2>2. /\ OneMore(f, k, m) \in [1 .. k + 1 -> 1 .. m] /\ Increasing(OneMore(f, k, m), k + 1)
        /\ OneMore(f, k, m)[k + 1] = m /\ \A i \in 1 .. k : OneMore(f, k, m)[i] = f[i]
    BY <2>1, IncreasingAppend, SMTT(60)
  <2>3. QED
    BY <1>3, <2>2
<1>a. PICK a : a = Append(recs, r)
  BY Zenon
<1>5. Len(a) = k + 1 /\ a[k + 1] = r /\ \A i \in 1 .. k : a[i] = recs[i]
  BY <1>2, <1>a, AppendIs
<1>6. ASSUME NEW i \in 1 .. k + 1 PROVE s[g[i]].rec = a[i] /\ Bound(s, g[i])
  <2>1. CASE i = k + 1
    BY <1>4, <1>5, <2>1
  <2>2. CASE i \in 1 .. k
    BY <1>1, <1>2, <1>4, <1>5, <2>2
  <2>3. QED
    BY <2>1, <2>2
<1>7. Placed(a, s, m)
  BY <1>4, <1>5, <1>6, Zenon DEF Placed
<1>8. QED
  BY <1>a, <1>7

NoneBetween(s, n, m) == \A q \in n + 1 .. m - 1 : ~Bound(s, q)

(* Replay goes on by one record.                                           *)
LEMMA ReadAppend ==
    ASSUME NEW recs \in Seq(Record), NEW s, NEW n \in Nat, Read(recs, s, n),
           NEW r \in Record, NEW m \in Nat, n < m, s[m].rec = r,
           NoneBetween(s, n, m)
    PROVE  Read(Append(recs, r), s, m)
<1>1. PICK f \in [1 .. Len(recs) -> 1 .. n] :
        /\ Increasing(f, Len(recs))
        /\ \A i \in 1 .. Len(recs) : s[f[i]].rec = recs[i]
        /\ \A q \in 1 .. n : Bound(s, q) => \E i \in 1 .. Len(recs) : f[i] = q
  BY Zenon DEF Read
<1>2. PICK k \in Nat : k = Len(recs)
  OBVIOUS
<1>3. PICK g : g = OneMore(f, k, m)
  OBVIOUS
<1>4. /\ g \in [1 .. k + 1 -> 1 .. m] /\ Increasing(g, k + 1)
      /\ g[k + 1] = m /\ \A i \in 1 .. k : g[i] = f[i]
  <2>1. f \in [1 .. k -> 1 .. n] /\ Increasing(f, k)
    BY <1>1, <1>2
  <2>2. /\ OneMore(f, k, m) \in [1 .. k + 1 -> 1 .. m] /\ Increasing(OneMore(f, k, m), k + 1)
        /\ OneMore(f, k, m)[k + 1] = m /\ \A i \in 1 .. k : OneMore(f, k, m)[i] = f[i]
    BY <2>1, IncreasingAppend, SMTT(60)
  <2>3. QED
    BY <1>3, <2>2
<1>a. PICK a : a = Append(recs, r)
  BY Zenon
<1>5. Len(a) = k + 1 /\ a[k + 1] = r /\ \A i \in 1 .. k : a[i] = recs[i]
  BY <1>2, <1>a, AppendIs
<1>6. ASSUME NEW i \in 1 .. k + 1 PROVE s[g[i]].rec = a[i]
  <2>1. CASE i = k + 1
    BY <1>4, <1>5, <2>1
  <2>2. CASE i \in 1 .. k
    BY <1>1, <1>2, <1>4, <1>5, <2>2
  <2>3. QED
    BY <2>1, <2>2
<1>7. ASSUME NEW q \in 1 .. m, Bound(s, q) PROVE \E i \in 1 .. k + 1 : g[i] = q
  <2>1. CASE q = m
    BY <1>4, <2>1
  <2>2. CASE q \in 1 .. n
    <3>1. PICK i \in 1 .. k : f[i] = q
      BY <1>1, <1>2, <1>7, <2>2
    <3>2. i \in 1 .. k + 1 /\ g[i] = q
      BY <1>4, <3>1
    <3>3. QED
      BY <3>2
  <2>3. q \in n + 1 .. m - 1 \/ q = m \/ q \in 1 .. n
    OBVIOUS
  <2>4. QED
    BY <1>7, <2>1, <2>2, <2>3 DEF NoneBetween
<1>8. Read(a, s, m)
  <2>1. /\ g \in [1 .. Len(a) -> 1 .. m] /\ Increasing(g, Len(a))
        /\ \A i \in 1 .. Len(a) : s[g[i]].rec = a[i]
        /\ \A q \in 1 .. m : Bound(s, q) => \E i \in 1 .. Len(a) : g[i] = q
    BY <1>4, <1>5, <1>6, <1>7
  <2>2. QED
    BY <2>1, Zenon DEF Read
<1>9. QED
  BY <1>a, <1>8

(* Embeds, for sequences.                                                  *)
LEMMA EmbedsIs ==
    ASSUME NEW a \in Seq(Record), NEW g \in Seq(Record)
    PROVE  Embeds(a, g) <=> \E f \in [1 .. Len(a) -> 1 .. Len(g)] :
               Increasing(f, Len(a)) /\ \A i \in 1 .. Len(a) : g[f[i]] = a[i]
<1>1. DOMAIN a = 1 .. Len(a) /\ DOMAIN g = 1 .. Len(g)
  OBVIOUS
<1>2. QED
  BY <1>1, Zenon DEF Embeds, Increasing

(* What has a place among the records read is embedded in them.            *)
LEMMA PlacedIsRead ==
    ASSUME NEW a \in Seq(Record), NEW g \in Seq(Record), NEW s, NEW n \in Nat, NEW m \in Nat,
           Placed(a, s, n), Read(g, s, m), \A q \in 1 .. n : Bound(s, q) => q <= m
    PROVE  Embeds(a, g)
<1>1. PICK f \in [1 .. Len(a) -> 1 .. n] :
        /\ Increasing(f, Len(a))
        /\ \A i \in 1 .. Len(a) : s[f[i]].rec = a[i] /\ Bound(s, f[i])
  BY DEF Placed
<1>2. PICK e \in [1 .. Len(g) -> 1 .. m] :
        /\ Increasing(e, Len(g))
        /\ \A i \in 1 .. Len(g) : s[e[i]].rec = g[i]
        /\ \A q \in 1 .. m : Bound(s, q) => \E i \in 1 .. Len(g) : e[i] = q
  BY Zenon DEF Read
<1>3. \A i \in 1 .. Len(a) : f[i] \in 1 .. m
  BY <1>1
<1>4. \A i \in 1 .. Len(a) : \E j \in 1 .. Len(g) : e[j] = f[i]
  BY <1>1, <1>2, <1>3, Zenon
<1> DEFINE h == [i \in 1 .. Len(a) |-> CHOOSE j \in 1 .. Len(g) : e[j] = f[i]]
<1>5. \A i \in 1 .. Len(a) : h[i] \in 1 .. Len(g) /\ e[h[i]] = f[i]
  BY <1>4, Zenon
<1>6. h \in [1 .. Len(a) -> 1 .. Len(g)]
  BY <1>5
<1> HIDE DEF h
<1>7. ASSUME NEW i \in 1 .. Len(a), NEW j \in 1 .. Len(a), i < j PROVE h[i] < h[j]
  <2>1. f[i] < f[j] /\ f[i] \in Nat /\ f[j] \in Nat
    <3>1. f[i] \in 1 .. m /\ f[j] \in 1 .. m
      BY <1>3
    <3>2. f[i] < f[j]
      BY <1>1, <1>7 DEF Increasing
    <3>3. QED
      BY <3>1, <3>2
  <2>2. h[i] \in 1 .. Len(g) /\ h[j] \in 1 .. Len(g) /\ e[h[i]] = f[i] /\ e[h[j]] = f[j]
    BY <1>5
  <2>3. CASE h[j] < h[i]
    <3>1. e[h[j]] < e[h[i]]
      BY <1>2, <2>2, <2>3 DEF Increasing
    <3>2. QED
      BY <2>1, <2>2, <3>1
  <2>4. CASE h[j] = h[i]
    BY <2>1, <2>2, <2>4
  <2>5. QED
    BY <2>2, <2>3, <2>4
<1>8. \A i \in 1 .. Len(a) : g[h[i]] = a[i]
  BY <1>1, <1>2, <1>5
<1>9. Increasing(h, Len(a))
  BY <1>7 DEF Increasing
<1>10. QED
  BY <1>6, <1>8, <1>9, EmbedsIs, Zenon

(* The record of an append that is acknowledged while serving joins both   *)
(* lists.                                                                  *)
LEMMA EmbedsAppend ==
    ASSUME NEW a \in Seq(Record), NEW g \in Seq(Record), NEW r \in Record, Embeds(a, g)
    PROVE  Embeds(Append(a, r), Append(g, r))
<1>1. PICK k \in Nat : k = Len(a)
  OBVIOUS
<1>2. PICK n \in Nat : n = Len(g)
  OBVIOUS
<1>3. PICK f \in [1 .. k -> 1 .. n] : Increasing(f, k) /\ \A i \in 1 .. k : g[f[i]] = a[i]
  BY <1>1, <1>2, EmbedsIs
<1>m. PICK m \in Nat : m = n + 1
  OBVIOUS
<1>4. PICK e : e = OneMore(f, k, m)
  OBVIOUS
<1>5. /\ e \in [1 .. k + 1 -> 1 .. n + 1] /\ Increasing(e, k + 1)
      /\ e[k + 1] = n + 1 /\ \A i \in 1 .. k : e[i] = f[i]
  <2>1. k \in Nat /\ n \in Nat /\ m \in Nat /\ n < m /\ f \in [1 .. k -> 1 .. n] /\ Increasing(f, k)
    BY <1>m, <1>3
  <2>2. /\ OneMore(f, k, m) \in [1 .. k + 1 -> 1 .. m]
        /\ Increasing(OneMore(f, k, m), k + 1)
        /\ OneMore(f, k, m)[k + 1] = m /\ \A i \in 1 .. k : OneMore(f, k, m)[i] = f[i]
    BY <2>1, IncreasingAppend, ZenonT(60)
  <2>3. QED
    BY <1>m, <1>4, <2>2
<1>6. PICK b : b = Append(a, r)
  BY Zenon
<1>7. b \in Seq(Record) /\ Len(b) = k + 1 /\ b[k + 1] = r /\ \A i \in 1 .. k : b[i] = a[i]
  BY <1>1, <1>6, AppendIs
<1>8. PICK h : h = Append(g, r)
  BY Zenon
<1>9. h \in Seq(Record) /\ Len(h) = n + 1 /\ h[n + 1] = r /\ \A i \in 1 .. n : h[i] = g[i]
  BY <1>2, <1>8, AppendIs
<1>10. ASSUME NEW i \in 1 .. k + 1 PROVE h[e[i]] = b[i]
  <2>1. CASE i = k + 1
    BY <1>5, <1>7, <1>9, <2>1
  <2>2. CASE i \in 1 .. k
    <3>1. e[i] = f[i] /\ f[i] \in 1 .. n
      BY <1>3, <1>5, <2>2
    <3>2. QED
      BY <1>3, <1>7, <1>9, <2>2, <3>1, Zenon
  <2>3. QED
    BY <2>1, <2>2
<1>11. Embeds(b, h)
  <2>1. e \in [1 .. Len(b) -> 1 .. Len(h)] /\ Increasing(e, Len(b)) /\ \A i \in 1 .. Len(b) : h[e[i]] = b[i]
    BY <1>5, <1>7, <1>9, <1>10
  <2>2. QED
    BY <1>7, <1>9, <2>1, EmbedsIs, Zenon
<1>12. QED
  BY <1>6, <1>8, <1>11

(***************************************************************************)
(* Replay at the start of a record                                         *)
(***************************************************************************)

(* A sequence of cells is given by their records and positions.            *)
LEMMA SameCells ==
    ASSUME NEW s \in Seq(Cell), NEW t \in Seq(Cell), Len(s) = Len(t),
           \A i \in 1 .. Len(s) : s[i].rec = t[i].rec /\ s[i].at = t[i].at
    PROVE  s = t
<1>1. ASSUME NEW i \in 1 .. Len(s) PROVE s[i] = t[i]
  <2>1. s[i] \in Cell /\ t[i] \in Cell
    OBVIOUS
  <2>2. s[i].rec = t[i].rec /\ s[i].at = t[i].at
    OBVIOUS
  <2>3. QED
    BY <2>1, <2>2, SMTT(30) DEF Cell
<1>2. QED
  BY <1>1

(* The cells from a boundary on are those of the record that starts        *)
(* there.                                                                  *)
LEMMA RecordAt ==
    ASSUME NEW s, FileOK(s), NEW p \in 0 .. Len(s) - 1, Bound(s, p),
           NEW n \in 1 .. Size(s[p + 1].rec), p + n <= Len(s)
    PROVE  SubSeq(s, p + 1, p + n) = SubSeq(Cells(s[p + 1].rec), 1, n)
<1>1. PICK r \in Record : r = s[p + 1].rec
  BY RunAt
<1>2. PICK u : u = SubSeq(s, p + 1, p + n)
  BY Zenon
<1>3. PICK v : v = SubSeq(Cells(r), 1, n)
  BY Zenon
<1>4. s \in Seq(Cell) /\ Len(s) \in Nat /\ Size(r) \in Nat /\ n \in Nat /\ n <= Size(r)
  BY <1>1, SizeType DEF FileOK
<1>5. u \in Seq(Cell) /\ Len(u) = n /\ \A i \in 1 .. n : u[i] = s[p + i]
  <2>1. p \in Nat /\ p + 1 \in 1 .. Len(s) + 1 /\ p + n \in Nat /\ p + n <= Len(s)
    BY <1>4
  <2>2. u \in Seq(Cell)
    BY <1>2, <1>4, <2>1
  <2>3. Len(u) = n
    BY <1>2, <1>4, <2>1
  <2>4. \A i \in 1 .. n : u[i] = s[p + i]
    BY <1>2, <1>4, <2>1
  <2>5. QED
    BY <2>2, <2>3, <2>4, Zenon
<1>6. \A q \in p + 1 .. Len(s) : q - p <= Size(r) => s[q].rec = r /\ s[q].at = q - p
  BY <1>1, RunAt
<1>7. \A i \in 1 .. n : p + i \in p + 1 .. Len(s) /\ (p + i) - p = i /\ i <= Size(r)
  BY <1>1, <1>4
<1>8. \A i \in 1 .. n : u[i].rec = r /\ u[i].at = i
  BY <1>5, <1>6, <1>7
<1>9. v \in Seq(Cell) /\ Len(v) = n /\ \A i \in 1 .. n : v[i].rec = r /\ v[i].at = i
  <2>1. /\ SubSeq(Cells(r), 0 + 1, n) \in Seq(Cell) /\ Len(SubSeq(Cells(r), 0 + 1, n)) = n - 0
        /\ \A i \in 1 .. n - 0 : /\ SubSeq(Cells(r), 0 + 1, n)[i].rec = r
                                 /\ SubSeq(Cells(r), 0 + 1, n)[i].at = 0 + i
    <3>1. 0 \in Nat /\ 0 <= n /\ n \in Nat /\ n <= Size(r) /\ r \in Record
      BY <1>4
    <3>2. QED
      BY <3>1, PartOf, ZenonT(60)
  <2>2. 0 + 1 = 1 /\ n - 0 = n /\ \A i \in 1 .. n : 0 + i = i
    BY <1>4
  <2>3. QED
    BY <1>3, <2>1, <2>2
<1>10. u = v
  BY <1>5, <1>8, <1>9, SameCells, Zenon
<1>11. QED
  BY <1>1, <1>2, <1>3, <1>10

(* A record is known by any of its cells.                                  *)
LEMMA CellsKnow ==
    ASSUME NEW r \in Record, NEW x \in Record, NEW n \in Nat, NEW m \in Nat,
           n >= 1, n <= Size(r), m >= 1, m <= Size(x),
           SubSeq(Cells(x), 1, m) = SubSeq(Cells(r), 1, n)
    PROVE  x = r
<1>1. \A y \in Record : Size(y) \in Nat /\ Cells(y) = [i \in 1 .. Size(y) |-> [rec |-> y, at |-> i]]
  BY SizeType DEF Cells, Size
<1>2. \A y \in Record : \A k \in Nat : k >= 1 /\ k <= Size(y) => SubSeq(Cells(y), 1, k)[1].rec = y
  <2> SUFFICES ASSUME NEW y \in Record, NEW k \in Nat, k >= 1, k <= Size(y)
               PROVE  SubSeq(Cells(y), 1, k)[1].rec = y
    OBVIOUS
  <2>1. SubSeq(Cells(y), 0 + 1, k)[1].rec = y
    <3>1. 0 <= k /\ k - 0 = k /\ 1 \in 1 .. k - 0
      OBVIOUS
    <3>2. \A i \in 1 .. k - 0 : SubSeq(Cells(y), 0 + 1, k)[i].rec = y
      BY <3>1, PartOf, Zenon
    <3>3. QED
      BY <3>1, <3>2
  <2>2. QED
    BY <2>1
<1>3. QED
  BY <1>2

(* The lengths in the header are those of the record ...                   *)
LEMMA LengthsAt ==
    ASSUME FileOK(file), pos \in 0 .. Len(file) - 1, Bound(file, pos), pos + HeaderLen <= Len(file)
    PROVE  Lengths = {Size(file[pos + 1].rec) - HeaderLen}
<1>1. PICK r \in Record : r = file[pos + 1].rec
  BY RunAt
<1>2. HeaderLen \in Nat /\ HeaderLen \in 1 .. Size(r)
  BY SizeType
<1>3. PICK header : header = SubSeq(file, pos + 1, pos + HeaderLen) /\ header = Header(r)
  BY <1>1, <1>2, RecordAt, Zenon DEF Header
<1>4. \A x \in Record : Header(x) = header => x = r
  <2> SUFFICES ASSUME NEW x \in Record, Header(x) = header PROVE x = r
    OBVIOUS
  <2>1. HeaderLen >= 1 /\ HeaderLen <= Size(r) /\ HeaderLen <= Size(x)
    BY SizeType
  <2>2. SubSeq(Cells(x), 1, HeaderLen) = SubSeq(Cells(r), 1, HeaderLen)
    BY <1>3, Zenon DEF Header
  <2>3. QED
    BY <1>2, <2>1, <2>2, CellsKnow
<1>5. {x \in Record : Header(x) = header} = {r}
  BY <1>3, <1>4, Zenon
<1>6. Lengths = {KeyLen[r.key] + ValCells(r.val)}
  BY <1>3, <1>5 DEF Lengths
<1>7. KeyLen[r.key] + ValCells(r.val) = Size(r) - HeaderLen
  <2>1. HeaderLen \in Nat /\ KeyLen[r.key] \in Nat /\ ValCells(r.val) \in Nat
    BY SizeType
  <2>2. Size(r) = HeaderLen + KeyLen[r.key] + ValCells(r.val)
    BY DEF Size
  <2>3. QED
    BY <2>1, <2>2
<1>8. QED
  BY <1>1, <1>6, <1>7

(* ... and its cells decode to it.                                         *)
LEMMA DecodeAt ==
    ASSUME FileOK(file), pos \in 0 .. Len(file) - 1, Bound(file, pos),
           pos + Size(file[pos + 1].rec) <= Len(file)
    PROVE  Decode(SubSeq(file, pos + 1, pos + Size(file[pos + 1].rec))) = file[pos + 1].rec
<1>1. PICK r \in Record : r = file[pos + 1].rec
  BY RunAt
<1>2. Size(r) \in Nat /\ Size(r) >= 1
  BY SizeType
<1>3. \A x \in Record : Cells(x) = SubSeq(Cells(x), 1, Size(x)) /\ Size(x) >= 1 /\ Size(x) \in Nat
  <2> SUFFICES ASSUME NEW x \in Record
               PROVE  Cells(x) = SubSeq(Cells(x), 1, Size(x)) /\ Size(x) >= 1 /\ Size(x) \in Nat
    OBVIOUS
  <2>1. Size(x) \in Nat /\ Size(x) >= 1
    BY SizeType
  <2>2. Cells(x) = [i \in 1 .. Size(x) |-> [rec |-> x, at |-> i]]
    BY DEF Cells, Size
  <2>3. Cells(x) \in Seq(Cell) /\ Len(Cells(x)) = Size(x)
    <3>1. \A i \in 1 .. Size(x) : [rec |-> x, at |-> i] \in Cell
      BY <2>1 DEF Cell
    <3>2. QED
      BY <2>1, <2>2, <3>1
  <2>4. QED
    BY <2>1, <2>3
<1>4. PICK c : c = SubSeq(file, pos + 1, pos + Size(r)) /\ c = Cells(r)
  <2>1. Size(r) \in 1 .. Size(file[pos + 1].rec) /\ pos + Size(r) <= Len(file)
    BY <1>1, <1>2
  <2>2. SubSeq(file, pos + 1, pos + Size(r)) = SubSeq(Cells(file[pos + 1].rec), 1, Size(r))
    BY <2>1, RecordAt
  <2>3. QED
    BY <1>1, <1>3, <2>2, Zenon
<1>5. \A x \in Record : Cells(x) = c => x = r
  <2> SUFFICES ASSUME NEW x \in Record, Cells(x) = c PROVE x = r
    OBVIOUS
  <2>1. SubSeq(Cells(x), 1, Size(x)) = SubSeq(Cells(r), 1, Size(r))
    BY <1>3, <1>4, Zenon
  <2>2. Size(x) \in Nat /\ Size(x) >= 1 /\ Size(r) <= Size(r) /\ Size(x) <= Size(x)
    BY <1>2, <1>3
  <2>3. QED
    BY <1>2, <2>1, <2>2, CellsKnow
<1>6. Decode(c) = r
  BY <1>4, <1>5, Zenon DEF Decode
<1>7. QED
  BY <1>1, <1>4, <1>6

(***************************************************************************)
(* The invariant                                                           *)
(***************************************************************************)

Types ==
    /\ synced \in Nat /\ synced <= Len(file)
    /\ status \in {"down", "replay", "up", "failed"}
    /\ stage \in {"idle", "header", "key", "value", "sync"}
    /\ given \in Seq(Record) /\ acked \in Seq(Record)

(* The cells of cur that are in the file.                                  *)
Written == IF stage = "key" THEN HeaderLen
           ELSE IF stage = "value" THEN HeaderLen + KeyLen[cur.key]
           ELSE IF stage = "sync" THEN Size(cur) ELSE 0

(* An append starts where a record ends, and after what is synced.         *)
StageInv ==
    /\ stage # "idle" => /\ status = "up" /\ cur \in Record
                         /\ synced + Written <= Len(file) /\ EndsWith(file, cur, Written)
    /\ status = "up" /\ stage = "idle" => Bound(file, Len(file))

(* Replay is at the end of a record, and has given all of them up to it.   *)
ReplayInv ==
    status = "replay" => pos \in 0 .. Len(file) /\ Bound(file, pos) /\ Read(given, file, pos)

(* Acknowledged records are among those that end in the synced cells.      *)
WalInv ==
    /\ FileOK(file) /\ Types /\ StageInv /\ ReplayInv
    /\ Placed(acked, file, synced)
    /\ AckedRecovered /\ RefusalLosesNothing

(* A file is a sequence of cells.                                          *)
LEMMA FileCells ==
    ASSUME NEW s, FileOK(s)
    PROVE  s \in Seq(Cell) /\ Len(s) \in Nat
<1>1. s \in Seq(Cell)
  BY Zenon DEF FileOK
<1>2. QED
  BY <1>1

(* What is synced is in the file.                                          *)
LEMMA SyncedInFile ==
    ASSUME WalInv
    PROVE  /\ FileOK(file) /\ file \in Seq(Cell) /\ Len(file) \in Nat
           /\ synced \in Nat /\ synced <= Len(file) /\ synced \in 0 .. Len(file)
<1>1. FileOK(file) /\ synced \in Nat /\ synced <= Len(file)
  BY Zenon DEF WalInv, Types
<1>2. file \in Seq(Cell) /\ Len(file) \in Nat
  BY <1>1, FileCells, Zenon
<1>3. QED
  BY <1>1, <1>2

(* appendRecord never writes more than the record.                         *)
LEMMA WrittenType ==
    ASSUME cur \in Record
    PROVE  Written \in Nat /\ Written <= Size(cur)
  BY SizeType DEF Written, Size

(* The invariant holds for a file that does not exist yet.                 *)
LEMMA WalInit == Init => WalInv
<1> SUFFICES ASSUME Init PROVE WalInv
  OBVIOUS
<1>1. Types /\ StageInv /\ ReplayInv /\ AckedRecovered /\ RefusalLosesNothing
  BY DEF Init, Types, StageInv, ReplayInv, AckedRecovered, RefusalLosesNothing
<1>2. FileOK(file)
  BY DEF Init, FileOK
<1>3. Placed(acked, file, synced)
  <2>1. acked = <<>> /\ Len(acked) = 0 /\ synced = 0
    BY DEF Init
  <2>2. PICK f : f = [i \in 1 .. 0 |-> 0]
    OBVIOUS
  <2>3. f \in [1 .. 0 -> 1 .. 0] /\ Increasing(f, 0)
    BY <2>2 DEF Increasing
  <2>4. \A i \in 1 .. 0 : FALSE
    OBVIOUS
  <2>5. QED
    BY <2>1, <2>3, <2>4, Zenon DEF Placed
<1>4. QED
  BY <1>1, <1>2, <1>3 DEF WalInv

(* One of the three writes.                                                *)
LEMMA WriteStep ==
    ASSUME WalInv, stage # "idle", NEW b \in Nat, Written <= b, b <= Size(cur),
           Extended(file, file', cur, Written, b),
           stage' \in {"key", "value", "sync"}, Written' = b,
           UNCHANGED <<synced, status, cur, pos, crashes, given, acked>>
    PROVE  WalInv'
<1>1. PICK a \in Nat : a = Written
  BY WrittenType DEF WalInv, StageInv
<1>2. PICK r \in Record : r = cur
  BY Zenon DEF WalInv, StageInv
<1>3. file \in Seq(Cell) /\ FileOK(file) /\ EndsWith(file, r, a) /\ a <= b /\ b <= Size(r) /\ Len(file) \in Nat
  BY <1>1, <1>2 DEF WalInv, StageInv, FileOK
<1>4. Extended(file, file', r, a, b)
  BY <1>1, <1>2
<1>5. FileOK(file') /\ EndsWith(file', r, b)
  BY <1>3, <1>4, AppendOK
<1>6. Len(file') = Len(file) + (b - a) /\ \A p \in 1 .. Len(file) : file'[p] = file[p]
  BY <1>4, Zenon DEF Extended
<1>7. Types'
  <2>1. Len(file') >= Len(file) /\ Len(file') \in Nat
    BY <1>3, <1>6
  <2>2. synced' \in Nat /\ synced' <= Len(file')
    BY <1>3, <2>1 DEF WalInv, Types
  <2>3. QED
    BY <2>2 DEF WalInv, Types
<1>8. StageInv'
  BY <1>1, <1>2, <1>3, <1>5, <1>6 DEF WalInv, StageInv, Types
<1>9. ReplayInv' /\ AckedRecovered' /\ RefusalLosesNothing'
  BY DEF WalInv, StageInv, ReplayInv, AckedRecovered, RefusalLosesNothing
<1>10. Placed(acked', file', synced')
  <2>1. acked \in Seq(Record) /\ synced \in Nat /\ Placed(acked, file, synced)
    BY DEF WalInv, Types
  <2>2. \A p \in 1 .. synced : Bound(file, p) => p <= synced /\ file'[p] = file[p]
    BY <1>3, <1>6 DEF WalInv, Types
  <2>3. Placed(acked, file', synced)
    BY <2>1, <2>2, PlacedKept
  <2>4. QED
    BY <2>3
<1>11. QED
  BY <1>5, <1>7, <1>8, <1>9, <1>10 DEF WalInv

(* Each of the three writes of appendRecord extends the file by the cells   *)
(* of the record that come next.                                           *)
LEMMA AppendExtends ==
    ASSUME WalInv, WriteHeader \/ WriteKey \/ WriteValue
    PROVE  /\ stage # "idle" /\ cur \in Record /\ stage' \in {"key", "value", "sync"}
           /\ UNCHANGED <<synced, status, cur, pos, crashes, given, acked>>
           /\ \E b \in Nat : /\ Written <= b /\ b <= Size(cur) /\ Written' = b
                             /\ Extended(file, file', cur, Written, b)
<1>1. stage # "idle" /\ cur \in Record
  BY DEF WriteHeader, WriteKey, WriteValue, WalInv, StageInv
<1>2. /\ HeaderLen \in Nat /\ KeyLen[cur.key] \in Nat /\ ValCells(cur.val) \in Nat
      /\ Size(cur) = HeaderLen + KeyLen[cur.key] + ValCells(cur.val)
  BY <1>1, SizeType DEF Size
<1>w. \A a, b \in Nat : a <= b /\ b <= Size(cur) =>
         Extended(file, file \o SubSeq(Cells(cur), a + 1, b), cur, a, b)
  BY <1>1, PartExtends DEF WalInv, FileOK
<1>l. Len(Cells(cur)) = Size(cur)
  BY <1>2 DEF Cells
<1>3. CASE WriteHeader
  <2>1. Written = 0 /\ Written' = HeaderLen
    BY <1>3 DEF WriteHeader, Written
  <2>2. PICK a \in Nat, b \in Nat : a = 0 /\ b = HeaderLen /\ a <= b /\ b <= Size(cur)
    BY <1>2
  <2>3. Extended(file, file \o SubSeq(Cells(cur), a + 1, b), cur, a, b)
    BY <1>w, <2>2
  <2>4. Header(cur) = SubSeq(Cells(cur), a + 1, b)
    BY <1>2, <2>2 DEF Header
  <2>5. /\ file' = file \o Header(cur) /\ stage' = "key"
        /\ UNCHANGED <<synced, status, cur, pos, crashes, given, acked>>
    BY <1>3 DEF WriteHeader
  <2>6. Extended(file, file', cur, Written, b) /\ Written <= b /\ Written' = b
    BY <2>1, <2>2, <2>3, <2>4, <2>5
  <2>7. QED
    BY <1>1, <2>2, <2>5, <2>6
<1>4. CASE WriteKey
  <2>1. Written = HeaderLen /\ Written' = HeaderLen + KeyLen[cur.key]
    BY <1>4 DEF WriteKey, Written
  <2>2. PICK a \in Nat, b \in Nat : a = HeaderLen /\ b = HeaderLen + KeyLen[cur.key] /\ a <= b /\ b <= Size(cur)
    BY <1>2
  <2>3. Extended(file, file \o SubSeq(Cells(cur), a + 1, b), cur, a, b)
    BY <1>w, <2>2
  <2>4. KeyPart(cur) = SubSeq(Cells(cur), a + 1, b)
    BY <1>2, <2>2 DEF KeyPart
  <2>5. /\ file' = file \o KeyPart(cur) /\ stage' = "value"
        /\ UNCHANGED <<synced, status, cur, pos, crashes, given, acked>>
    BY <1>4, SMTT(30) DEF WriteKey
  <2>6. Extended(file, file', cur, Written, b) /\ Written <= b /\ Written' = b
    BY <2>1, <2>2, <2>3, <2>4, <2>5
  <2>7. QED
    BY <1>1, <2>2, <2>5, <2>6
<1>5. CASE WriteValue
  <2>1. Written = HeaderLen + KeyLen[cur.key] /\ Written' = Size(cur)
    BY <1>5 DEF WriteValue, Written
  <2>2. PICK a \in Nat, b \in Nat : a = HeaderLen + KeyLen[cur.key] /\ b = Size(cur) /\ a <= b /\ b <= Size(cur)
    BY <1>2
  <2>3. Extended(file, file \o SubSeq(Cells(cur), a + 1, b), cur, a, b)
    BY <1>w, <2>2
  <2>4. ValPart(cur) = SubSeq(Cells(cur), a + 1, b)
    BY <1>2, <2>2, <1>l DEF ValPart
  <2>5. /\ file' = file \o ValPart(cur) /\ stage' = "sync"
        /\ UNCHANGED <<synced, status, cur, pos, crashes, given, acked>>
    BY <1>5 DEF WriteValue
  <2>6. Extended(file, file', cur, Written, b) /\ Written <= b /\ Written' = b
    BY <2>1, <2>2, <2>3, <2>4, <2>5, Zenon
  <2>7. QED
    BY <1>1, <2>2, <2>5, <2>6
<1>6. QED
  BY <1>3, <1>4, <1>5

(* A write of appendRecord keeps the invariant.                            *)
LEMMA AppendStep ==
    ASSUME WalInv, WriteHeader \/ WriteKey \/ WriteValue
    PROVE  WalInv'
  BY AppendExtends, WriteStep

(* So does taking the mutex.                                               *)
LEMMA LockStep ==
    ASSUME WalInv, NEW r \in Record, Lock(r)
    PROVE  WalInv'
<1>1. FileOK(file)' /\ Placed(acked, file, synced)'
  BY DEF Lock, WalInv
<1>2. Types'
  BY DEF Lock, WalInv, Types
<1>3. Written' = 0 /\ cur' = r /\ status' = "up" /\ stage' = "header" /\ Bound(file, Len(file))
  BY DEF Lock, Written, WalInv, StageInv
<1>4. StageInv'
  <2>1. synced \in Nat /\ synced + 0 <= Len(file)
    BY DEF WalInv, Types
  <2>2. EndsWith(file', r, 0)
    BY <1>3 DEF EndsWith, Lock
  <2>3. QED
    BY <1>3, <2>1, <2>2 DEF StageInv, Lock
<1>5. ReplayInv' /\ AckedRecovered' /\ RefusalLosesNothing'
  BY DEF Lock, WalInv, ReplayInv, AckedRecovered, RefusalLosesNothing
<1>6. QED
  BY <1>1, <1>2, <1>4, <1>5 DEF WalInv

(* At the end of an append the file ends with a record.                    *)
LEMMA EndOfAppend ==
    ASSUME WalInv, stage = "sync"
    PROVE  /\ status = "up" /\ cur \in Record /\ Len(file) \in Nat
           /\ synced < Len(file) /\ file[Len(file)].rec = cur /\ Bound(file, Len(file))
<1>1. status = "up" /\ cur \in Record /\ Written = Size(cur) /\ Len(file) \in Nat
  BY DEF WalInv, StageInv, Written, FileOK
<1>2. Size(cur) \in Nat /\ Size(cur) > 0
  BY <1>1, SizeType
<1>3. synced \in Nat /\ synced + Size(cur) <= Len(file) /\ EndsWith(file, cur, Size(cur))
  BY <1>1 DEF WalInv, StageInv, Types
<1>4. QED
  BY <1>1, <1>2, <1>3 DEF EndsWith, Bound

(* So does the Sync, after which the append is acknowledged: its record    *)
(* ends the synced part.                                                   *)
LEMMA SyncStep ==
    ASSUME WalInv, Sync
    PROVE  WalInv'
<1>1. /\ status = "up" /\ cur \in Record /\ Len(file) \in Nat
      /\ synced < Len(file) /\ file[Len(file)].rec = cur /\ Bound(file, Len(file))
  BY EndOfAppend DEF Sync
<1>2. acked \in Seq(Record) /\ given \in Seq(Record) /\ synced \in Nat
  BY DEF WalInv, Types
<1>3. /\ file' = file /\ synced' = Len(file) /\ status' = "up" /\ stage' = "idle"
      /\ acked' = Append(acked, cur) /\ given' = Append(given, cur)
  BY <1>1 DEF Sync
<1>4. Types'
  BY <1>1, <1>2, <1>3 DEF Types
<1>5. StageInv' /\ ReplayInv' /\ RefusalLosesNothing' /\ FileOK(file')
  BY <1>1, <1>3 DEF StageInv, ReplayInv, RefusalLosesNothing, WalInv
<1>6. Placed(acked', file', synced')
  <2>1. Placed(acked, file, synced)
    BY DEF WalInv
  <2>2. Placed(Append(acked, cur), file, Len(file))
    BY <1>1, <1>2, <2>1, PlacedAppend
  <2>3. QED
    BY <1>3, <2>2
<1>7. AckedRecovered'
  <2>1. Embeds(acked, given)
    BY <1>1 DEF WalInv, AckedRecovered
  <2>2. Embeds(Append(acked, cur), Append(given, cur))
    BY <1>1, <1>2, <2>1, EmbedsAppend
  <2>3. QED
    BY <1>3, <2>2 DEF AckedRecovered
<1>8. QED
  BY <1>4, <1>5, <1>6, <1>7 DEF WalInv

(* So does an append that fails, if it leaves nothing behind.              *)
LEMMA FailStep ==
    ASSUME WalInv, ~DirtyFaults, WriteFails \/ SyncFails
    PROVE  WalInv' /\ UNCHANGED <<file, synced>>
<1>1. file \in Seq(Cell)
  BY DEF WalInv, FileOK
<1>2. /\ file' = file /\ Bound(file, Len(file)) /\ status = "up"
      /\ stage' = "idle" /\ UNCHANGED <<synced, status, pos, given, acked>>
  <2>1. CASE SyncFails
    BY <2>1, EndOfAppend DEF SyncFails
  <2>2. CASE WriteFails
    <3>1. stage = "header" /\ file' = file \o SubSeq(Header(cur), 1, 0)
      BY <2>2 DEF WriteFails
    <3>2. SubSeq(Header(cur), 1, 0) = <<>>
      OBVIOUS
    <3>3. Written = 0 /\ status = "up" /\ EndsWith(file, cur, 0)
      BY <3>1 DEF Written, WalInv, StageInv
    <3>4. QED
      BY <1>1, <2>2, <3>1, <3>2, <3>3 DEF WriteFails, EndsWith
  <2>3. QED
    BY <2>1, <2>2
<1>3. FileOK(file)' /\ Placed(acked, file, synced)'
  BY <1>2 DEF WalInv
<1>4. Types' /\ StageInv'
  BY <1>2 DEF WalInv, Types, StageInv
<1>5. ReplayInv' /\ AckedRecovered' /\ RefusalLosesNothing'
  BY <1>2 DEF WalInv, ReplayInv, AckedRecovered, RefusalLosesNothing
<1>6. QED
  BY <1>2, <1>3, <1>4, <1>5, SMTT(30) DEF WalInv

(* So does OpenShard; a file that is shorter than the magic number has no  *)
(* record that was acknowledged.                                           *)
LEMMA OpenStep ==
    ASSUME WalInv, OpenShard
    PROVE  WalInv'
<1>1. /\ status = "down" /\ UNCHANGED <<file, synced, acked, stage>> /\ pos' = 0 /\ given' = <<>>
      /\ status' = IF file # <<>> /\ Len(file) < MagicLen THEN "failed" ELSE "replay"
  BY DEF OpenShard
<1>2. stage = "idle" /\ file \in Seq(Cell) /\ FileOK(file)
  BY <1>1, Zenon DEF WalInv, StageInv, FileOK
<1>3. FileOK(file') /\ Placed(acked', file', synced') /\ Types' /\ StageInv' /\ AckedRecovered'
  <2>1. Types'
    BY <1>1 DEF WalInv, Types
  <2>2. StageInv' /\ AckedRecovered'
    BY <1>1, <1>2 DEF StageInv, AckedRecovered
  <2>3. QED
    BY <1>1, <2>1, <2>2 DEF WalInv
<1>4. ReplayInv'
  <2>1. Len(file) \in Nat
    BY <1>2
  <2>2. PICK f : f = [i \in 1 .. 0 |-> 0]
    OBVIOUS
  <2>3. f \in [1 .. 0 -> 1 .. 0] /\ Increasing(f, 0)
    BY <2>2 DEF Increasing
  <2>4. \A i \in 1 .. 0 : FALSE
    OBVIOUS
  <2>5. PICK e : e = <<>> /\ Len(e) = 0
    OBVIOUS
  <2>6. Read(e, file, 0)
    BY <2>3, <2>4, <2>5, Zenon DEF Read
  <2>7. QED
    BY <1>1, <2>1, <2>5, <2>6 DEF ReplayInv, Bound
<1>5. RefusalLosesNothing'
  <2> SUFFICES ASSUME file # <<>>, Len(file) < MagicLen PROVE acked = <<>>
    BY <1>1 DEF RefusalLosesNothing
  <2>1. acked \in Seq(Record) /\ synced \in Nat /\ synced <= Len(file) /\ Placed(acked, file, synced)
    BY DEF WalInv, Types
  <2>2. PICK f \in [1 .. Len(acked) -> 1 .. synced] : \A i \in 1 .. Len(acked) : Bound(file, f[i])
    BY <2>1 DEF Placed
  <2>3. 0 \in 0 .. Len(file) - 1 /\ Bound(file, 0) /\ Len(file) \in Nat
    BY <1>2 DEF Bound
  <2>4. PICK r \in Record : /\ r = file[0 + 1].rec
                            /\ \A q \in 0 + 1 .. Len(file) : q - 0 <= Size(r)
                                  => file[q].rec = r /\ file[q].at = q - 0
    BY <1>2, <2>3, RunAt, SMTT(30)
  <2>5. Size(r) \in Nat /\ Len(file) < Size(r)
    BY <2>3, SizeType
  <2>6. \A q \in 1 .. Len(file) : ~Bound(file, q)
    <3> SUFFICES ASSUME NEW q \in 1 .. Len(file) PROVE ~Bound(file, q)
      OBVIOUS
    <3>1. q \in 0 + 1 .. Len(file) /\ q - 0 <= Size(r) /\ q - 0 < Size(r) /\ q # 0
      BY <2>3, <2>5
    <3>2. file[q].rec = r /\ file[q].at = q - 0
      BY <2>4, <3>1
    <3>3. QED
      BY <2>5, <3>1, <3>2 DEF Bound
  <2>7. ASSUME Len(acked) # 0 PROVE FALSE
    <3>1. 1 \in 1 .. Len(acked)
      BY <2>1, <2>7
    <3>2. f[1] \in 1 .. synced /\ Bound(file, f[1])
      BY <2>2, <3>1
    <3>3. f[1] \in 1 .. Len(file)
      BY <2>1, <2>3, <3>2
    <3>4. QED
      BY <2>6, <3>2, <3>3
  <2>8. QED
    BY <2>1, <2>7
<1>6. QED
  BY <1>3, <1>4, <1>5 DEF WalInv

(* So does one turn of the loop of replayWALPlaintext: what it decodes is  *)
(* the record at pos.                                                      *)
LEMMA ReplayRecordStep ==
    ASSUME WalInv, ReplayRecord
    PROVE  WalInv'
<1>1. /\ status = "replay" /\ pos + HeaderLen <= Len(file)
      /\ UNCHANGED <<file, synced, status, cur, stage, acked>>
  BY DEF ReplayRecord
<1>2. FileOK(file) /\ Len(file) \in Nat /\ HeaderLen \in Nat /\ HeaderLen > 0 /\ given \in Seq(Record)
  <2>1. given \in Seq(Record)
    BY Zenon DEF WalInv, Types
  <2>2. QED
    BY <2>1, SyncedInFile, WalFileAssumption
<1>3. pos \in 0 .. Len(file) /\ Bound(file, pos) /\ Read(given, file, pos)
  BY <1>1 DEF WalInv, ReplayInv
<1>4. pos \in 0 .. Len(file) - 1 /\ pos \in Nat
  BY <1>1, <1>2, <1>3, SMTT(30)
<1>5. PICK r \in Record : /\ r = file[pos + 1].rec
                          /\ \A q \in pos + 1 .. Len(file) : q - pos <= Size(r)
                                => file[q].rec = r /\ file[q].at = q - pos
  BY <1>2, <1>3, <1>4, RunAt
<1>6. Size(r) \in Nat /\ Size(r) >= HeaderLen
  BY SizeType
<1>7. Lengths = {Size(r) - HeaderLen}
  BY <1>1, <1>2, <1>3, <1>4, <1>5, LengthsAt, Zenon
<1>8. PICK end \in Nat : end = pos + Size(r)
  BY <1>4, <1>6
<1>9. pos + HeaderLen + (Size(r) - HeaderLen) = end
  BY <1>2, <1>4, <1>6, <1>8
<1>10. end <= Len(file) /\ pos' = end /\ given' = Append(given, Decode(SubSeq(file, pos + 1, end)))
  BY <1>7, <1>9, Zenon DEF ReplayRecord
<1>11. Decode(SubSeq(file, pos + 1, end)) = r
  BY <1>2, <1>3, <1>4, <1>5, <1>8, <1>10, DecodeAt, Zenon
<1>12. pos < end /\ file[end].rec = r /\ Bound(file, end)
  <2>1. end \in pos + 1 .. Len(file) /\ end - pos = Size(r) /\ pos < end
    BY <1>2, <1>4, <1>6, <1>8, <1>10, SMTT(60)
  <2>2. file[end].rec = r /\ file[end].at = Size(r)
    BY <1>5, <1>6, <2>1
  <2>3. QED
    BY <2>1, <2>2 DEF Bound
<1>13. NoneBetween(file, pos, end)
  <2> SUFFICES ASSUME NEW q \in pos + 1 .. end - 1 PROVE ~Bound(file, q)
    BY DEF NoneBetween
  <2>1. q \in pos + 1 .. Len(file) /\ q - pos <= Size(r) /\ q - pos < Size(r) /\ q # 0
    BY <1>2, <1>4, <1>6, <1>8, <1>10, SMTT(60)
  <2>2. file[q].rec = r /\ file[q].at = q - pos
    BY <1>5, <2>1
  <2>3. QED
    BY <1>4, <1>6, <2>1, <2>2 DEF Bound
<1>14. Read(Append(given, r), file, end)
  BY <1>2, <1>3, <1>4, <1>12, <1>13, ReadAppend
<1>15. Types' /\ StageInv'
  <2>1. given' \in Seq(Record)
    BY <1>2, <1>10, <1>11
  <2>2. Types'
    BY <1>1, <2>1 DEF WalInv, Types
  <2>3. stage = "idle" /\ status # "up"
    BY <1>1 DEF WalInv, StageInv
  <2>4. QED
    BY <1>1, <2>2, <2>3 DEF StageInv
<1>16. ReplayInv'
  BY <1>1, <1>2, <1>10, <1>11, <1>12, <1>14 DEF ReplayInv
<1>17. FileOK(file') /\ Placed(acked', file', synced')
  BY <1>1 DEF WalInv
<1>18. AckedRecovered' /\ RefusalLosesNothing'
  BY <1>1 DEF AckedRecovered, RefusalLosesNothing
<1>19. QED
  BY <1>15, <1>16, <1>17, <1>18 DEF WalInv

(* The loop of replay ends only after the last record that is whole.       *)
LEMMA ReplayIsComplete ==
    ASSUME WalInv, ReplayEnd
    PROVE  \A q \in 1 .. Len(file) : Bound(file, q) => q <= pos
<1> SUFFICES ASSUME NEW q \in 1 .. Len(file), Bound(file, q), ~(q <= pos) PROVE FALSE
  BY Zenon
<1>1. FileOK(file) /\ Len(file) \in Nat /\ HeaderLen \in Nat
  BY SyncedInFile, WalFileAssumption
<1>2. pos \in 0 .. Len(file) /\ Bound(file, pos)
  BY DEF WalInv, ReplayInv, ReplayEnd
<1>3. pos \in 0 .. Len(file) - 1 /\ q \in pos + 1 .. Len(file) /\ q # 0
  BY <1>1, <1>2
<1>4. PICK r \in Record : /\ r = file[pos + 1].rec
                          /\ q - pos <= Size(r) => file[q].rec = r /\ file[q].at = q - pos
  BY <1>1, <1>2, <1>3, RunAt
<1>5. Size(r) \in Nat /\ Size(r) >= HeaderLen
  BY SizeType
<1>6. pos + Size(r) > Len(file)
  <2>1. CASE pos + HeaderLen > Len(file)
    BY <1>1, <1>2, <1>5, <2>1
  <2>2. CASE /\ pos + HeaderLen <= Len(file)
             /\ \E n \in Lengths : pos + HeaderLen + n > Len(file)
    <3>1. Lengths = {Size(r) - HeaderLen}
      BY <1>1, <1>2, <1>3, <1>4, <2>2, LengthsAt
    <3>2. QED
      BY <1>1, <1>2, <1>5, <2>2, <3>1
  <2>3. QED
    BY <2>1, <2>2 DEF ReplayEnd
<1>7. q - pos < Size(r)
  BY <1>1, <1>2, <1>3, <1>5, <1>6, SMTT(60)
<1>8. file[q].rec = r /\ file[q].at = q - pos
  BY <1>4, <1>5, <1>7, <1>3, <1>2
<1>9. QED
  BY <1>3, <1>5, <1>7, <1>8 DEF Bound

(* So does the end of the loop with the cut of finishReplay: all           *)
(* acknowledged records were read.                                         *)
LEMMA ReplayEndStep ==
    ASSUME WalInv, ~DirtyFaults, ReplayEnd
    PROVE  WalInv'
<1>1. /\ status = "replay" /\ status' = "up" /\ UNCHANGED <<cur, stage, pos, crashes, given, acked>>
      /\ file' = SubSeq(file, 1, pos)
      /\ synced' = IF Len(file') < synced THEN Len(file') ELSE synced
  BY DEF ReplayEnd
<1>2. pos \in 0 .. Len(file) /\ Bound(file, pos) /\ Read(given, file, pos) /\ FileOK(file)
  BY <1>1, Zenon DEF WalInv, ReplayInv
<1>3. /\ acked \in Seq(Record) /\ given \in Seq(Record) /\ Placed(acked, file, synced)
      /\ synced \in Nat /\ synced <= Len(file) /\ Len(file) \in Nat /\ stage = "idle"
  BY <1>1, SyncedInFile, SMTT(30) DEF WalInv, Types, StageInv
<1>4. FileOK(file') /\ Len(file') = pos /\ \A p \in 1 .. pos : file'[p] = file[p]
  BY <1>1, <1>2, CutOK
<1>5. \A q \in 1 .. synced : Bound(file, q) => q <= pos
  <2>1. \A q \in 1 .. synced : q \in 1 .. Len(file)
    BY <1>3
  <2>2. QED
    BY <2>1, ReplayIsComplete
<1>6. Embeds(acked, given)
  BY <1>2, <1>3, <1>5, PlacedIsRead
<1>7. synced' \in Nat /\ synced' <= pos /\ synced' <= synced /\ (synced' = pos \/ synced' = synced)
  BY <1>1, <1>2, <1>3, <1>4
<1>8. Placed(acked, file', synced')
  <2>1. \A q \in 1 .. synced : Bound(file, q) => q <= synced' /\ file'[q] = file[q]
    BY <1>2, <1>3, <1>4, <1>5, <1>7
  <2>2. QED
    BY <1>3, <1>7, <2>1, PlacedKept, Zenon
<1>9. Types'
  BY <1>1, <1>3, <1>4, <1>7, Zenon DEF WalInv, Types
<1>10. StageInv'
  <2>1. Bound(file', pos)
    BY <1>2, <1>4 DEF Bound
  <2>2. QED
    BY <1>1, <1>3, <1>4, <2>1, Zenon DEF StageInv
<1>11. ReplayInv' /\ AckedRecovered' /\ RefusalLosesNothing'
  BY <1>1, <1>6 DEF ReplayInv, AckedRecovered, RefusalLosesNothing
<1>12. QED
  BY <1>1, <1>4, <1>8, <1>9, <1>10, <1>11, Zenon DEF WalInv

(* So does a crash, which keeps at least the synced part.                  *)
LEMMA CrashStep ==
    ASSUME WalInv, Crash
    PROVE  WalInv'
<1>1. /\ status' = "down" /\ stage' = "idle" /\ given' = <<>>
      /\ UNCHANGED <<synced, acked>>
  BY DEF Crash
<1>2. PICK n \in synced .. Len(file) : file' = SubSeq(file, 1, n)
  BY Zenon DEF Crash
<1>3. /\ acked \in Seq(Record) /\ Placed(acked, file, synced) /\ FileOK(file)
      /\ synced \in Nat /\ synced <= Len(file) /\ Len(file) \in Nat
  BY DEF WalInv, Types, FileOK
<1>4. n \in 0 .. Len(file) /\ synced <= n
  BY <1>3
<1>5. FileOK(file') /\ Len(file') = n /\ \A p \in 1 .. n : file'[p] = file[p]
  BY <1>2, <1>3, <1>4, CutOK
<1>6. Placed(acked, file', synced)
  <2>1. \A q \in 1 .. synced : Bound(file, q) => q <= synced /\ file'[q] = file[q]
    BY <1>3, <1>4, <1>5
  <2>2. QED
    BY <1>3, <2>1, PlacedKept
<1>7. Types'
  BY <1>1, <1>3, <1>4, <1>5 DEF Types
<1>8. StageInv' /\ ReplayInv' /\ AckedRecovered' /\ RefusalLosesNothing'
  BY <1>1 DEF StageInv, ReplayInv, AckedRecovered, RefusalLosesNothing
<1>9. QED
  BY <1>1, <1>5, <1>6, <1>7, <1>8 DEF WalInv

(* Every step keeps the invariant.                                         *)
LEMMA WalStep ==
    ASSUME ~DirtyFaults, WalInv, [Next]_vars
    PROVE  WalInv'
<1>1. CASE UNCHANGED vars
  <2>1. UNCHANGED <<file, synced, status, cur, stage, pos, crashes, given, acked>>
    BY <1>1 DEF vars
  <2>2. Written' = Written
    BY <2>1 DEF Written
  <2>3. Types' /\ StageInv' /\ ReplayInv' /\ AckedRecovered' /\ RefusalLosesNothing'
    BY <2>1, <2>2 DEF WalInv, Types, StageInv, ReplayInv, AckedRecovered, RefusalLosesNothing
  <2>4. QED
    BY <2>1, <2>3 DEF WalInv
<1>2. CASE Next
  BY <1>2, LockStep, AppendStep, SyncStep, FailStep, OpenStep, ReplayRecordStep, ReplayEndStep,
     CrashStep DEF Next
<1>3. QED
  BY <1>1, <1>2

(***************************************************************************)
(* The theorems                                                            *)
(***************************************************************************)

(* The invariant holds in every state, if no fault leaves part of a        *)
(* record behind.                                                          *)
LEMMA WalAlways ==
    ASSUME ~DirtyFaults
    PROVE  Spec => []WalInv
<1>1. WalInv /\ [Next]_vars => WalInv'
  BY WalStep
<1>2. QED
  BY <1>1, WalInit, PTL DEF Spec

(* Every record whose append was acknowledged is given to the engine by     *)
(* replayWALPlaintext, in the order of the appends, after any crashes.      *)
THEOREM AcknowledgedIsRecovered ==
    ASSUME ~DirtyFaults
    PROVE  Spec => []AckedRecovered
<1>1. WalInv => AckedRecovered
  BY DEF WalInv
<1>2. QED
  BY <1>1, WalAlways, PTL

(* Replay, which trusts the lengths in a header, never decodes cells that   *)
(* are not those of one record.                                             *)
THEOREM ReplayInventsNothing ==
    ASSUME ~DirtyFaults
    PROVE  Spec => []NothingInvented
<1>1. WalInv => NothingInvented
  <2> SUFFICES ASSUME WalInv, NEW i \in DOMAIN given PROVE given[i] # Garbage
    BY DEF NothingInvented
  <2>1. given \in Seq(Record)
    BY DEF WalInv, Types
  <2>2. given[i] \in Record
    BY <2>1
  <2>3. QED
    BY <2>2, WalFileAssumption
<1>2. QED
  BY <1>1, WalAlways, PTL

(* OpenShard refuses a file that is shorter than its magic number only if   *)
(* no append to it was acknowledged.                                        *)
THEOREM RefusalIsHarmless ==
    ASSUME ~DirtyFaults
    PROVE  Spec => []RefusalLosesNothing
<1>1. WalInv => RefusalLosesNothing
  BY DEF WalInv
<1>2. QED
  BY <1>1, WalAlways, PTL

(***************************************************************************)
(* The records of a file                                                   *)
(***************************************************************************)

(* Induction over the naturals, for a set.                                 *)
LEMMA NatSetInduction ==
    ASSUME NEW T \in SUBSET Nat, 0 \in T, \A n \in T : n + 1 \in T
    PROVE  T = Nat
<1>1. SUFFICES ASSUME Nat \ T # {} PROVE FALSE
  BY Zenon
<1>2. PICK n \in Nat \ T : \A m \in Nat \ T : ~ (<<m, n>> \in OpToRel(<, Nat))
  BY <1>1, WFMin, NatLessThanWellFounded, Zenon
<1>3. \A m \in Nat \ T : ~(m < n)
  BY <1>2, Zenon DEF OpToRel
<1>4. QED
  BY <1>3

\* g is the recursion by which Records is defined.
Parses(g, s) ==
    g = [p \in 0 .. Len(s) |-> IF Whole(s, p) = {} THEN <<>>
                               ELSE <<First(s, p)>> \o g[p + Len(Cells(First(s, p)))]]

From(s) == CHOOSE g : Parses(g, s)

(* Records is its value at the start.                                      *)
LEMMA RecordsIsFrom ==
    ASSUME NEW s
    PROVE  Records(s) = From(s)[0]
  BY DEF Records, From, Parses

(* A record that cells hold takes cells.                                   *)
LEMMA FirstIs ==
    ASSUME NEW s \in Seq(Cell), NEW p \in 0 .. Len(s), Whole(s, p) # {}
    PROVE  /\ First(s, p) \in Record /\ First(s, p) \in Whole(s, p)
           /\ Len(Cells(First(s, p))) = Size(First(s, p))
           /\ p + Len(Cells(First(s, p))) \in p + 1 .. Len(s)
<1>1. PICK r : r = First(s, p)
  BY Zenon
<1>2. r \in Whole(s, p)
  BY <1>1, Zenon DEF First
<1>3. r \in Record /\ p + Len(Cells(r)) <= Len(s)
  BY <1>2 DEF Whole
<1>4. Size(r) \in Nat /\ Size(r) > 0
  BY <1>3, SizeType
<1>5. Len(Cells(r)) = Size(r)
  BY <1>4 DEF Cells, Size
<1>6. QED
  BY <1>1, <1>2, <1>3, <1>4, <1>5

(* The recursion has a solution.                                           *)
LEMMA FromExists ==
    ASSUME NEW s \in Seq(Cell)
    PROVE  \E g \in [0 .. Len(s) -> Seq(Record)] : Parses(g, s)
<1> DEFINE Upto(n) == {p \in 0 .. Len(s) : Len(s) - p <= n}
           Next_(p) == p + Len(Cells(First(s, p)))
           Value(g, p) == IF Whole(s, p) = {} THEN <<>> ELSE <<First(s, p)>> \o g[Next_(p)]
           Solves(g, n) == g \in [Upto(n) -> Seq(Record)] /\ \A p \in Upto(n) : g[p] = Value(g, p)
           T == {n \in Nat : \E g : Solves(g, n)}
<1>1. Len(s) \in Nat
  OBVIOUS
<1>2. \A p \in 0 .. Len(s) : Whole(s, p) # {} => First(s, p) \in Record /\ Next_(p) \in p + 1 .. Len(s)
  BY FirstIs
<1> HIDE DEF Next_
<1>3. 0 \in T
  <2>1. \A p \in Upto(0) : p = Len(s)
    BY <1>1
  <2>2. \A p \in Upto(0) : Whole(s, p) = {}
    BY <1>1, <1>2, <2>1
  <2>3. Solves([p \in Upto(0) |-> <<>>], 0)
    BY <2>2
  <2>4. QED
    BY <2>3, Zenon
<1>4. ASSUME NEW n \in T PROVE n + 1 \in T
  <2>1. PICK g : Solves(g, n)
    BY Zenon
  <2> DEFINE h == [p \in Upto(n + 1) |-> Value(g, p)]
  <2>2. n \in Nat /\ n + 1 \in Nat /\ Upto(n) \subseteq Upto(n + 1)
    BY <1>1
  <2>3. \A p \in Upto(n + 1) : Whole(s, p) # {} => First(s, p) \in Record /\ Next_(p) \in Upto(n)
    BY <1>1, <1>2, <2>2
  <2>4. h \in [Upto(n + 1) -> Seq(Record)]
    <3>1. ASSUME NEW p \in Upto(n + 1) PROVE Value(g, p) \in Seq(Record)
      <4>1. CASE Whole(s, p) = {}
        BY <4>1
      <4>2. CASE Whole(s, p) # {}
        <5>1. PICK r \in Record, rest \in Seq(Record) : r = First(s, p) /\ rest = g[Next_(p)]
          BY <2>1, <2>3, <4>2
        <5>2. <<r>> \o rest \in Seq(Record)
          OBVIOUS
        <5>3. QED
          BY <4>2, <5>1, <5>2
      <4>3. QED
        BY <4>1, <4>2
    <3>2. QED
      BY <3>1
  <2>5. \A p \in Upto(n) : h[p] = g[p]
    BY <2>1, <2>2, Zenon
  <2>6. \A p \in Upto(n + 1) : h[p] = Value(h, p)
    BY <2>3, <2>5, Zenon
  <2>7. Solves(h, n + 1)
    BY <2>4, <2>6, Zenon
  <2>8. QED
    BY <2>2, <2>7, Zenon
<1>5. T = Nat
  BY <1>3, <1>4, NatSetInduction, Zenon
<1>6. Upto(Len(s)) = 0 .. Len(s)
  BY <1>1
<1>7. PICK g : Solves(g, Len(s))
  BY <1>1, <1>5, Zenon
<1>8. g \in [0 .. Len(s) -> Seq(Record)] /\ Parses(g, s)
  BY <1>6, <1>7 DEF Parses, Next_
<1>9. QED
  BY <1>8

(* What the recursion says.                                                *)
LEMMA FromIs ==
    ASSUME NEW s \in Seq(Cell)
    PROVE  /\ \A p \in 0 .. Len(s) : From(s)[p] \in Seq(Record)
           /\ \A p \in 0 .. Len(s) : Whole(s, p) = {} => From(s)[p] = <<>>
           /\ \A p \in 0 .. Len(s) : Whole(s, p) # {} =>
                From(s)[p] = <<First(s, p)>> \o From(s)[p + Len(Cells(First(s, p)))]
<1>1. PICK g : g = From(s)
  BY Zenon
<1>2. Parses(g, s)
  BY <1>1, FromExists, Zenon DEF From
<1> DEFINE T == {n \in Nat : \A p \in 0 .. Len(s) : Len(s) - p <= n => g[p] \in Seq(Record)}
<1>3. Len(s) \in Nat
  OBVIOUS
<1>4. /\ \A p \in 0 .. Len(s) : Whole(s, p) = {} => g[p] = <<>>
      /\ \A p \in 0 .. Len(s) : Whole(s, p) # {} => g[p] = <<First(s, p)>> \o g[p + Len(Cells(First(s, p)))]
  BY <1>2, Zenon DEF Parses
<1>5. ASSUME NEW n \in Nat, \A p \in 0 .. Len(s) : Len(s) - p < n => g[p] \in Seq(Record),
             NEW p \in 0 .. Len(s), Len(s) - p <= n
      PROVE  g[p] \in Seq(Record)
  <2>1. CASE Whole(s, p) = {}
    <3>1. <<>> \in Seq(Record)
      OBVIOUS
    <3>2. QED
      BY <1>4, <2>1, <3>1, Zenon
  <2>2. CASE Whole(s, p) # {}
    <3>1. PICK q : q = p + Len(Cells(First(s, p)))
      OBVIOUS
    <3>2. First(s, p) \in Record /\ q \in p + 1 .. Len(s)
      BY <2>2, <3>1, FirstIs
    <3>3. g[q] \in Seq(Record)
      BY <1>3, <1>5, <3>2
    <3>4. PICK r \in Record, rest \in Seq(Record) : r = First(s, p) /\ rest = g[q]
      BY <3>2, <3>3
    <3>5. <<r>> \o rest \in Seq(Record)
      OBVIOUS
    <3>6. QED
      BY <1>4, <2>2, <3>1, <3>4, <3>5, Zenon
  <2>3. QED
    BY <2>1, <2>2
<1>6. 0 \in T
  BY <1>3, <1>5
<1>7. ASSUME NEW n \in T PROVE n + 1 \in T
  <2>1. n \in Nat /\ n + 1 \in Nat /\ \A p \in 0 .. Len(s) : Len(s) - p < n + 1 => Len(s) - p <= n
    BY <1>3
  <2>2. \A p \in 0 .. Len(s) : Len(s) - p <= n => g[p] \in Seq(Record)
    OBVIOUS
  <2>3. \A p \in 0 .. Len(s) : Len(s) - p < n + 1 => g[p] \in Seq(Record)
    BY <2>1, <2>2, Zenon
  <2>4. \A p \in 0 .. Len(s) : Len(s) - p <= n + 1 => g[p] \in Seq(Record)
    BY <1>5, <2>1, <2>3, Zenon
  <2>5. QED
    BY <2>1, <2>4, Zenon
<1>8. T = Nat
  BY <1>6, <1>7, NatSetInduction, Zenon
<1>9. \A p \in 0 .. Len(s) : g[p] \in Seq(Record)
  BY <1>3, <1>8
<1>10. QED
  BY <1>1, <1>4, <1>9, Zenon

(* The record that begins after a bound is the only one cells hold there,  *)
(* if they hold all of it.                                                 *)
LEMMA WholeAt ==
    ASSUME NEW s, FileOK(s), NEW p \in 0 .. Len(s), Bound(s, p)
    PROVE  IF p < Len(s) /\ p + Size(s[p + 1].rec) <= Len(s)
           THEN Whole(s, p) = {s[p + 1].rec}
           ELSE Whole(s, p) = {}
<1>1. s \in Seq(Cell) /\ Len(s) \in Nat
  BY DEF FileOK
<1>2. ASSUME NEW x \in Whole(s, p)
      PROVE  p < Len(s) /\ x = s[p + 1].rec /\ p + Size(x) <= Len(s)
  <2>1. x \in Record /\ p + Len(Cells(x)) <= Len(s) /\ SubSeq(s, p + 1, p + Len(Cells(x))) = Cells(x)
    BY DEF Whole
  <2>2. Size(x) \in Nat /\ Size(x) >= 1
    BY <2>1, SizeType, SMTT(30)
  <2>3. Cells(x) = [i \in 1 .. Size(x) |-> [rec |-> x, at |-> i]] /\ Len(Cells(x)) = Size(x)
    BY <2>2 DEF Cells, Size
  <2>4. Cells(x)[1].rec = x
    BY <2>2, <2>3
  <2>5. p < Len(s) /\ p + Size(x) <= Len(s)
    BY <1>1, <2>1, <2>2, <2>3
  <2>6. SubSeq(s, p + 1, p + Size(x))[1] = s[p + 1]
    BY <1>1, <2>2, <2>5
  <2>7. QED
    BY <2>1, <2>3, <2>4, <2>5, <2>6, Zenon
<1>3. ASSUME p < Len(s), p + Size(s[p + 1].rec) <= Len(s)
      PROVE  s[p + 1].rec \in Whole(s, p)
  <2>1. PICK r : r = s[p + 1].rec
    BY SMTT(30)
  <2>2. r \in Record
    BY <1>1, <1>3, <2>1, RunAt, SMTT(30)
  <2>3. Size(r) \in Nat /\ Size(r) \in 1 .. Size(r)
    BY <2>2, SizeType
  <2>4. SubSeq(s, p + 1, p + Size(r)) = SubSeq(Cells(r), 1, Size(r))
    <3>1. PICK n : n = Size(r)
      BY Zenon
    <3>2. /\ p \in 0 .. Len(s) - 1 /\ n \in 1 .. Size(s[p + 1].rec) /\ p + n <= Len(s)
      BY <1>1, <1>3, <2>1, <2>3, <3>1
    <3>3. SubSeq(s, p + 1, p + n) = SubSeq(Cells(s[p + 1].rec), 1, n)
      BY <3>2, RecordAt
    <3>4. QED
      BY <2>1, <3>1, <3>3, Zenon
  <2>5. Cells(r) = [i \in 1 .. Size(r) |-> [rec |-> r, at |-> i]]
    BY DEF Cells, Size
  <2>6. SubSeq(Cells(r), 1, Size(r)) = Cells(r) /\ Len(Cells(r)) = Size(r)
    BY <2>3, <2>5
  <2>7. QED
    BY <1>3, <2>1, <2>2, <2>4, <2>6, Zenon DEF Whole
<1>4. QED
  BY <1>2, <1>3

(* After a bound the next one is the end of the record that begins there.  *)
LEMMA NextBound ==
    ASSUME NEW s, FileOK(s), NEW p \in 0 .. Len(s) - 1, Bound(s, p)
    PROVE  /\ s[p + 1].rec \in Record /\ Size(s[p + 1].rec) \in Nat /\ Size(s[p + 1].rec) > 0
           /\ \A q \in p + 1 .. Len(s) : Bound(s, q) => p + Size(s[p + 1].rec) <= q
           /\ \A q \in p + 1 .. Len(s) : q = p + Size(s[p + 1].rec) =>
                 Bound(s, q) /\ s[q].rec = s[p + 1].rec
<1>1. Len(s) \in Nat
  BY DEF FileOK
<1>2. PICK r \in Record : r = s[p + 1].rec
  BY RunAt
<1>3. Size(r) \in Nat /\ Size(r) > 0
  BY SizeType
<1>4. \A q \in p + 1 .. Len(s) : q - p <= Size(r) => s[q].rec = r /\ s[q].at = q - p
  BY <1>2, RunAt, Zenon
<1>5. ASSUME NEW q \in p + 1 .. Len(s), Bound(s, q) PROVE p + Size(r) <= q
  BY <1>1, <1>3, <1>4, <1>5 DEF Bound
<1>6. ASSUME NEW q \in p + 1 .. Len(s), q = p + Size(r) PROVE Bound(s, q) /\ s[q].rec = r
  BY <1>1, <1>3, <1>4, <1>6 DEF Bound
<1>7. QED
  BY <1>2, <1>3, <1>5, <1>6

BoundOf(s, p) == FileOK(s) /\ p \in 0 .. Len(s) /\ Bound(s, p)

(* What is parsed from a bound on.                                         *)
LEMMA FromAt ==
    ASSUME NEW s, NEW p, BoundOf(s, p)
    PROVE  /\ From(s)[p] \in Seq(Record)
           /\ p < Len(s) /\ p + Size(s[p + 1].rec) <= Len(s)
                => From(s)[p] = <<s[p + 1].rec>> \o From(s)[p + Size(s[p + 1].rec)]
           /\ ~(p < Len(s) /\ p + Size(s[p + 1].rec) <= Len(s)) => From(s)[p] = <<>>
<1>1. s \in Seq(Cell) /\ FileOK(s) /\ p \in 0 .. Len(s) /\ Bound(s, p)
  BY Zenon DEF FileOK, BoundOf
<1>2. From(s)[p] \in Seq(Record) /\ (Whole(s, p) = {} => From(s)[p] = <<>>)
  BY <1>1, FromIs, Zenon
<1>3. ASSUME p < Len(s), p + Size(s[p + 1].rec) <= Len(s)
      PROVE  From(s)[p] = <<s[p + 1].rec>> \o From(s)[p + Size(s[p + 1].rec)]
  <2>1. Whole(s, p) = {s[p + 1].rec}
    BY <1>1, <1>3, WholeAt
  <2>2. Whole(s, p) # {} /\ First(s, p) = s[p + 1].rec
    BY <2>1 DEF First
  <2>3. From(s)[p] = <<First(s, p)>> \o From(s)[p + Len(Cells(First(s, p)))]
    BY <1>1, <2>2, FromIs, Zenon
  <2>4. Len(Cells(First(s, p))) = Size(First(s, p))
    BY <1>1, <2>2, FirstIs, Zenon
  <2>5. QED
    BY <2>2, <2>3, <2>4, Zenon
<1>4. ASSUME ~(p < Len(s) /\ p + Size(s[p + 1].rec) <= Len(s)) PROVE Whole(s, p) = {}
  BY <1>1, <1>4, WholeAt
<1>5. QED
  BY <1>2, <1>3, <1>4, Zenon

\* The record after the bound p is r, and q its end.
Follows(s, p, r, q) ==
    /\ BoundOf(s, p) /\ p < Len(s) /\ r = s[p + 1].rec
    /\ q = p + Size(r) /\ q <= Len(s)

\* Replay from p gives r, and goes on from q.
Gives(s, p, r, q) == From(s)[p] = <<r>> \o From(s)[q]

(* The same, for a record that is there.                                   *)
LEMMA FromNext ==
    ASSUME NEW s, NEW p, NEW r, NEW q, Follows(s, p, r, q)
    PROVE  Gives(s, p, r, q)
  BY FromAt, Zenon DEF Follows, Gives

(* Concatenation is associative.                                           *)
LEMMA ConsConcat ==
    ASSUME NEW r \in Record, NEW a \in Seq(Record), NEW b \in Seq(Record)
    PROVE  <<r>> \o (a \o b) = (<<r>> \o a) \o b
  OBVIOUS

(* e is the last bound up to n.                                            *)
LastBound(s, e, n) == e \in 0 .. n /\ Bound(s, e) /\ \A q \in e + 1 .. n : ~Bound(s, q)

(* There is one, since 0 is a bound.                                       *)
LEMMA LastBoundExists ==
    ASSUME NEW s, NEW n \in Nat
    PROVE  \E e \in 0 .. n : LastBound(s, e, n)
<1> DEFINE T == {k \in Nat : \E e \in 0 .. k : LastBound(s, e, k)}
<1>1. 0 \in T
  BY DEF LastBound, Bound
<1>2. ASSUME NEW k \in T PROVE k + 1 \in T
  <2>1. PICK e \in 0 .. k : LastBound(s, e, k)
    OBVIOUS
  <2>2. CASE Bound(s, k + 1)
    <3>1. LastBound(s, k + 1, k + 1)
      BY <2>2 DEF LastBound
    <3>2. QED
      BY <3>1
  <2>3. CASE ~Bound(s, k + 1)
    <3>1. \A q \in e + 1 .. k + 1 : q = k + 1 \/ q \in e + 1 .. k
      OBVIOUS
    <3>2. LastBound(s, e, k + 1)
      BY <2>1, <2>3, <3>1 DEF LastBound
    <3>3. QED
      BY <3>2
  <2>4. QED
    BY <2>2, <2>3
<1>3. T = Nat
  BY <1>1, <1>2, NatSetInduction, Zenon
<1>4. QED
  BY <1>3

(* The records of a file are those of a prefix, and those that are parsed  *)
(* from the last bound of the prefix on.                                   *)
LEMMA SplitAt ==
    ASSUME NEW t, FileOK(t), NEW n \in 0 .. Len(t), NEW e, LastBound(t, e, n),
           NEW s, s = SubSeq(t, 1, n)
    PROVE  Records(t) = Records(s) \o From(t)[e]
<1> DEFINE Good(p) == From(t)[p] = From(s)[p] \o From(t)[e]
           T == {k \in Nat : \A p \in 0 .. e : Bound(t, p) /\ e - p <= k => Good(p)}
<1>1. /\ FileOK(s) /\ Len(s) = n /\ \A p \in 1 .. n : s[p] = t[p]
      /\ Len(t) \in Nat /\ n \in Nat /\ n <= Len(t) /\ e \in Nat /\ e <= n
  <2>1. FileOK(s) /\ Len(s) = n /\ \A p \in 1 .. n : s[p] = t[p]
    BY CutOK, SMTT(30)
  <2>2. Len(t) \in Nat
    BY DEF FileOK
  <2>3. QED
    BY <2>1, <2>2, SMTT(30) DEF LastBound
<1>2. \A p \in 0 .. n : Bound(t, p) <=> Bound(s, p)
  BY <1>1 DEF Bound
<1>3. BoundOf(t, e) /\ BoundOf(s, e) /\ From(t)[e] \in Seq(Record)
  <2>1. BoundOf(t, e) /\ BoundOf(s, e)
    BY <1>1, <1>2 DEF LastBound, BoundOf
  <2>2. QED
    BY <2>1, FromAt, Zenon
<1>4. Good(e)
  <2>1. ~(e < Len(s) /\ e + Size(s[e + 1].rec) <= Len(s))
    <3>1. SUFFICES ASSUME e < n, e + Size(s[e + 1].rec) <= n PROVE FALSE
      BY <1>1
    <3>2. PICK q : q = e + Size(s[e + 1].rec)
      OBVIOUS
    <3>3. e \in 0 .. Len(s) - 1 /\ Bound(s, e)
      BY <1>1, <1>2, <3>1 DEF LastBound
    <3>4. /\ Size(s[e + 1].rec) \in Nat /\ Size(s[e + 1].rec) > 0
          /\ \A k \in e + 1 .. Len(s) : k = e + Size(s[e + 1].rec) => Bound(s, k)
      BY <1>1, <3>3, NextBound, Zenon
    <3>5. q \in e + 1 .. Len(s) /\ Bound(s, q)
      BY <1>1, <3>1, <3>2, <3>4
    <3>6. QED
      BY <1>1, <1>2, <3>5 DEF LastBound
  <2>2. From(s)[e] = <<>>
    BY <1>3, <2>1, FromAt, Zenon
  <2>3. \A x \in Seq(Record) : x = <<>> \o x
    OBVIOUS
  <2>4. QED
    BY <1>3, <2>2, <2>3, Zenon
<1>5. ASSUME NEW p \in 0 .. e, Bound(t, p), p # e,
             \A q \in 0 .. e : Bound(t, q) /\ p < q => Good(q)
      PROVE  Good(p)
  <2>1. p \in 0 .. Len(t) - 1 /\ p \in 0 .. Len(t) /\ p \in 0 .. Len(s) /\ p < Len(s) /\ p + 1 \in 1 .. n
    BY <1>1, <1>5
  <2>2. PICK r : r = t[p + 1].rec /\ r = s[p + 1].rec
    BY <1>1, <2>1
  <2>3. /\ r \in Record /\ Size(r) \in Nat /\ Size(r) > 0
        /\ \A q \in p + 1 .. Len(t) : Bound(t, q) => p + Size(r) <= q
        /\ \A q \in p + 1 .. Len(t) : q = p + Size(r) => Bound(t, q)
    BY <1>5, <2>1, <2>2, NextBound, Zenon
  <2>4. PICK q : q = p + Size(r)
    OBVIOUS
  <2>5. q \in 0 .. e /\ p < q /\ Bound(t, q)
    <3>1. e \in p + 1 .. Len(t) /\ Bound(t, e)
      BY <1>1, <1>5 DEF LastBound
    <3>2. q <= e
      BY <2>3, <2>4, <3>1
    <3>3. QED
      BY <1>1, <2>1, <2>3, <2>4, <3>2
  <2>6. Good(q)
    BY <1>5, <2>5, Zenon
  <2>7. BoundOf(t, p) /\ BoundOf(s, p) /\ BoundOf(s, q)
    BY <1>1, <1>2, <1>5, <2>1, <2>5 DEF BoundOf
  <2>8. p < Len(t) /\ q <= Len(t) /\ p < Len(s) /\ q <= Len(s)
    BY <1>1, <2>1, <2>5
  <2>9. Follows(t, p, r, q) /\ Follows(s, p, r, q)
    BY <2>2, <2>4, <2>7, <2>8, Zenon DEF Follows
  <2>10. From(t)[p] = <<r>> \o From(t)[q] /\ From(s)[p] = <<r>> \o From(s)[q]
    <3>1. Gives(t, p, r, q) /\ Gives(s, p, r, q)
      BY <2>9, FromNext, Zenon
    <3>2. QED
      BY <3>1, Zenon DEF Gives
  <2>11. From(s)[q] \in Seq(Record)
    BY <2>7, FromAt, Zenon
  <2>12. <<r>> \o (From(s)[q] \o From(t)[e]) = (<<r>> \o From(s)[q]) \o From(t)[e]
    BY <1>3, <2>3, <2>11, ConsConcat, Zenon
  <2>13. QED
    BY <2>6, <2>10, <2>12, Zenon
<1> HIDE DEF Good
<1>6. 0 \in T
  BY <1>1, <1>4
<1>7. ASSUME NEW k \in T PROVE k + 1 \in T
  <2>1. ASSUME NEW p \in 0 .. e, Bound(t, p), e - p <= k + 1 PROVE Good(p)
    <3>1. \A q \in 0 .. e : Bound(t, q) /\ p < q => Good(q)
      BY <1>1, <2>1
    <3>2. QED
      BY <1>4, <1>5, <2>1, <3>1, SMTT(30)
  <2>2. QED
    BY <2>1
<1>8. T = Nat
  BY <1>6, <1>7, NatSetInduction, Zenon
<1>9. Good(0)
  BY <1>1, <1>8 DEF Bound
<1>10. QED
  BY <1>9, RecordsIsFrom, Zenon DEF Good

(* A file begins with the records of a prefix of it, and has one more, or  *)
(* none, according to the bounds after the prefix.                         *)
LEMMA RecordsGrow ==
    ASSUME NEW t, FileOK(t), NEW n \in 0 .. Len(t), NEW s, s = SubSeq(t, 1, n)
    PROVE  /\ Records(s) \in Seq(Record) /\ Records(t) \in Seq(Record)
           /\ \E x \in Seq(Record) : Records(t) = Records(s) \o x
           /\ (\A q \in n + 1 .. Len(t) : ~Bound(t, q)) => Records(t) = Records(s)
           /\ n < Len(t) /\ Bound(t, Len(t)) /\ NoneBetween(t, n, Len(t))
                 => Records(t) = Append(Records(s), t[Len(t)].rec)
<1>1. FileOK(s) /\ Len(s) \in Nat /\ Len(t) \in Nat /\ n \in Nat /\ n <= Len(t)
  <2>1. FileOK(s)
    BY CutOK, SMTT(30)
  <2>2. Len(s) \in Nat /\ Len(t) \in Nat
    BY <2>1 DEF FileOK
  <2>3. QED
    BY <2>1, <2>2
<1>2. Records(s) \in Seq(Record) /\ Records(t) \in Seq(Record)
  <2>1. \A u : FileOK(u) /\ Len(u) \in Nat => Records(u) \in Seq(Record)
    <3>1. ASSUME NEW u, FileOK(u), Len(u) \in Nat PROVE Records(u) \in Seq(Record)
      <4>1. BoundOf(u, 0)
        BY <3>1 DEF BoundOf, Bound
      <4>2. QED
        BY <4>1, FromAt, RecordsIsFrom, Zenon
    <3>2. QED
      BY <3>1
  <2>2. QED
    BY <1>1, <2>1, Zenon
<1>3. PICK e \in 0 .. n : LastBound(t, e, n)
  BY <1>1, LastBoundExists, SMTT(30)
<1>4. Records(t) = Records(s) \o From(t)[e]
  BY <1>3, SplitAt, Zenon
<1>5. e \in 0 .. Len(t) /\ Bound(t, e) /\ \A q \in e + 1 .. n : ~Bound(t, q)
  BY <1>1, <1>3 DEF LastBound
<1>6. BoundOf(t, e) /\ From(t)[e] \in Seq(Record)
  <2>1. BoundOf(t, e)
    BY <1>5 DEF BoundOf
  <2>2. QED
    BY <2>1, FromAt, Zenon
<1>7. ASSUME \A q \in n + 1 .. Len(t) : ~Bound(t, q)
      PROVE  Records(t) = Records(s)
  <2>1. ~(e < Len(t) /\ e + Size(t[e + 1].rec) <= Len(t))
    <3>1. SUFFICES ASSUME e < Len(t), e + Size(t[e + 1].rec) <= Len(t) PROVE FALSE
      OBVIOUS
    <3>2. PICK q : q = e + Size(t[e + 1].rec)
      OBVIOUS
    <3>3. e \in 0 .. Len(t) - 1
      BY <1>1, <1>5, <3>1, SMTT(30)
    <3>4. q \in e + 1 .. Len(t) /\ Bound(t, q)
      BY <1>1, <1>5, <3>1, <3>2, <3>3, NextBound, SMTT(30)
    <3>5. q \in e + 1 .. n \/ q \in n + 1 .. Len(t)
      BY <1>1, <3>4
    <3>6. QED
      BY <1>5, <1>7, <3>4, <3>5
  <2>2. From(t)[e] = <<>>
    BY <1>6, <2>1, FromAt, ZenonT(30)
  <2>3. QED
    BY <1>2, <1>4, <2>2
<1>8. ASSUME n < Len(t), Bound(t, Len(t)), NoneBetween(t, n, Len(t))
      PROVE  Records(t) = Append(Records(s), t[Len(t)].rec)
  <2>1. e \in 0 .. Len(t) - 1 /\ Len(t) \in e + 1 .. Len(t) /\ Len(t) \in 0 .. Len(t)
    BY <1>1, <1>3, <1>8
  <2>2. PICK r : r = t[e + 1].rec
    OBVIOUS
  <2>3. /\ r \in Record /\ Size(r) \in Nat /\ Size(r) > 0 /\ e + Size(r) <= Len(t)
        /\ \A q \in e + 1 .. Len(t) : q = e + Size(r) => Bound(t, q) /\ t[q].rec = r
    BY <1>5, <1>8, <2>1, <2>2, NextBound
  <2>4. e + Size(r) = Len(t)
    <3>1. PICK q : q = e + Size(r)
      OBVIOUS
    <3>2. q \in e + 1 .. Len(t) /\ Bound(t, q)
      BY <1>1, <2>1, <2>3, <3>1
    <3>3. q \in e + 1 .. n \/ q \in n + 1 .. Len(t) - 1 \/ q = Len(t)
      BY <1>1, <3>2
    <3>4. QED
      BY <1>5, <1>8, <3>1, <3>2, <3>3 DEF NoneBetween
  <2>5. From(t)[Len(t)] = <<>>
    <3>1. BoundOf(t, Len(t)) /\ ~(Len(t) < Len(t))
      BY <1>1, <1>8, <2>1 DEF BoundOf
    <3>2. QED
      BY <3>1, FromAt, Zenon
  <2>6. From(t)[e] = <<r>> \o <<>>
    <3>1. e < Len(t) /\ e + Size(r) <= Len(t)
      BY <1>1, <2>1, <2>3
    <3>2. From(t)[e] = <<r>> \o From(t)[e + Size(r)]
      BY <1>6, <2>2, <3>1, FromAt, Zenon
    <3>3. QED
      BY <2>4, <2>5, <3>2, Zenon
  <2>7. t[Len(t)].rec = r
    BY <2>1, <2>3, <2>4, SMTT(30)
  <2>8. From(t)[e] = <<r>>
    BY <2>3, <2>6
  <2>9. QED
    BY <1>2, <1>4, <2>3, <2>7, <2>8
<1>9. QED
  BY <1>2, <1>4, <1>6, <1>7, <1>8, Zenon

(***************************************************************************)
(* The file implements a log of whole records                              *)
(***************************************************************************)

Rest == SubSeq(Records(file), Len(Durable) + 1, Len(Records(file)))

(* What follows a prefix.                                                  *)
LEMMA AfterPrefix ==
    ASSUME NEW d \in Seq(Record), NEW x \in Seq(Record)
    PROVE  SubSeq(d \o x, Len(d) + 1, Len(d \o x)) = x
<1>1. d \o x \in Seq(Record) /\ Len(d \o x) = Len(d) + Len(x)
  OBVIOUS
<1>2. PICK y : y = SubSeq(d \o x, Len(d) + 1, Len(d \o x))
  OBVIOUS
<1>3. y \in Seq(Record) /\ Len(y) = Len(x)
  BY <1>1, <1>2
<1>4. \A i \in 1 .. Len(x) : y[i] = (d \o x)[Len(d) + i]
  BY <1>1, <1>2
<1>5. \A i \in 1 .. Len(x) : (d \o x)[Len(d) + i] = x[i]
  OBVIOUS
<1>6. y = x
  BY <1>3, <1>4, <1>5
<1>7. QED
  BY <1>2, <1>6

(* A common prefix can be taken off.                                       *)
LEMMA Cancel ==
    ASSUME NEW d \in Seq(Record), NEW x \in Seq(Record), NEW y \in Seq(Record), d \o x = d \o y
    PROVE  x = y
<1>1. SubSeq(d \o x, Len(d) + 1, Len(d \o x)) = x
  BY AfterPrefix
<1>2. SubSeq(d \o y, Len(d) + 1, Len(d \o y)) = y
  BY AfterPrefix
<1>3. QED
  BY <1>1, <1>2, Zenon

(* An element that is appended to the end.                                 *)
LEMMA AppendToConcat ==
    ASSUME NEW d \in Seq(Record), NEW x \in Seq(Record), NEW r \in Record
    PROVE  Append(d \o x, r) = d \o Append(x, r) /\ Append(x, r) \in Seq(Record)
<1>1. PICK u, a, b, c, m, k : /\ u = d \o x /\ a = Append(u, r) /\ b = Append(x, r) /\ c = d \o b
                              /\ m = Len(d) /\ k = Len(x)
  BY Zenon
<1>2. m \in Nat /\ k \in Nat
  BY <1>1, SMTT(30)
<1>3. u \in Seq(Record) /\ Len(u) = m + k /\ \A i \in 1 .. m : u[i] = d[i]
  BY <1>1
<1>4. \A i \in 1 .. k : u[m + i] = x[i]
  BY <1>1
<1>5. b \in Seq(Record) /\ Len(b) = k + 1 /\ b[k + 1] = r /\ \A i \in 1 .. k : b[i] = x[i]
  BY <1>1
<1>6. /\ a \in Seq(Record) /\ Len(a) = m + k + 1 /\ a[m + k + 1] = r
      /\ \A i \in 1 .. m + k : a[i] = u[i]
  BY <1>1, <1>2, <1>3, SMTT(30)
<1>7. c \in Seq(Record) /\ Len(c) = m + k + 1 /\ \A i \in 1 .. m : c[i] = d[i]
  BY <1>1, <1>2, <1>5
<1>8. \A i \in 1 .. k + 1 : c[m + i] = b[i]
  BY <1>1, <1>2, <1>5
<1>9. ASSUME NEW i \in 1 .. m + k + 1 PROVE a[i] = c[i]
  <2>1. CASE i \in 1 .. m
    BY <1>2, <1>3, <1>6, <1>7, <2>1
  <2>2. CASE i \in m + 1 .. m + k
    <3>1. PICK h \in 1 .. k : i = m + h
      BY <1>2, <2>2
    <3>2. a[i] = x[h]
      <4>1. i \in 1 .. m + k
        BY <1>2, <2>2
      <4>2. QED
        BY <1>4, <1>6, <3>1, <4>1, Zenon
    <3>3. c[i] = x[h]
      BY <1>2, <1>5, <1>8, <3>1
    <3>4. QED
      BY <3>2, <3>3, Zenon
  <2>3. CASE i = m + k + 1
    <3>1. c[m + (k + 1)] = b[k + 1] /\ m + (k + 1) = m + k + 1
      BY <1>2, <1>8, SMTT(30)
    <3>2. QED
      BY <1>5, <1>6, <2>3, <3>1, Zenon
  <2>4. QED
    BY <1>2, <2>1, <2>2, <2>3, SMTT(30)
<1>10. a = c
  BY <1>2, <1>6, <1>7, <1>9
<1>11. QED
  BY <1>1, <1>5, <1>10, Zenon

DividedAt(f, n, d, y) ==
    /\ FileOK(f) /\ n \in 0 .. Len(f) /\ d = Records(SubSeq(f, 1, n))
    /\ y = SubSeq(Records(f), Len(d) + 1, Len(Records(f)))

(* The records of a file are those of a prefix and the rest.               *)
LEMMA Divided ==
    ASSUME NEW f, NEW n, NEW d, NEW y, DividedAt(f, n, d, y)
    PROVE  d \in Seq(Record) /\ y \in Seq(Record) /\ Records(f) = d \o y
<1>1. PICK s : s = SubSeq(f, 1, n)
  BY Zenon
<1>2. /\ FileOK(f) /\ n \in 0 .. Len(f) /\ d = Records(SubSeq(f, 1, n))
      /\ y = SubSeq(Records(f), Len(d) + 1, Len(Records(f)))
  BY Zenon DEF DividedAt
<1>3. PICK x \in Seq(Record) : Records(s) \in Seq(Record) /\ Records(f) = Records(s) \o x
  BY <1>1, <1>2, RecordsGrow, Zenon
<1>4. d \in Seq(Record) /\ Records(f) = d \o x
  BY <1>1, <1>2, <1>3, Zenon
<1>5. y = SubSeq(d \o x, Len(d) + 1, Len(d \o x))
  BY <1>2, <1>4, Zenon
<1>6. y = x
  BY <1>4, <1>5, AfterPrefix, Zenon
<1>7. QED
  BY <1>3, <1>4, <1>6, Zenon

(* The records of the file are the durable ones and the rest.              *)
LEMMA RestIs ==
    ASSUME WalInv
    PROVE  /\ Durable \in Seq(Record) /\ Rest \in Seq(Record)
           /\ Records(file) = Durable \o Rest
<1>1. FileOK(file) /\ synced \in 0 .. Len(file)
  BY SyncedInFile, Zenon
<1>2. Durable = Records(SubSeq(file, 1, synced))
  BY Zenon DEF Durable
<1>3. Rest = SubSeq(Records(file), Len(Durable) + 1, Len(Records(file)))
  BY Zenon DEF Rest
<1>4. DividedAt(file, synced, Durable, Rest)
  BY <1>1, <1>2, <1>3, Zenon DEF DividedAt
<1>5. QED
  BY <1>4, Divided, Zenon

(* So they are after a step.                                               *)
LEMMA RestIsNext ==
    ASSUME WalInv'
    PROVE  /\ Durable' \in Seq(Record) /\ Rest' \in Seq(Record)
           /\ Records(file)' = Durable' \o Rest'
<1>1. FileOK(file') /\ synced' \in 0 .. Len(file')
  <2>1. FileOK(file') /\ synced' \in Nat /\ synced' <= Len(file')
    BY Zenon DEF WalInv, Types
  <2>2. Len(file') \in Nat
    BY <2>1, FileCells, Zenon
  <2>3. QED
    BY <2>1, <2>2
<1>2. Durable' = Records(SubSeq(file', 1, synced'))
  BY Zenon DEF Durable
<1>3. Rest' = SubSeq(Records(file'), Len(Durable') + 1, Len(Records(file')))
  BY Zenon DEF Rest
<1>4. DividedAt(file', synced', Durable', Rest')
  BY <1>1, <1>2, <1>3, Zenon DEF DividedAt
<1>5. QED
  BY <1>4, Divided, Zenon

(* Steps that leave the records alone.                                     *)
LEMMA SameLog ==
    ASSUME Records(file)' = Records(file), Durable' = Durable
    PROVE  UNCHANGED <<Durable, Rest>>
  BY DEF Rest

(* A record is complete.                                                   *)
LEMMA StoreLog ==
    ASSUME WalInv, WalInv', NEW r \in Record, Durable' = Durable,
           Records(file)' = Append(Records(file), r)
    PROVE  Log!Store(r)
<1>1. PICK d \in Seq(Record), x \in Seq(Record) : d = Durable /\ x = Rest /\ Records(file) = d \o x
  BY RestIs
<1>2. PICK y \in Seq(Record) : y = Rest' /\ Records(file)' = d \o y
  BY <1>1, RestIsNext, Zenon
<1>3. Append(d \o x, r) = d \o Append(x, r) /\ Append(x, r) \in Seq(Record)
  BY AppendToConcat, Zenon
<1>4. d \o y = d \o Append(x, r)
  BY <1>1, <1>2, <1>3, Zenon
<1>5. y = Append(x, r)
  BY <1>3, <1>4, Cancel, Zenon
<1>6. Rest' = Append(Rest, r)
  BY <1>1, <1>2, <1>5
<1>7. QED
  BY <1>6, Zenon DEF Log!Store, Rest

(* A Sync is acknowledged.                                                 *)
LEMMA AcknowledgeLog ==
    ASSUME WalInv, Records(file)' = Records(file), Durable' = Records(file)
    PROVE  Log!Acknowledge
<1>1. Durable \in Seq(Record) /\ Rest \in Seq(Record) /\ Records(file) = Durable \o Rest
  BY RestIs
<1>2. Records(file) \in Seq(Record)
  BY <1>1
<1>3. Rest' = SubSeq(Records(file), Len(Records(file)) + 1, Len(Records(file)))
  BY Zenon DEF Rest
<1>4. Rest' = <<>>
  BY <1>2, <1>3
<1>5. QED
  BY <1>1, <1>4 DEF Log!Acknowledge, Rest

(* The end of the file is lost.                                            *)
LEMMA LoseLog ==
    ASSUME WalInv, WalInv', Durable' = Durable, NEW z \in Seq(Record),
           Records(file) = Records(file)' \o z
    PROVE  \E n \in 0 .. Len(Rest) : Log!Lose(n)
<1>1. PICK d \in Seq(Record), x \in Seq(Record) : d = Durable /\ x = Rest /\ Records(file) = d \o x
  BY RestIs, Zenon
<1>2. PICK y \in Seq(Record) : y = Rest' /\ Records(file)' = d \o y
  BY <1>1, RestIsNext
<1>3. (d \o y) \o z = d \o (y \o z) /\ y \o z \in Seq(Record)
  BY SMTT(30)
<1>4. d \o x = d \o (y \o z)
  BY <1>1, <1>2, <1>3, Zenon
<1>5. x = y \o z
  BY <1>3, <1>4, Cancel, Zenon
<1>6. Len(y) \in 0 .. Len(x) /\ y = SubSeq(x, 1, Len(y))
  BY <1>5
<1>7. Rest' = SubSeq(Rest, 1, Len(y)) /\ Len(y) \in 0 .. Len(Rest)
  BY <1>1, <1>2, <1>6, SMTT(30)
<1>8. QED
  BY <1>7, Zenon DEF Log!Lose, Rest

(* A write of appendRecord: the record is stored once its last cell is     *)
(* written.                                                                *)
LEMMA WriteLog ==
    ASSUME WalInv, WalInv', WriteHeader \/ WriteKey \/ WriteValue
    PROVE  (\E r \in Record : Log!Store(r)) \/ UNCHANGED <<Durable, Rest>>
<1>1. cur \in Record /\ synced' = synced
  BY AppendExtends
<1>2. PICK b \in Nat : Written <= b /\ b <= Size(cur) /\ Extended(file, file', cur, Written, b)
  BY AppendExtends
<1>3. PICK a \in Nat, L \in Nat, S \in Nat : a = Written /\ L = Len(file) /\ S = Size(cur)
  BY <1>1, WrittenType, SizeType, SyncedInFile, Zenon
<1>4. FileOK(file) /\ FileOK(file') /\ file \in Seq(Cell) /\ file' \in Seq(Cell) /\ synced \in 0 .. L
  <2>1. FileOK(file')
    BY Zenon DEF WalInv
  <2>2. QED
    BY <1>3, <2>1, SyncedInFile, FileCells, Zenon
<1>5. /\ a <= b /\ b <= S /\ Len(file') = L + (b - a)
      /\ \A p \in 1 .. L : file'[p] = file[p]
      /\ \A p \in L + 1 .. L + (b - a) : file'[p].rec = cur /\ file'[p].at = a + (p - L)
  BY <1>2, <1>3, Zenon DEF Extended
<1>6. L \in 0 .. Len(file') /\ file = SubSeq(file', 1, L)
  BY <1>3, <1>4, <1>5
<1>7. Durable' = Durable
  <2>1. SubSeq(file', 1, synced) = SubSeq(file, 1, synced)
    BY <1>3, <1>4, <1>5
  <2>2. QED
    BY <1>1, <2>1, Zenon DEF Durable
<1>8. CASE a = b \/ b < S
  <2>1. \A q \in L + 1 .. Len(file') : ~Bound(file', q)
    <3> SUFFICES ASSUME NEW q \in L + 1 .. Len(file') PROVE ~Bound(file', q)
      BY Zenon
    <3>1. q \in L + 1 .. L + (b - a) /\ a + (q - L) # S /\ q # 0
      BY <1>5, <1>8
    <3>2. file'[q].rec = cur /\ file'[q].at = a + (q - L)
      BY <1>5, <3>1, Zenon
    <3>3. QED
      BY <1>3, <3>1, <3>2, Zenon DEF Bound
  <2>2. Records(file') = Records(file)
    BY <1>4, <1>6, <2>1, RecordsGrow, Zenon
  <2>3. QED
    BY <1>7, <2>2, SameLog
<1>9. CASE a < b /\ b = S
  <2>1. L < Len(file') /\ Bound(file', Len(file')) /\ file'[Len(file')].rec = cur
    <3>1. PICK q : q = L + (b - a)
      BY Zenon
    <3>2. q = Len(file') /\ L < q /\ q \in L + 1 .. L + (b - a) /\ a + (q - L) = S
      BY <1>5, <1>9, <3>1
    <3>3. file'[q].rec = cur /\ file'[q].at = S
      BY <1>5, <3>2
    <3>4. QED
      BY <1>3, <3>2, <3>3 DEF Bound
  <2>2. NoneBetween(file', L, Len(file'))
    <3> SUFFICES ASSUME NEW q \in L + 1 .. Len(file') - 1 PROVE ~Bound(file', q)
      BY Zenon DEF NoneBetween
    <3>1. q \in L + 1 .. L + (b - a) /\ a + (q - L) # S /\ q # 0
      BY <1>5, <1>9
    <3>2. file'[q].rec = cur /\ file'[q].at = a + (q - L)
      BY <1>5, <3>1, Zenon
    <3>3. QED
      BY <1>3, <3>1, <3>2, Zenon DEF Bound
  <2>3. Records(file') = Append(Records(file), cur)
    BY <1>4, <1>6, <2>1, <2>2, RecordsGrow, Zenon
  <2>4. QED
    BY <1>1, <1>7, <2>3, StoreLog, SMTT(30)
<1>10. QED
  BY <1>5, <1>8, <1>9

(* A Sync that returns nil.                                                *)
LEMMA SyncLog ==
    ASSUME WalInv, Sync
    PROVE  Log!Acknowledge
<1>1. file \in Seq(Cell) /\ file' = file /\ synced' = Len(file)
  BY Zenon DEF WalInv, FileOK, Sync
<1>2. SubSeq(file, 1, Len(file)) = file
  BY <1>1
<1>3. Durable' = Records(file) /\ Records(file)' = Records(file)
  BY <1>1, <1>2, Zenon DEF Durable
<1>4. QED
  BY <1>3, AcknowledgeLog

(* finishReplay cuts off no whole record.                                  *)
LEMMA ReplayEndLog ==
    ASSUME WalInv, ~DirtyFaults, ReplayEnd
    PROVE  UNCHANGED <<Durable, Rest>>
<1>1. /\ file' = SubSeq(file, 1, pos)
      /\ synced' = IF Len(file') < synced THEN Len(file') ELSE synced
  BY DEF ReplayEnd
<1>2. FileOK(file) /\ file \in Seq(Cell) /\ Len(file) \in Nat /\ pos \in 0 .. Len(file)
      /\ synced \in 0 .. Len(file)
  <2>1. pos \in 0 .. Len(file)
    BY Zenon DEF ReplayEnd, WalInv, ReplayInv
  <2>2. QED
    BY <2>1, SyncedInFile, Zenon
<1>3. \A q \in 1 .. Len(file) : Bound(file, q) => q <= pos
  BY ReplayIsComplete
<1>4. FileOK(file') /\ Len(file') = pos /\ \A p \in 1 .. pos : file'[p] = file[p]
  BY <1>1, <1>2, CutOK, Zenon
<1>5. Records(file') = Records(file)
  <2>1. \A q \in pos + 1 .. Len(file) : ~Bound(file, q)
    BY <1>2, <1>3, SMTT(30)
  <2>2. QED
    BY <1>1, <1>2, <2>1, RecordsGrow, Zenon
<1>6. Durable' = Durable
  <2>1. CASE synced <= pos
    <3>1. synced' = synced /\ SubSeq(file', 1, synced) = SubSeq(file, 1, synced)
      BY <1>1, <1>2, <1>4, <2>1, SMTT(30)
    <3>2. QED
      BY <3>1, Zenon DEF Durable
  <2>2. CASE pos < synced
    <3>1. PICK t : t = SubSeq(file, 1, synced)
      BY Zenon
    <3>2. FileOK(t) /\ Len(t) = synced /\ \A p \in 1 .. synced : t[p] = file[p]
      BY <1>2, <3>1, CutOK, SMTT(30)
    <3>3. file' = SubSeq(t, 1, pos) /\ SubSeq(file', 1, pos) = file' /\ synced' = pos
      <4>1. t \in Seq(Cell) /\ file' \in Seq(Cell)
        BY <1>4, <3>2, Zenon DEF FileOK
      <4>2. QED
        BY <1>1, <1>2, <1>4, <2>2, <3>2, <4>1, SMTT(30)
    <3>4. \A q \in pos + 1 .. Len(t) : ~Bound(t, q)
      BY <1>2, <1>3, <3>2, SMTT(30) DEF Bound
    <3>5. pos \in 0 .. Len(t)
      BY <1>2, <2>2, <3>2
    <3>6. Records(t) = Records(file')
      BY <3>2, <3>3, <3>4, <3>5, RecordsGrow, Zenon
    <3>7. QED
      BY <3>1, <3>3, <3>6, Zenon DEF Durable
  <2>3. QED
    BY <1>2, <2>1, <2>2
<1>7. QED
  BY <1>5, <1>6, SameLog

(* A crash loses records that are not durable, the youngest first.         *)
LEMMA CrashLog ==
    ASSUME WalInv, WalInv', Crash
    PROVE  \E n \in 0 .. Len(Rest) : Log!Lose(n)
<1>1. PICK n \in synced .. Len(file) : file' = SubSeq(file, 1, n)
  BY SMTT(60) DEF Crash
<1>2. FileOK(file) /\ file \in Seq(Cell) /\ synced \in Nat /\ synced' = synced /\ n \in 0 .. Len(file)
  <2>1. synced' = synced
    BY Zenon DEF Crash
  <2>2. n \in 0 .. Len(file)
    BY <1>1, SyncedInFile
  <2>3. QED
    BY <2>1, <2>2, SyncedInFile, Zenon
<1>3. Len(file') = n /\ file' \in Seq(Cell) /\ \A p \in 1 .. n : file'[p] = file[p]
  BY <1>1, <1>2, CutOK, Zenon DEF FileOK
<1>4. SubSeq(file', 1, synced) = SubSeq(file, 1, synced)
  BY <1>1, <1>2, <1>3
<1>5. Durable' = Durable
  BY <1>2, <1>4, Zenon DEF Durable
<1>6. PICK z \in Seq(Record) : Records(file) = Records(file') \o z
  BY <1>1, <1>2, RecordsGrow, Zenon
<1>7. QED
  BY <1>5, <1>6, LoseLog, Zenon

(* The other steps leave the file alone.                                   *)
LEMMA OthersLog ==
    ASSUME UNCHANGED <<file, synced>>
    PROVE  UNCHANGED <<Durable, Rest>>
  BY DEF Durable, Rest

(* The file is a log of whole records, as Shard takes it to be: it         *)
(* implements RecordLog, for any records and any number of crashes, if no  *)
(* I/O error leaves part of a record behind.  appendRecord stores a record *)
(* with its last cell, a Sync makes what is stored durable, finishReplay   *)
(* takes no record away, and a crash only the youngest that no Sync has    *)
(* covered.                                                                *)
THEOREM FileIsRecordLog ==
    ASSUME ~DirtyFaults
    PROVE  Spec => IsRecordLog
<1>1. Init => Log!Init
  <2>1. SUFFICES ASSUME Init PROVE Durable = <<>> /\ Rest = <<>>
    BY DEF Log!Init, Rest
  <2>2. file = <<>> /\ synced = 0 /\ WalInv
    BY <2>1, WalInit, SMTT(30) DEF Init
  <2>3. BoundOf(file, 0) /\ ~(0 < Len(file))
    BY <2>2 DEF WalInv, Bound, BoundOf
  <2>4. Records(file) = <<>>
    BY <2>3, FromAt, RecordsIsFrom, Zenon
  <2>5. SubSeq(file, 1, synced) = file
    BY <2>2
  <2>6. Durable = <<>>
    BY <2>4, <2>5, Zenon DEF Durable
  <2>7. QED
    BY <2>4, <2>6, SMTT(30) DEF Rest
<1>2. WalInv /\ WalInv' /\ [Next]_vars => [Log!Next]_<<Durable, Rest>>
  <2>1. SUFFICES ASSUME WalInv, WalInv', [Next]_vars
                 PROVE  Log!Next \/ UNCHANGED <<Durable, Rest>>
    OBVIOUS
  <2>2. (\E r \in Record : Log!Store(r)) => Log!Next
    BY Zenon DEF Log!Next
  <2>3. Log!Acknowledge => Log!Next
    BY Zenon DEF Log!Next
  <2>4. (\E n \in 0 .. Len(Rest) : Log!Lose(n)) => Log!Next
    BY Zenon DEF Log!Next, Rest
  <2>5. CASE WriteHeader \/ WriteKey \/ WriteValue
    BY <2>1, <2>2, <2>5, WriteLog, SMTT(30)
  <2>6. CASE Sync
    BY <2>1, <2>3, <2>6, SyncLog, SMTT(30)
  <2>7. CASE WriteFails \/ SyncFails
    BY <2>1, <2>7, FailStep, OthersLog, SMTT(30)
  <2>8. CASE ReplayEnd
    BY <2>1, <2>8, ReplayEndLog, SMTT(30)
  <2>9. CASE Crash
    BY <2>1, <2>4, <2>9, CrashLog, SMTT(30)
  <2>10. CASE OpenShard \/ ReplayRecord \/ UNCHANGED vars \/ \E r \in Record : Lock(r)
    BY <2>10, OthersLog, Zenon DEF OpenShard, ReplayRecord, vars, Lock
  <2>11. QED
    BY <2>1, <2>5, <2>6, <2>7, <2>8, <2>9, <2>10, Zenon DEF Next
<1>3. QED
  BY <1>1, <1>2, WalAlways, PTL DEF Spec, IsRecordLog, Log!Spec, Rest
=============================================================================
