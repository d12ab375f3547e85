-------------------------- MODULE FsWriteContents --------------------------
(***************************************************************************)
(* Proofs about the contents of a file of the drive: as long as none of    *)
(* the ways to damage a file that FsWrite names has been taken, reads       *)
(* return what was written last, and the server and the page cache get      *)
(* nothing else than what a program wrote, for programs of any length,     *)
(* files and writes of any size and any number of restarts, expiries,      *)
(* faults and late diffs.                                                  *)
(***************************************************************************)
EXTENDS FsWriteProofs, FsWriteInvariant

----------------------------------------------------------------------------
(* Contents.                                                              *)

LEMMA SameContent ==
  ASSUME NEW c \in Contents, NEW d \in Contents, Len(c) = Len(d),
         \A k \in 1..Len(c) : c[k] = d[k]
  PROVE  c = d
BY DEF Contents

LEMMA Resized ==
  ASSUME NEW c \in Contents, NEW n \in Nat
  PROVE  /\ Resize(c, n) \in Contents /\ Len(Resize(c, n)) = n
         /\ \A k \in 1..n : Resize(c, n)[k] = At(c, k)
<1> DEFINE r == [k \in 1..n |-> IF k <= Len(c) THEN c[k] ELSE 0]
<1>1. \A k \in 1..n : (IF k <= Len(c) THEN c[k] ELSE 0) \in Int
  BY DEF Contents
<1>2. r \in Seq(Int)
  BY <1>1
<1>3. Len(r) = n
  OBVIOUS
<1> QED BY <1>2, <1>3 DEF Resize, At, Contents

LEMMA PutThere ==
  ASSUME NEW c \in Contents, NEW at \in Nat, NEW v \in Int
  PROVE  /\ Put(c, at, v) \in Contents /\ Len(Put(c, at, v)) = Larger(Len(c), at)
         /\ \A k \in 1..Len(Put(c, at, v)) :
              Put(c, at, v)[k] = IF k = at THEN v ELSE At(c, k)
<1> DEFINE n == Larger(Len(c), at)
           r == Resize(c, n)
<1>1. n \in Nat
  BY DEF Larger, Contents
<1> HIDE DEF n
<1>2. r \in Contents /\ Len(r) = n /\ \A k \in 1..n : r[k] = At(c, k)
  BY <1>1, Resized
<1> HIDE DEF r
<1>3. [r EXCEPT ![at] = v] \in Seq(Int) /\ Len([r EXCEPT ![at] = v]) = n
  <2> DEFINE z == [r EXCEPT ![at] = v]
  <2>1. DOMAIN z = 1..n /\ \A k \in 1..n : z[k] \in Int
    BY <1>2 DEF Contents
  <2>2. z \in [1..n -> Int]
    BY <1>2, <2>1 DEF Contents
  <2> HIDE DEF z
  <2>3. z \in Seq(Int) /\ Len(z) = n
    BY <1>1, <2>2
  <2> QED BY <2>3 DEF z
<1>4. \A k \in 1..n : [r EXCEPT ![at] = v][k] = IF k = at THEN v ELSE r[k]
  BY <1>2 DEF Contents
<1> QED BY <1>2, <1>3, <1>4 DEF Put, Contents, n, r

\* What a row's file shows.
LEMMA ContentIs ==
  ASSUME NEW base \in Contents, NEW f, DataFits(f), NEW type \in Types
  PROVE  /\ type = "creat" => Content(type, base, f) = f.d
         /\ Content(type, base, f) \in Contents /\ Len(Content(type, base, f)) = Len(f.d)
         /\ type = "modify" => \A k \in 1..Len(f.d) :
              Content(type, base, f)[k] = IF k \in f.i THEN f.d[k] ELSE At(base, k)
<1>1. CASE type = "creat"
  BY <1>1 DEF Content, Shown, DataFits
<1>2. CASE type = "modify"
  <2> DEFINE n == Len(f.d)
             c == [k \in 1..n |-> IF TRUE /\ k \in f.i THEN At(f.d, k) ELSE At(base, k)]
  <2>1. Content(type, base, f) = c
    BY <1>2 DEF Content, Shown
  <2>2. n \in Nat
    BY DEF DataFits, Contents
  <2>3. \A k \in 1..n : At(f.d, k) = f.d[k] /\ f.d[k] \in Int /\ At(base, k) \in Int
    BY DEF At, DataFits, Contents
  <2> HIDE DEF n
  <2>4. c \in Contents /\ Len(c) = n
    BY <2>2, <2>3 DEF Contents
  <2>5. \A k \in 1..n : c[k] = IF k \in f.i THEN f.d[k] ELSE At(base, k)
    BY <2>3
  <2> HIDE DEF c
  <2> QED BY <1>2, <2>1, <2>4, <2>5 DEF n
<1> QED BY <1>1, <1>2 DEF Types

----------------------------------------------------------------------------
(* What a write or a change of size does to the open file and its data.    *)

\* The content after a call.
After(c, last) ==
  CASE c.op = "write" -> Put(last, c.at, c.v)
    [] c.op = "size" -> Resize(last, c.at)
    [] c.op = "trunc" -> <<>>

\* A data file shows c where it has it, and the revision elsewhere.
Covers(base, f, c) ==
  /\ Len(c) = Len(f.d)
  /\ \A k \in 1..Len(f.d) : c[k] = IF k \in f.i THEN f.d[k] ELSE At(base, k)

LEMMA RightIs ==
  ASSUME NEW r, r.type \in Types, r.base \in Contents, NEW f, DataFits(f), NEW c \in Contents
  PROVE  /\ r.type = "creat" => (Right(r, f, c) <=> f.d = c)
         /\ r.type = "modify" => (Right(r, f, c) <=> Covers(r.base, f, c) /\ Sound(r.type, r.base, f))
<1>1. CASE r.type = "creat"
  BY <1>1, ContentIs DEF Right, Sound
<1>2. CASE r.type = "modify"
  <2> DEFINE d == Content(r.type, r.base, f)
  <2>1. /\ d \in Contents /\ Len(d) = Len(f.d)
        /\ \A k \in 1..Len(f.d) : d[k] = IF k \in f.i THEN f.d[k] ELSE At(r.base, k)
    BY <1>2, ContentIs
  <2> HIDE DEF d
  <2>2. Covers(r.base, f, c) => d = c
    BY <2>1, SameContent DEF Covers
  <2>3. d = c => Covers(r.base, f, c)
    BY <2>1 DEF Covers
  <2> QED BY <1>2, <2>2, <2>3 DEF Right, d
<1> QED BY <1>1, <1>2 DEF Types

\* The open file agrees with its data file.
Matches(o, f) == o.size = Len(f.d) /\ (~o.newfile => o.local = f.i)
Sized(o) ==
  /\ DOMAIN o = OfFields /\ o.size \in Nat /\ o.local \subseteq Int
  /\ o.newfile \in BOOLEAN
\* What a write leaves of the open file.
Keeps(a, b) ==
  /\ a.newfile = b.newfile /\ a.modified = b.modified /\ a.released = b.released
  /\ a.hash = b.hash /\ a.initial = b.initial
Serves(o, f, r, c) ==
  /\ Sized(o) /\ DataFits(f) /\ Matches(o, f) /\ c \in Contents
  /\ r.type \in Types /\ r.base \in Contents /\ (o.newfile <=> r.type = "creat")
  /\ Right(r, f, c)
Served(s, o, r, c) == DOMAIN s = {"o", "f"} /\ Serves(s.o, s.f, r, c) /\ Keeps(s.o, o)

LEMMA LargerFile ==
  ASSUME NEW o, NEW f, NEW r, NEW c, Serves(o, f, r, c), ~o.newfile, NEW n \in Nat, n > o.size
  PROVE  Served(psync_fs_modfile_check_size_ok([o |-> o, f |-> f], n), o, r, Resize(c, n))
<1> DEFINE s == [o |-> o, f |-> f]
           added == (o.size + 1)..n
           d == Resize(f.d, n)
           i == f.i \cup added
           local == o.local \cup added
           g == [o EXCEPT !.local = local, !.size = n]
           h == [d |-> d, i |-> i]
<1>1. psync_fs_modfile_check_size_ok(s, n) = [s EXCEPT !.f = h, !.o = g]
  <2>1. ~(s.o.size >= n) /\ ~s.o.newfile
    BY DEF Serves, Sized
  <2> QED BY <2>1 DEF psync_fs_modfile_check_size_ok
<1>2. /\ f.d \in Contents /\ c \in Contents /\ o.size = Len(f.d) /\ o.size \in Nat /\ f.i \subseteq Int
      /\ r.type = "modify" /\ r.type \in Types /\ r.base \in Contents /\ o.local = f.i
  BY DEF Serves, Sized, DataFits, Matches, Types
<1>3. /\ d \in Contents /\ Len(d) = n /\ \A k \in 1..n : d[k] = At(f.d, k)
      /\ Resize(c, n) \in Contents /\ Len(Resize(c, n)) = n /\ \A k \in 1..n : Resize(c, n)[k] = At(c, k)
  BY <1>2, Resized
<1>4. Covers(r.base, f, c) /\ Sound(r.type, r.base, f)
  BY <1>2, RightIs DEF Serves
<1>5. DataFits(h)
  BY <1>2, <1>3 DEF DataFits
<1>6. h.d = d /\ h.i = i
  OBVIOUS
<1>7. \A k \in 1..n : k \notin i => k \in 1..Len(f.d) /\ k \notin f.i
  BY <1>2
<1>8. \A k \in 1..n : k \in added \/ k \in 1..Len(f.d)
  BY <1>2
<1>9. \A k \in added : At(f.d, k) = 0 /\ At(c, k) = 0
  BY <1>2, <1>4 DEF At, Covers
<1>10. \A k \in 1..Len(f.d) : At(f.d, k) = f.d[k] /\ At(c, k) = c[k] /\ k \in 1..n
  BY <1>2, <1>4 DEF At, Covers
<1>11. Covers(r.base, h, Resize(c, n))
  <2> HIDE DEF d, h
  <2>1. \A k \in 1..n : Resize(c, n)[k] = IF k \in i THEN d[k] ELSE At(r.base, k)
    <3> SUFFICES ASSUME NEW k \in 1..n
                 PROVE  Resize(c, n)[k] = IF k \in i THEN d[k] ELSE At(r.base, k)
      OBVIOUS
    <3>1. CASE k \in added
      BY <3>1, <1>3, <1>9
    <3>2. CASE k \in 1..Len(f.d) /\ k \notin added
      <4>1. k \in i <=> k \in f.i
        BY <3>2
      <4> HIDE DEF i
      <4> QED BY <3>2, <4>1, <1>3, <1>4, <1>10 DEF Covers
    <3> QED BY <3>1, <3>2, <1>8
  <2> QED BY <2>1, <1>3, <1>6 DEF Covers
<1>12. Sound(r.type, r.base, h)
  <2> HIDE DEF h, d
  <2> QED BY <1>2, <1>3, <1>4, <1>6, <1>7 DEF Sound
<1>13. Right(r, h, Resize(c, n))
  BY <1>2, <1>3, <1>5, <1>11, <1>12, RightIs
<1> HIDE DEF d, i, h
<1>14. local \subseteq Int /\ local = i
  BY <1>2 DEF i
<1> HIDE DEF local
<1>15. /\ DOMAIN g = OfFields /\ g.size = n /\ g.local = local
       /\ g.newfile = o.newfile /\ g.modified = o.modified /\ g.released = o.released
       /\ g.hash = o.hash /\ g.initial = o.initial
  BY DEF Serves, Sized, OfFields
<1> HIDE DEF g
<1>16. /\ DOMAIN [s EXCEPT !.f = h, !.o = g] = {"o", "f"}
       /\ [s EXCEPT !.f = h, !.o = g].o = g /\ [s EXCEPT !.f = h, !.o = g].f = h
  OBVIOUS
<1>17. Serves(g, h, r, Resize(c, n)) /\ Keeps(g, o)
  BY <1>2, <1>3, <1>5, <1>6, <1>13, <1>14, <1>15 DEF Serves, Sized, Matches, Keeps
<1> HIDE DEF s
<1> QED BY <1>1, <1>16, <1>17 DEF Served, s

CutTo(s, n) == [s EXCEPT !.f.d = Resize(@, n), !.o.size = n]

\* Both parts of an open file that is cut.
LEMMA CutParts ==
  ASSUME NEW o, NEW f, NEW n, NEW d, d = Resize(f.d, n), NEW s, s = [o |-> o, f |-> f]
  PROVE  CutTo(s, n) = [o |-> [o EXCEPT !.size = n], f |-> [f EXCEPT !.d = d]]
<1> DEFINE g == [f EXCEPT !.d = d]
           small == [o EXCEPT !.size = n]
           t == [s EXCEPT !.f.d = d]
<1>1. t = [o |-> o, f |-> g]
  OBVIOUS
<1>2. CutTo(s, n) = [s EXCEPT !.f.d = d, !.o.size = n]
  BY DEF CutTo
<1>3. [s EXCEPT !.f.d = d, !.o.size = n] = [t EXCEPT !.o.size = n]
  OBVIOUS
<1> HIDE DEF t, g
<1>4. [t EXCEPT !.o.size = n] = [o |-> small, f |-> g]
  BY <1>1
<1> HIDE DEF small
<1> QED BY <1>2, <1>3, <1>4 DEF small, g

LEMMA CutAgain ==
  ASSUME NEW o, NEW f, DOMAIN f = {"d", "i"}, NEW n, NEW d, d = Resize(f.d, n), Resize(d, n) = d,
         NEW s, s = [o |-> o, f |-> f], NEW e, e = [s EXCEPT !.f.d = Resize(@, n)]
  PROVE  CutTo(e, n) = CutTo(s, n)
<1> DEFINE g == [f EXCEPT !.d = d]
           small == [o EXCEPT !.size = n]
<1>1. e = [o |-> o, f |-> g]
  OBVIOUS
<1>2. g.d = d /\ [g EXCEPT !.d = d] = g
  OBVIOUS
<1>3. CutTo(s, n) = [o |-> small, f |-> g]
  BY CutParts
<1> HIDE DEF g
<1>4. CutTo(e, n) = [o |-> small, f |-> [g EXCEPT !.d = d]]
  BY <1>1, <1>2, CutParts
<1> QED BY <1>2, <1>3, <1>4
PutUnit(s, at, v) ==
  [s EXCEPT !.f = [d |-> Put(@.d, at, v), i |-> @.i \cup {at}],
            !.o = [s.o EXCEPT !.local = @ \cup {at}, !.size = Larger(@, at)]]

\* The same for a file that becomes shorter, or is a new one.
LEMMA ShorterFile ==
  ASSUME NEW o, NEW f, NEW r, NEW c, Serves(o, f, r, c), NEW n \in Nat, o.newfile \/ n <= o.size,
         NEW s, DOMAIN s = {"o", "f"}, s.o = o, s.f = f
  PROVE  Served(CutTo(s, n), o, r, Resize(c, n))
<1> DEFINE d == Resize(f.d, n)
           g == [o EXCEPT !.size = n]
           h == [f EXCEPT !.d = d]
           z == CutTo(s, n)
<1>1. DOMAIN z = {"o", "f"} /\ z.o = g /\ z.f = h
  BY DEF CutTo
<1>2. /\ f.d \in Contents /\ c \in Contents /\ o.size = Len(f.d) /\ o.size \in Nat /\ f.i \subseteq Int
      /\ r.type \in Types /\ r.base \in Contents /\ (o.newfile <=> r.type = "creat")
      /\ DataFits(f)
  BY DEF Serves, Sized, DataFits, Matches
<1>3. /\ d \in Contents /\ Len(d) = n /\ \A k \in 1..n : d[k] = At(f.d, k)
      /\ Resize(c, n) \in Contents /\ Len(Resize(c, n)) = n /\ \A k \in 1..n : Resize(c, n)[k] = At(c, k)
  BY <1>2, Resized
<1>4. h.d = d /\ h.i = f.i /\ DOMAIN h = {"d", "i"}
  BY <1>2 DEF DataFits
<1>5. DataFits(h)
  BY <1>2, <1>3, <1>4 DEF DataFits
<1>6. Right(r, h, Resize(c, n))
  <2>1. CASE r.type = "creat"
    <3>1. f.d = c
      BY <1>2, <2>1, RightIs DEF Serves
    <3> HIDE DEF h
    <3> QED BY <1>2, <1>3, <1>4, <1>5, <2>1, <3>1, RightIs
  <2>2. CASE r.type = "modify"
    <3>1. Covers(r.base, f, c) /\ Sound(r.type, r.base, f) /\ n <= Len(f.d)
      BY <1>2, <2>2, RightIs DEF Serves
    <3>2. \A k \in 1..n : k \in 1..Len(f.d) /\ At(f.d, k) = f.d[k] /\ At(c, k) = c[k]
      BY <1>2, <3>1 DEF At, Covers
    <3> HIDE DEF h, d
    <3>3. Covers(r.base, h, Resize(c, n))
      BY <1>3, <1>4, <3>1, <3>2 DEF Covers
    <3>4. Sound(r.type, r.base, h)
      BY <1>3, <1>4, <3>1, <3>2 DEF Sound
    <3> QED BY <1>2, <1>3, <1>5, <2>2, <3>3, <3>4, RightIs
  <2> QED BY <1>2, <2>1, <2>2 DEF Types
<1>7. /\ DOMAIN g = OfFields /\ g.size = n /\ g.local = o.local
      /\ g.newfile = o.newfile /\ g.modified = o.modified /\ g.released = o.released
      /\ g.hash = o.hash /\ g.initial = o.initial
  BY DEF Serves, Sized, OfFields
<1> HIDE DEF g, h, d, z
<1>8. Serves(g, h, r, Resize(c, n)) /\ Keeps(g, o)
  BY <1>2, <1>3, <1>4, <1>5, <1>6, <1>7 DEF Serves, Sized, Matches, Keeps
<1> QED BY <1>1, <1>8 DEF Served, z

\* The same for one unit of a file that is long enough.
LEMMA UnitWritten ==
  ASSUME NEW o, NEW f, NEW r, NEW c, Serves(o, f, r, c), ~o.newfile,
         NEW at \in Nat, NEW v \in Int, at <= o.size + 1, NEW s, DOMAIN s = {"o", "f"}, s.o = o, s.f = f
  PROVE  Served(PutUnit(s, at, v), o, r, Put(c, at, v))
<1> DEFINE d == Put(f.d, at, v)
           i == f.i \cup {at}
           local == o.local \cup {at}
           size == Larger(o.size, at)
           g == [o EXCEPT !.local = local, !.size = size]
           h == [d |-> d, i |-> i]
           z == PutUnit(s, at, v)
<1>1. DOMAIN z = {"o", "f"} /\ z.o = g /\ z.f = h
  <2>1. z = [s EXCEPT !.f = h, !.o = g]
    BY DEF PutUnit
  <2> HIDE DEF g, h, z
  <2> QED BY <2>1
<1>2. /\ f.d \in Contents /\ c \in Contents /\ o.size = Len(f.d) /\ o.size \in Nat /\ f.i \subseteq Int
      /\ r.type \in Types /\ r.type = "modify" /\ r.base \in Contents /\ o.local = f.i
  BY DEF Serves, Sized, DataFits, Matches, Types
<1>3. Covers(r.base, f, c) /\ Sound(r.type, r.base, f) /\ Len(c) = Len(f.d)
  BY <1>2, RightIs DEF Serves, Covers
<1>4. /\ d \in Contents /\ Len(d) = size /\ Put(c, at, v) \in Contents /\ Len(Put(c, at, v)) = size
      /\ \A k \in 1..size : d[k] = IF k = at THEN v ELSE At(f.d, k)
      /\ \A k \in 1..size : Put(c, at, v)[k] = IF k = at THEN v ELSE At(c, k)
  <2>1. size = Larger(Len(f.d), at) /\ size = Larger(Len(c), at)
    BY <1>2, <1>3
  <2>2. /\ d \in Contents /\ Len(d) = size
        /\ \A k \in 1..Len(d) : d[k] = IF k = at THEN v ELSE At(f.d, k)
    <3> HIDE DEF size
    <3>1. f.d \in Contents
      BY <1>2
    <3>2. size = Larger(Len(f.d), at)
      BY <2>1
    <3> QED BY <3>1, <3>2, PutThere
  <2>3. /\ Put(c, at, v) \in Contents /\ Len(Put(c, at, v)) = size
        /\ \A k \in 1..Len(Put(c, at, v)) : Put(c, at, v)[k] = IF k = at THEN v ELSE At(c, k)
    BY <1>2, <2>1, PutThere
  <2> HIDE DEF size, d
  <2> QED BY <2>2, <2>3
<1>5. \A k \in 1..size : k = at \/ (k \in 1..Len(f.d) /\ At(f.d, k) = f.d[k] /\ At(c, k) = c[k])
  BY <1>2, <1>3 DEF Larger, At
<1>6. size \in Nat
  BY <1>2 DEF Larger
<1> HIDE DEF size
<1>7. DataFits(h) /\ h.d = d /\ h.i = i
  BY <1>2, <1>4 DEF DataFits
<1> HIDE DEF d, h
<1>8. Covers(r.base, h, Put(c, at, v))
  BY <1>3, <1>4, <1>5, <1>7 DEF Covers
<1>9. Sound(r.type, r.base, h)
  BY <1>3, <1>4, <1>5, <1>7 DEF Sound
<1>10. Right(r, h, Put(c, at, v))
  BY <1>2, <1>4, <1>7, <1>8, <1>9, RightIs
<1>11. local \subseteq Int /\ local = i
  BY <1>2
<1> HIDE DEF local, i
<1>12. /\ DOMAIN g = OfFields /\ g.size = size /\ g.local = local
       /\ g.newfile = o.newfile /\ g.modified = o.modified /\ g.released = o.released
       /\ g.hash = o.hash /\ g.initial = o.initial
  BY DEF Serves, Sized, OfFields
<1> HIDE DEF g, z
<1>13. Serves(g, h, r, Put(c, at, v)) /\ Keeps(g, o)
  BY <1>2, <1>4, <1>6, <1>7, <1>10, <1>11, <1>12 DEF Serves, Sized, Matches, Keeps
<1> QED BY <1>1, <1>13 DEF Served, z

LEMMA NewFileWritten ==
  ASSUME NEW o, NEW f, NEW r, NEW c, Serves(o, f, r, c), o.newfile,
         NEW at \in Nat, NEW v \in Int
  PROVE  Served(psync_fs_write_newfile([o |-> o, f |-> f], at, v), o, r, Put(c, at, v))
<1> DEFINE s == [o |-> o, f |-> f]
           d == Put(f.d, at, v)
           size == Larger(o.size, at)
           g == [o EXCEPT !.size = size]
           h == [f EXCEPT !.d = d]
           z == [s EXCEPT !.f.d = Put(@, at, v), !.o.size = Larger(@, at)]
<1>1. DOMAIN z = {"o", "f"} /\ z.o = g /\ z.f = h
  OBVIOUS
<1>2. /\ f.d \in Contents /\ c \in Contents /\ o.size = Len(f.d) /\ o.size \in Nat /\ f.i \subseteq Int
      /\ r.type \in Types /\ r.type = "creat" /\ r.base \in Contents /\ DOMAIN f = {"d", "i"}
      /\ DataFits(f)
  BY DEF Serves, Sized, DataFits, Matches, Types
<1>3. f.d = c
  BY <1>2, RightIs DEF Serves
<1>4. /\ d \in Contents /\ Len(d) = size
  BY <1>2, PutThere
<1>5. size \in Nat
  BY <1>2 DEF Larger
<1> HIDE DEF size
<1>6. DataFits(h) /\ h.d = d /\ h.i = f.i
  BY <1>2, <1>4 DEF DataFits
<1> HIDE DEF h
<1>7. Right(r, h, d)
  BY <1>2, <1>4, <1>6, RightIs
<1>8. /\ DOMAIN g = OfFields /\ g.size = size /\ g.local = o.local
      /\ g.newfile = o.newfile /\ g.modified = o.modified /\ g.released = o.released
      /\ g.hash = o.hash /\ g.initial = o.initial
  BY DEF Serves, Sized, OfFields
<1>9. psync_fs_write_newfile(s, at, v) = z
  BY DEF psync_fs_write_newfile
<1> HIDE DEF g, z, s
<1>10. Serves(g, h, r, d) /\ Keeps(g, o)
  <2> HIDE DEF d
  <2> QED BY <1>2, <1>4, <1>5, <1>6, <1>7, <1>8 DEF Serves, Sized, Matches, Keeps
<1> QED BY <1>1, <1>3, <1>9, <1>10 DEF Served, s

\* What a write or a change of size does to the data file and the open file is
\* what the program expects of the content.
LEMMA AppliedRight ==
  ASSUME NEW o, NEW f, NEW r, NEW last, Serves(o, f, r, last),
         NEW c \in Operations, c.op \in {"write", "size"}
  PROVE  Served(Applied([o |-> o, f |-> f], c), o, r, After(c, last))
<1> DEFINE s == [o |-> o, f |-> f]
           n == c.at
<1>1. n \in Nat /\ c.v \in Int /\ o.size \in Nat /\ last \in Contents /\ Len(last) \in Nat
  BY DEF Operations, Serves, Sized, Contents
<1>2. CASE c.op = "size"
  <2> DEFINE e == psync_fs_modfile_check_size_ok(s, n)
  <2>1. Applied(s, c) = CutTo(e, n) /\ After(c, last) = Resize(last, n)
    BY <1>2 DEF Applied, psync_fs_ftruncate_of_locked, After, CutTo
  <2>2. CASE o.size >= n
    <3>1. e = s
      BY <2>2 DEF psync_fs_modfile_check_size_ok
    <3>2. n <= o.size /\ DOMAIN s = {"o", "f"} /\ s.o = o /\ s.f = f
      BY <1>1, <2>2
    <3> HIDE DEF e, s
    <3> QED BY <1>1, <2>1, <3>1, <3>2, ShorterFile DEF s
  <2>3. CASE ~(o.size >= n) /\ o.newfile
    <3> DEFINE d == Resize(f.d, n)
               h == [f EXCEPT !.d = d]
    <3>1. e = [s EXCEPT !.f.d = Resize(@, n)]
      BY <2>3 DEF psync_fs_modfile_check_size_ok
    <3>2. /\ f.d \in Contents /\ d \in Contents /\ Len(d) = n /\ DOMAIN f = {"d", "i"}
          /\ Resize(d, n) \in Contents /\ Len(Resize(d, n)) = n
          /\ \A k \in 1..n : Resize(d, n)[k] = d[k]
      <4>1. f.d \in Contents /\ DOMAIN f = {"d", "i"}
        BY DEF Serves, DataFits
      <4>2. d \in Contents /\ Len(d) = n
        BY <1>1, <4>1, Resized
      <4> HIDE DEF d
      <4>3. Resize(d, n) \in Contents /\ Len(Resize(d, n)) = n
            /\ \A k \in 1..n : Resize(d, n)[k] = At(d, k)
        BY <1>1, <4>2, Resized
      <4>4. \A k \in 1..n : At(d, k) = d[k]
        BY <1>1, <4>2 DEF At
      <4> QED BY <4>1, <4>2, <4>3, <4>4
    <3>3. Resize(d, n) = d
      <4> HIDE DEF d
      <4> QED BY <3>2, SameContent
    <3>4. CutTo(e, n) = CutTo(s, n)
      <4> HIDE DEF d, e, s
      <4> QED BY <3>1, <3>2, <3>3, CutAgain DEF d, s
    <3>5. DOMAIN s = {"o", "f"} /\ s.o = o /\ s.f = f
      OBVIOUS
    <3> HIDE DEF e, s
    <3> QED BY <1>1, <2>1, <2>3, <3>4, <3>5, ShorterFile DEF s
  <2>4. CASE ~(o.size >= n) /\ ~o.newfile
    <3>1. Served(e, o, r, Resize(last, n))
      BY <1>1, <2>4, LargerFile
    <3> DEFINE g == e.o
               h == e.f
               l == Resize(last, n)
    <3>2. DOMAIN e = {"o", "f"} /\ e.o = g /\ e.f = h
      <4> HIDE DEF e
      <4> QED BY <3>1 DEF Served
    <3>3. g.size = n /\ Serves(g, h, r, l)
      <4>1. l \in Contents /\ Len(l) = n
        BY <1>1, Resized
      <4>2. r.type = "modify" /\ r.type \in Types /\ r.base \in Contents /\ DataFits(h)
        BY <2>4, <3>1 DEF Served, Serves, Types, Keeps
      <4> HIDE DEF e, l
      <4>3. Len(l) = Len(h.d)
        <5> HIDE DEF g, h
        <5>1. Right(r, h, l)
          BY <3>1 DEF Served, Serves, g, h, l
        <5> QED BY <4>1, <4>2, <5>1, RightIs DEF Covers
      <4> QED BY <3>1, <4>1, <4>3 DEF Served, Serves, Matches, l
    <3> HIDE DEF e, g, h
    <3>4. Served(CutTo(e, n), g, r, Resize(l, n))
      BY <1>1, <3>2, <3>3, ShorterFile
    <3>5. Resize(l, n) = l
      <4>1. l \in Contents /\ Len(l) = n
        BY <1>1, Resized
      <4> HIDE DEF l
      <4>2. Resize(l, n) \in Contents /\ Len(Resize(l, n)) = n
            /\ \A k \in 1..n : Resize(l, n)[k] = At(l, k)
        BY <1>1, <4>1, Resized
      <4>3. \A k \in 1..n : At(l, k) = l[k]
        BY <1>1, <4>1 DEF At
      <4> QED BY <4>1, <4>2, <4>3, SameContent
    <3>6. Keeps(g, o)
      BY <3>1 DEF Served, g
    <3> QED BY <2>1, <3>4, <3>5, <3>6 DEF Served, Keeps
  <2> QED BY <2>2, <2>3, <2>4
<1>3. CASE c.op = "write" /\ o.newfile
  <2>1. Applied(s, c) = psync_fs_write_newfile(s, n, c.v) /\ After(c, last) = Put(last, n, c.v)
    BY <1>3 DEF Applied, After
  <2> HIDE DEF s
  <2> QED BY <1>1, <1>3, <2>1, NewFileWritten DEF s
<1>4. CASE c.op = "write" /\ ~o.newfile
  <2> DEFINE e == psync_fs_modfile_check_size_ok(s, n - 1)
             v == c.v
  <2>1. Applied(s, c) = PutUnit(e, n, v) /\ After(c, last) = Put(last, n, c.v)
    BY <1>4 DEF Applied, psync_fs_write_modified, After, PutUnit
  <2>2. CASE o.size >= n - 1
    <3>1. e = s
      BY <2>2 DEF psync_fs_modfile_check_size_ok
    <3>2. n <= o.size + 1 /\ DOMAIN s = {"o", "f"} /\ s.o = o /\ s.f = f
      BY <1>1, <2>2
    <3> HIDE DEF e, s
    <3>4. Served(PutUnit(s, n, v), o, r, Put(last, n, v))
      BY <1>1, <1>4, <3>2, UnitWritten
    <3> QED BY <2>1, <3>1, <3>4 DEF s
  <2>3. CASE ~(o.size >= n - 1)
    <3> DEFINE g == e.o
               h == e.f
               l == Resize(last, n - 1)
    <3>1. Served(e, o, r, l) /\ n - 1 \in Nat
      BY <1>1, <1>4, <2>3, LargerFile
    <3>2. l \in Contents /\ Len(l) = n - 1 /\ \A k \in 1..(n - 1) : l[k] = At(last, k)
      BY <1>1, <3>1, Resized
    <3>3. r.type = "modify" /\ r.type \in Types /\ r.base \in Contents /\ DataFits(h) /\ ~g.newfile
          /\ DOMAIN e = {"o", "f"} /\ Serves(g, h, r, l) /\ Keeps(g, o)
      BY <1>4, <3>1 DEF Served, Serves, Types, Keeps
    <3>4. g.size = n - 1
      <4> HIDE DEF e, l, g, h
      <4>1. Right(r, h, l)
        BY <3>3 DEF Serves
      <4>2. Len(l) = Len(h.d)
        BY <3>2, <3>3, <4>1, RightIs DEF Covers
      <4> QED BY <3>2, <3>3, <4>2 DEF Serves, Matches
    <3>6. n <= g.size + 1 /\ e.o = g /\ e.f = h
      BY <1>1, <3>4
    <3> HIDE DEF e, g, h, l
    <3>7. Served(PutUnit(e, n, v), g, r, Put(l, n, v))
      BY <1>1, <3>3, <3>6, UnitWritten
    <3>8. Put(l, n, v) = Put(last, n, v)
      <4> DEFINE a == Put(l, n, v)
                 b == Put(last, n, v)
      <4>1. Len(last) < n - 1
        <5>1. Len(last) = Len(f.d) /\ o.size = Len(f.d)
          <6>1. r.type = "modify" /\ r.type \in Types /\ r.base \in Contents /\ DataFits(f)
                /\ Right(r, f, last) /\ Matches(o, f)
            BY <1>4 DEF Serves, Types
          <6> QED BY <1>1, <6>1, RightIs DEF Covers, Matches
        <5> QED BY <1>1, <2>3, <5>1
      <4>2. /\ a \in Contents /\ Len(a) = n /\ \A k \in 1..n : a[k] = IF k = n THEN v ELSE At(l, k)
            /\ b \in Contents /\ Len(b) = n /\ \A k \in 1..n : b[k] = IF k = n THEN v ELSE At(last, k)
        <5>1. Larger(Len(l), n) = n /\ Larger(Len(last), n) = n
          BY <1>1, <3>1, <3>2, <4>1 DEF Larger
        <5> HIDE DEF a, b
        <5> QED BY <1>1, <3>2, <5>1, PutThere DEF a, b
      <4>3. \A k \in 1..n : k # n => At(l, k) = At(last, k)
        BY <1>1, <3>1, <3>2 DEF At
      <4> HIDE DEF a, b
      <4>4. a = b
        BY <4>2, <4>3, SameContent
      <4> QED BY <4>4 DEF a, b
    <3> QED BY <2>1, <3>3, <3>7, <3>8 DEF Served, Keeps
  <2> QED BY <2>2, <2>3
<1> QED BY <1>2, <1>3, <1>4

----------------------------------------------------------------------------
(* Pages.                                                                 *)

LEMMA UnitHasPage ==
  ASSUME NEW n \in Nat, NEW k \in 1..n, NEW m, m = 1 + (k - 1) \div PageUnits
  PROVE  m \in 1..NumPages(n) /\ k \in Units(n, m)
<1>1. PageUnits \in Nat /\ PageUnits > 0
  BY SizesAssumption
<1> DEFINE q == (k - 1) \div PageUnits
           z == (n + PageUnits - 1) \div PageUnits
           r == (k - 1) % PageUnits
           y == (n + PageUnits - 1) % PageUnits
<1>2. /\ q \in Int /\ r \in 0..(PageUnits - 1) /\ k - 1 = PageUnits * q + r
      /\ z \in Int /\ y \in 0..(PageUnits - 1) /\ n + PageUnits - 1 = PageUnits * z + y
  BY <1>1
<1> HIDE DEF q, r, z, y
<1>3. q >= 0
  <2>1. q < 0 => PageUnits * q <= - PageUnits
    BY <1>1, <1>2
  <2> QED BY <1>1, <1>2, <2>1
<1>4. q + 1 <= z
  <2>1. q + 1 > z => PageUnits * q >= PageUnits * z
    BY <1>1, <1>2
  <2> QED BY <1>1, <1>2, <2>1
<1>5. (m - 1) * PageUnits = PageUnits * q /\ m * PageUnits = PageUnits * q + PageUnits
  BY <1>1, <1>2 DEF q
<1>6. k >= (m - 1) * PageUnits + 1 /\ k <= m * PageUnits
  BY <1>1, <1>2, <1>5
<1> QED BY <1>1, <1>2, <1>3, <1>4, <1>5, <1>6 DEF NumPages, Units, Smaller, q, z

\* All units of a file are on cached pages, or the copy is not whole.
LEMMA CopiedWhole ==
  ASSUME TruePages(tab.pages), NEW h \in Contents, ppagecache_have_all_pages(h)
  PROVE  ppagecache_copy_to_file(h) = h
<1> DEFINE page(k) == 1 + (k - 1) \div PageUnits
           copied == {k \in 1..Len(h) : \A n \in 1..page(k) : CachedPage(tab.pages, h, n) # {}}
           one(k) == CHOOSE q \in CachedPage(tab.pages, h, page(k)) : TRUE
<1>1. Len(h) \in Nat /\ PageUnits \in Nat /\ PageUnits > 0
  BY SizesAssumption DEF Contents
<1>2. ASSUME NEW k \in 1..Len(h)
      PROVE  page(k) \in 1..NumPages(Len(h)) /\ k \in Units(Len(h), page(k))
  BY <1>1, UnitHasPage
<1> HIDE DEF page
<1>3. NumPages(Len(h)) \in Int
  BY <1>1 DEF NumPages
<1>4. copied = 1..Len(h)
  BY <1>2, <1>3 DEF ppagecache_have_all_pages
<1>5. Cardinality(copied) = Len(h)
  <2>1. Cardinality(1..Len(h)) = Len(h)
    <3>1. 1 \in Int /\ Len(h) \in Int
      BY <1>1
    <3>2. Cardinality(1..Len(h)) = IF 1 > Len(h) THEN 0 ELSE Len(h) - 1 + 1
      BY <3>1, FS_Interval
    <3> QED BY <1>1, <3>2
  <2> QED BY <1>4, <2>1
<1>6. ASSUME NEW k \in 1..Len(h) PROVE one(k).data[k] = h[k]
  <2>1. one(k) \in CachedPage(tab.pages, h, page(k))
    BY <1>2 DEF ppagecache_have_all_pages
  <2> HIDE DEF one
  <2>2. one(k) \in tab.pages /\ one(k).h = h /\ one(k).n = page(k)
    BY <2>1 DEF CachedPage
  <2>3. one(k) = PageOf(h, h, page(k))
    BY <2>2 DEF TruePages
  <2> QED BY <1>2, <2>3 DEF PageOf
<1>7. ppagecache_copy_to_file(h) = [k \in 1..Cardinality(copied) |-> one(k).data[k]]
  BY DEF ppagecache_copy_to_file, page
<1> HIDE DEF copied, one
<1>8. [k \in 1..Len(h) |-> one(k).data[k]] = [k \in 1..Len(h) |-> h[k]]
  BY <1>6
<1>9. [k \in 1..Len(h) |-> h[k]] = h
  BY DEF Contents
<1> QED BY <1>5, <1>7, <1>8, <1>9

LEMMA PagesAdded ==
  ASSUME NEW P, TruePages(P), NEW Q, TruePages(Q)
  PROVE  TruePages(AddPages(P, Q))
BY DEF TruePages, AddPages

LEMMA PagesMade ==
  ASSUME NEW c \in Contents
  PROVE  TruePages({PageOf(c, c, n) : n \in 1..NumPages(Len(c))})
BY DEF TruePages, PageOf

\* The pages of a modified file are those of what it shows.
LEMMA PagesMixed ==
  ASSUME TruePages(tab.pages), NEW f, DataFits(f), NEW hash \in Contents, NEW old \in Contents,
         NEW r, r.type = "modify", r.base = old, Right(r, f, hash)
  PROVE  TruePages(psync_pagecache_modify_to_cache(f, hash, old))
<1> DEFINE all == 1..NumPages(Len(f.d))
           known == {n \in all : CachedPage(tab.pages, old, n) # {}}
           taken == {n \in all : Units(Len(f.d), n) \subseteq f.i} \cup known
           moved == UNION {CachedPage(tab.pages, old, n) : n \in {m \in known : Moved(f, m)}}
<1>1. Covers(old, f, hash) /\ Sound("modify", old, f) /\ Len(hash) = Len(f.d) /\ Len(f.d) \in Nat
  <2>1. r.type \in Types /\ r.base \in Contents
    BY DEF Types
  <2>2. Covers(old, f, hash) /\ Sound("modify", old, f)
    BY <2>1, RightIs
  <2> QED BY <2>2 DEF Covers, DataFits, Contents
<1>2. PageUnits \in Nat /\ PageUnits > 0
  BY SizesAssumption
<1>3. ASSUME NEW n \in taken PROVE MixedPage(f, hash, old, n) = PageOf(hash, hash, n) /\ n \in all
  <2> DEFINE one == CHOOSE q \in CachedPage(tab.pages, old, n) : TRUE
             units == Units(Len(f.d), n)
  <2>1. n \in all /\ (units \subseteq f.i \/ CachedPage(tab.pages, old, n) # {}) /\ n \in Int /\ n >= 1
    BY <1>3
  <2>2. units \subseteq 1..Len(f.d)
    <3>1. (n - 1) * PageUnits >= 0 /\ (n - 1) * PageUnits \in Int /\ n * PageUnits \in Int
      BY <1>2, <2>1
    <3> QED BY <1>1, <3>1 DEF Units, Smaller
  <2>3. ASSUME NEW k \in units
        PROVE  (IF k \in f.i THEN f.d[k] ELSE one.data[k]) = hash[k]
    <3>1. CASE k \in f.i
      BY <1>1, <2>2, <3>1 DEF Covers
    <3>2. CASE k \notin f.i
      <4>1. one \in CachedPage(tab.pages, old, n)
        BY <2>1, <3>2
      <4> HIDE DEF one
      <4>2. one \in tab.pages /\ one.h = old /\ one.n = n
        BY <4>1 DEF CachedPage
      <4>3. one = PageOf(old, old, n)
        BY <4>2 DEF TruePages
      <4>4. k <= Len(old) /\ k \in 1..Len(f.d) /\ Len(old) \in Nat
        BY <1>1, <2>2, <3>2 DEF Sound, Contents
      <4>5. k \in Units(Len(old), n)
        <5>1. (n - 1) * PageUnits \in Int /\ n * PageUnits \in Int
          BY <1>2, <2>1
        <5> QED BY <1>1, <4>4, <5>1 DEF Units, Smaller
      <4>6. one.data[k] = old[k]
        BY <4>3, <4>5 DEF PageOf
      <4> QED BY <1>1, <3>2, <4>4, <4>6 DEF Covers, At
    <3> QED BY <3>1, <3>2
  <2>4. MixedPage(f, hash, old, n) =
          [h |-> hash, n |-> n, data |-> [k \in units |-> IF k \in f.i THEN f.d[k] ELSE one.data[k]]]
    BY DEF MixedPage
  <2>5. PageOf(hash, hash, n) = [h |-> hash, n |-> n, data |-> [k \in units |-> hash[k]]]
    BY <1>1 DEF PageOf
  <2> HIDE DEF one, units
  <2>6. [k \in units |-> IF k \in f.i THEN f.d[k] ELSE one.data[k]] = [k \in units |-> hash[k]]
    BY <2>3
  <2> QED BY <2>1, <2>4, <2>5, <2>6
<1>4. TruePages({MixedPage(f, hash, old, n) : n \in taken})
  <2> HIDE DEF all, taken
  <2>1. \A q \in {MixedPage(f, hash, old, n) : n \in taken} : \E n \in all : q = PageOf(hash, hash, n)
    BY <1>3
  <2>2. ASSUME NEW n \in all PROVE PageOf(hash, hash, n).h = hash /\ PageOf(hash, hash, n).n = n
    BY DEF PageOf
  <2> QED BY <1>1, <2>1, <2>2 DEF TruePages, all
<1>5. psync_pagecache_modify_to_cache(f, hash, old) =
        AddPages(tab.pages \ moved, {MixedPage(f, hash, old, n) : n \in taken})
  BY DEF psync_pagecache_modify_to_cache
<1> HIDE DEF all, known, taken, moved
<1>6. TruePages(tab.pages \ moved)
  BY DEF TruePages
<1> QED BY <1>4, <1>5, <1>6, PagesAdded

----------------------------------------------------------------------------
(* What a step leaves.                                                    *)

Damages == {"truncated", "shrunk", "otherrow", "stalelocal", "halfcopied", "again",
            "noname", "regressed", "uncopied"}

\* Damage stays.
LEMMA Undamaged ==
  ASSUME ~Damaged', NEW g, DOMAIN g = GhostFields, g.known = ghost.known, NEW flags,
         ghost' = Noting(g, flags)
  PROVE  ~Damaged /\ flags \cap Damages = {}
<1>1. ghost'.known = ghost.known \cup flags
  BY DEF Noting, GhostFields
<1> QED BY <1>1 DEF Damaged, Known, Damages

LEMMA UndamagedSame ==
  ASSUME ~Damaged', ghost'.known = ghost.known
  PROVE  ~Damaged
BY DEF Damaged, Known

LEMMA EntryKept ==
  ASSUME tab'.entries = tab.entries
  PROVE  Entry' = Entry
BY DEF Entry

\* The overlay's one name.
LEMMA EntryIs ==
  ASSUME OneName(tab)
  PROVE  \/ Entry = 0 /\ tab.entries = <<>>
         \/ Entry \in Nat \ {0} /\ tab.entries = <<Entry>>
<1>1. CASE tab.entries = <<>>
  BY <1>1 DEF Entry
<1>2. CASE tab.entries[1] \in Nat \ {0} /\ tab.entries = <<tab.entries[1]>>
  <2> DEFINE k == tab.entries[1]
  <2>1. tab.entries = <<k>> /\ k \in Nat \ {0}
    BY <1>2
  <2> HIDE DEF k
  <2>2. tab.entries # <<>> /\ Head(tab.entries) = k
    BY <2>1
  <2> QED BY <2>1, <2>2 DEF Entry
<1> QED BY <1>1, <1>2 DEF OneName

LEMMA RowView ==
  ASSUME NEW rows, NEW e
  PROVE  /\ Row(rows, e) # NoRow <=> e \in DOMAIN rows
         /\ e \in DOMAIN rows =>
              /\ Row(rows, e).type = rows[e].type /\ Row(rows, e).base = rows[e].base
              /\ Row(rows, e).status = rows[e].status /\ Row(rows, e).int1 = rows[e].int1
<1>1. CASE e \in DOMAIN rows
  <2> DEFINE r == [type |-> rows[e].type, base |-> rows[e].base,
                   status |-> rows[e].status, int1 |-> rows[e].int1]
  <2>1. Row(rows, e) = r
    BY <1>1 DEF Row
  <2>2. DOMAIN r # DOMAIN NoRow
    BY DEF NoRow
  <2>3. r # NoRow
    BY <2>2
  <2> QED BY <1>1, <2>1, <2>3
<1>2. CASE e \notin DOMAIN rows
  BY <1>2 DEF Row
<1> QED BY <1>1, <1>2

LEMMA RowsSame ==
  ASSUME NEW a, NEW b, NEW e, e \in DOMAIN a <=> e \in DOMAIN b,
         e \in DOMAIN a => /\ a[e].type = b[e].type /\ a[e].base = b[e].base
                           /\ a[e].status = b[e].status /\ a[e].int1 = b[e].int1
  PROVE  Row(a, e) = Row(b, e)
BY DEF Row

LEMMA DataView ==
  ASSUME NEW f, FilesTyped(f), NEW e
  PROVE  /\ Data(f, e) # NoData <=> e \in DOMAIN f
         /\ e \in DOMAIN f => Data(f, e) = f[e] /\ DataFits(Data(f, e))
<1>1. ASSUME NEW x, DataFits(x) PROVE x # NoData
  <2>1. DOMAIN x # DOMAIN NoData
    BY <1>1 DEF DataFits, NoData
  <2> QED BY <2>1
<1> QED BY <1>1 DEF Data, FilesTyped

\* The threads go on, and the server may get a file.
LEMMA ThreadsMove ==
  ASSUME CInv, UNCHANGED <<tab, file, of, proc, rel>>,
         ghost'.last = ghost.last, ghost'.rows = ghost.rows, ghost'.versions = ghost.versions,
         SmallTyped(upl'), LargeTyped(big'), SrvTyped(srv'), srv'.saved \subseteq ghost.versions,
         Naming(Entry, tab.rows, of, upl'),
         Filing(EntryRow, EntryData, of, Stage(proc), ghost.last, tab.mir, srv'.now),
         Entered(EntryRow, tab.rows, file, upl', ghost.last),
         Small(Entry, EntryRow, EntryData, of, Stage(proc), upl', srv'.now),
         LargeOne(Entry, EntryRow, EntryData, of, Stage(proc), upl', big', srv'.now)
  PROVE  CInv'
<1>1. Entry' = Entry
  BY EntryKept
<1>2. EntryRow' = EntryRow /\ EntryData' = EntryData
  BY <1>1 DEF EntryRow, EntryData
<1>3. Typed'
  BY DEF CInv, Typed
<1>4. Versions(ghost', srv'.saved)
  BY DEF CInv, Versions
<1> QED BY <1>1, <1>2, <1>3, <1>4 DEF CInv

\* The thread of small uploads alone.
LEMMA SmallMoves ==
  ASSUME CInv, UNCHANGED <<tab, file, of, proc, rel, srv, big, ghost>>, Sending(upl),
         SmallTyped(upl'), upl'.pc = "idle" \/ Sending(upl'),
         Sending(upl') => Small(Entry, EntryRow, EntryData, of, Stage(proc), upl', srv.now)
  PROVE  CInv'
<1>1. Entering(upl) = {} /\ Entering(upl') = {} /\ upl.pc # "idle" /\ upl'.pc \notin {"cache", "del"}
  BY DEF Sending, Entering
<1>2. Naming(Entry, tab.rows, of, upl')
  <2>1. Naming(Entry, tab.rows, of, upl)
    BY DEF CInv
  <2> QED BY <1>1, <2>1 DEF Naming
<1>3. Entered(EntryRow, tab.rows, file, upl', ghost.last)
  BY <1>1 DEF Entered
<1>4. LargeOne(Entry, EntryRow, EntryData, of, Stage(proc), upl', big', srv'.now)
  <2>1. ~SendingLarge(big)
    BY <1>1 DEF CInv, LargeOne
  <2> QED BY <2>1 DEF LargeOne
<1>5. Small(Entry, EntryRow, EntryData, of, Stage(proc), upl', srv.now)
  BY DEF Small
<1>6. /\ LargeTyped(big') /\ SrvTyped(srv') /\ srv'.saved \subseteq ghost.versions
      /\ Filing(EntryRow, EntryData, of, Stage(proc), ghost.last, tab.mir, srv'.now)
  BY DEF CInv, Typed, Versions
<1> QED BY <1>2, <1>3, <1>4, <1>5, <1>6, ThreadsMove

LEMMA BatchTyped == SmallTyped(NoBatch) /\ NoBatch.pc = "idle" /\ \A b : SmallTyped([NoBatch EXCEPT !.wake = b])
BY DEF SmallTyped, NoBatch, Contents

----------------------------------------------------------------------------
(* The thread of small uploads.                                           *)

\* Who has the mutex has a file with a row.
LEMMA HeldHasFile ==
  ASSUME IInv, Stage(proc) # "none"
  PROVE  IsOpen(of) /\ of # NoFile /\ of.id # 0
<1>1. PICK p \in Procs : proc[p].pc \in {"create", "fill"}
  BY DEF Stage
<1>2. CallFits(user.scripts[p], proc[p], of)
  BY DEF IInv
<1>3. proc[p].open /\ of.id # 0
  BY <1>1, <1>2 DEF CallFits
<1> QED BY <1>3, HandleHasFile, OpenIsSomeFile

LEMMA Unlocked == ~Locked <=> Stage(proc) = "none"
BY DEF Locked, Stage

\* The write id an upload compares with is that of the row, or a larger one.
LEMMA EntryWriteId ==
  ASSUME IInv, CInv, Entry \in DOMAIN tab.rows
  PROVE  /\ EntryRow # NoRow /\ Entry \in Nat \ {0}
         /\ EntryRow.int1 \in Nat /\ EntryRow.type \in Types /\ EntryRow.base \in Contents
         /\ WriteId(of, EntryRow) \in Nat /\ WriteId(of, EntryRow) >= EntryRow.int1
         /\ get_file_writeid(Entry) = WriteId(of, EntryRow)
<1>1. /\ EntryRow # NoRow /\ EntryRow.type = tab.rows[Entry].type
      /\ EntryRow.base = tab.rows[Entry].base /\ EntryRow.int1 = tab.rows[Entry].int1
  BY RowView DEF EntryRow
<1>2. Entry \in Nat \ {0}
  BY DEF IInv, TabFits, RowsFit
<1>3. EntryRow.int1 \in Nat /\ EntryRow.type \in Types /\ EntryRow.base \in Contents
  BY <1>1 DEF CInv, Typed, RowsTyped
<1>4. CASE of = NoFile
  BY <1>1, <1>2, <1>3, <1>4 DEF WriteId, get_file_writeid
<1>5. CASE of # NoFile
  <2>1. of.id = Entry /\ of.writeid \in Nat /\ EntryRow.int1 <= of.writeid
    BY <1>2, <1>5 DEF CInv, Naming, Settles, Typed, OpenTyped
  <2> QED BY <1>1, <1>2, <1>3, <1>5, <2>1 DEF WriteId, get_file_writeid
<1> QED BY <1>4, <1>5

LEMMA LeastOfIds ==
  ASSUME NEW S, S \subseteq Nat, S # {}
  PROVE  Min(S) \in S
<1>1. \A k \in S : k \in Int /\ k >= 0
  OBVIOUS
<1>2. PICK k \in S : \A j \in S : k <= j
  BY <1>1, Least, 0 \in Int
<1> QED BY <1>2 DEF Min

LEMMA CheckTasksRight ==
  ASSUME IInv, CInv, psync_fsupload_check_tasks
  PROVE  CInv'
<1>0. /\ upl.pc = "idle" /\ UNCHANGED <<tab, file, of, proc, rel, srv, big>>
      /\ ghost'.last = ghost.last /\ ghost'.rows = ghost.rows /\ ghost'.versions = ghost.versions
  BY DEF psync_fsupload_check_tasks, IInv, TabFits, GhostFields, Noting
<1>1. /\ Naming(Entry, tab.rows, of, upl) /\ Live(tab.rows) \subseteq {Entry}
      /\ LargeTyped(big') /\ SrvTyped(srv') /\ srv'.saved \subseteq ghost.versions
      /\ Filing(EntryRow, EntryData, of, Stage(proc), ghost.last, tab.mir, srv'.now)
      /\ LargeOne(Entry, EntryRow, EntryData, of, Stage(proc), upl, big, srv.now)
  BY <1>0 DEF CInv, Typed, Versions, Naming, Entering
<1>2. ASSUME upl'.pc = "idle", SmallTyped(upl') PROVE CInv'
  <2>1. Naming(Entry, tab.rows, of, upl')
    BY <1>0, <1>1, <1>2 DEF Naming, Entering
  <2>2. /\ Entered(EntryRow, tab.rows, file, upl', ghost.last)
        /\ Small(Entry, EntryRow, EntryData, of, Stage(proc), upl', srv'.now)
    BY <1>2 DEF Entered, Small, Sending
  <2>3. LargeOne(Entry, EntryRow, EntryData, of, Stage(proc), upl', big', srv'.now)
    BY <1>0, <1>1, <1>2 DEF LargeOne
  <2> QED BY <1>0, <1>1, <1>2, <2>1, <2>2, <2>3, ThreadsMove
<1>3. CASE Ready = {}
  <2>1. upl' = [NoBatch EXCEPT !.wake = FALSE]
    BY <1>3 DEF psync_fsupload_check_tasks
  <2>2. upl'.pc = "idle" /\ SmallTyped(upl')
    BY <2>1, BatchTyped DEF NoBatch
  <2> QED BY <1>2, <2>2
<1>4. CASE Ready # {}
  <2> DEFINE t == Min(Ready)
             row == tab.rows[t]
             pc == IF row.type = "creat" THEN "send" ELSE "defer"
  <2>1. upl' = [NoBatch EXCEPT !.wake = FALSE, !.t = t, !.w = row.int1, !.pc = pc]
    BY <1>4 DEF psync_fsupload_check_tasks
  <2>2. t \in Ready
    <3>1. Ready \subseteq Nat
      BY DEF Ready, Waiting, IInv, TabFits, RowsFit
    <3> QED BY <1>4, <3>1, LeastOfIds
  <2> HIDE DEF t
  <2>3. t \in DOMAIN tab.rows /\ row.status = 0 /\ t # big.current /\ t = Entry
    BY <1>1, <2>2 DEF Ready, Waiting, Live
  <2>4. /\ EntryRow # NoRow /\ EntryRow.type = row.type /\ EntryRow.status = 0 /\ EntryRow.int1 = row.int1
        /\ row.int1 \in Nat /\ row.type \in Types /\ t \in Nat
        /\ WriteId(of, EntryRow) \in Nat /\ WriteId(of, EntryRow) >= row.int1
    BY <2>3, RowView, EntryWriteId DEF EntryRow
  <2>5. pc \in {"send", "defer"} /\ (pc # "defer" => row.type = "creat")
    OBVIOUS
  <2> DEFINE w == row.int1
  <2>6. /\ upl'.pc = pc /\ upl'.t = t /\ upl'.w = w /\ upl'.size = 0 /\ upl'.data = <<>>
        /\ DOMAIN upl' = {"pc", "wake", "t", "w", "size", "data"}
    <3> HIDE DEF w, pc
    <3>1. upl' = [NoBatch EXCEPT !.wake = FALSE, !.t = t, !.w = w, !.pc = pc]
      BY <2>1 DEF w, pc
    <3> QED BY <3>1 DEF NoBatch
  <2> HIDE DEF pc
  <2>7. SmallTyped(upl')
    BY <2>4, <2>6 DEF SmallTyped, Contents
  <2>8. Stage(proc) = "none"
    <3>1. ASSUME Stage(proc) # "none" PROVE FALSE
      <4>1. of # NoFile
        BY <3>1, HeldHasFile
      <4>2. EntryRow.status = 1
        BY <3>1, <4>1 DEF CInv, OpenShows
      <4> QED BY <2>4, <4>2
    <3> QED BY <3>1
  <2>9. ~SendingLarge(big)
    BY <1>1, <2>3 DEF LargeOne
  <2>10. Small(Entry, EntryRow, EntryData, of, Stage(proc), upl', srv'.now)
    BY <2>3, <2>4, <2>5, <2>6, <2>8 DEF Small
  <2>11. LargeOne(Entry, EntryRow, EntryData, of, Stage(proc), upl', big', srv'.now)
    BY <1>0, <2>9 DEF LargeOne
  <2>12. Entered(EntryRow, tab.rows, file, upl', ghost.last) /\ Entering(upl') = {} /\ Entering(upl) = {}
    BY <1>0, <2>5, <2>6 DEF Entered, Entering
  <2>13. Naming(Entry, tab.rows, of, upl')
    <3>1. \A x \in DOMAIN tab.rows : tab.rows[x].status # 2
      BY <1>1, <2>3 DEF Live
    <3> QED BY <1>1, <2>12, <3>1 DEF Naming
  <2> QED BY <1>0, <1>1, <2>7, <2>10, <2>11, <2>12, <2>13, ThreadsMove
<1> QED BY <1>3, <1>4

LEMMA Joined ==
  ASSUME NEW a \in Seq(Int), NEW b \in Seq(Int)
  PROVE  /\ a \o b \in Contents /\ Len(a \o b) = Len(a) + Len(b)
         /\ \A k \in 1..(Len(a) + Len(b)) : (a \o b)[k] = IF k <= Len(a) THEN a[k] ELSE b[k - Len(a)]
BY DEF Contents

LEMMA PiecesJoin ==
  ASSUME NEW d \in Contents, NEW n, n = Len(d)
  PROVE  SubSeq(d, 1, Smaller(1, n)) \o SubSeq(d, 2, n) = d
<1> DEFINE m == Smaller(1, n)
           a == SubSeq(d, 1, m)
           b == SubSeq(d, 2, n)
<1>1. n \in Nat /\ m \in {0, 1} /\ m <= n /\ (m = 0 <=> n = 0)
  BY DEF Contents, Smaller
<1> HIDE DEF m
<1>2. a \in Seq(Int) /\ Len(a) = m /\ \A k \in 1..m : a[k] = d[k]
  BY <1>1 DEF Contents
<1>3. b \in Seq(Int) /\ Len(b) = n - m /\ \A k \in 1..(n - m) : b[k] = d[k + m]
  <2>1. CASE n = 0
    BY <1>1, <2>1 DEF Contents
  <2>2. CASE n # 0
    BY <1>1, <2>2 DEF Contents
  <2> QED BY <2>1, <2>2
<1> HIDE DEF a, b
<1>4. /\ a \o b \in Contents /\ Len(a \o b) = n
      /\ \A k \in 1..n : (a \o b)[k] = IF k <= m THEN a[k] ELSE b[k - m]
  BY <1>1, <1>2, <1>3, Joined
<1>5. \A k \in 1..n : (a \o b)[k] = d[k]
  <2> SUFFICES ASSUME NEW k \in 1..n PROVE (a \o b)[k] = d[k]
    OBVIOUS
  <2>1. CASE k <= m
    BY <1>1, <1>2, <1>4, <2>1
  <2>2. CASE ~(k <= m)
    <3>1. k - m \in 1..(n - m) /\ (k - m) + m = k
      BY <1>1, <2>2
    <3> QED BY <1>3, <1>4, <2>2, <3>1
  <2> QED BY <2>1, <2>2
<1>6. a \o b = d
  BY <1>1, <1>4, <1>5, SameContent
<1> QED BY <1>6 DEF a, b, m

LEMMA PieceTyped ==
  ASSUME NEW d \in Contents, NEW m \in Nat, NEW n \in Nat, n <= Len(d), m >= 1
  PROVE  SubSeq(d, m, n) \in Contents
BY DEF Contents

\* What is known while a small upload is under way.
LEMMA SmallIs ==
  ASSUME IInv, CInv, Sending(upl)
  PROVE  /\ upl.t = Entry /\ Entry \in DOMAIN tab.rows /\ Entry \in Nat \ {0}
         /\ Stage(proc) = "none" /\ ~Locked
         /\ WriteId(of, EntryRow) \in Nat /\ WriteId(of, EntryRow) >= upl.w
         /\ get_file_writeid(upl.t) = WriteId(of, EntryRow)
         /\ EntryRow # NoRow /\ EntryRow.type \in Types /\ EntryRow.base \in Contents
         /\ SmallTyped(upl) /\ ~SendingLarge(big)
         /\ EntryRow.status \in {0, 1} /\ (upl.pc # "defer" => EntryRow.type = "creat")
         /\ Small(Entry, EntryRow, EntryData, of, Stage(proc), upl, srv.now)
<1>1. Small(Entry, EntryRow, EntryData, of, Stage(proc), upl, srv.now)
  BY DEF CInv
<1>2. Entry \in DOMAIN tab.rows
  BY <1>1, RowView DEF Small, EntryRow
<1>3. ~SendingLarge(big)
  BY DEF CInv, LargeOne, Sending
<1> QED BY <1>1, <1>2, <1>3, EntryWriteId, Unlocked DEF Small, CInv, Typed

\* The entry's file.
LEMMA EntryHasData ==
  ASSUME CInv, EntryData # NoData \/ Entry \in DOMAIN file
  PROVE  /\ Entry \in DOMAIN file /\ EntryData = file[Entry] /\ DataFits(EntryData) /\ EntryData # NoData
         /\ EntryData.d \in Contents /\ Len(EntryData.d) \in Nat
BY DataView DEF CInv, Typed, EntryData, DataFits, Contents

LEMMA SendCreatRight ==
  ASSUME IInv, CInv, psync_send_task_creat, upl.t \in DOMAIN file
  PROVE  CInv'
<1>0. /\ upl.pc = "send" /\ Sending(upl) /\ UNCHANGED <<tab, file, of, proc, rel, srv, big, ghost>>
  BY DEF psync_send_task_creat, Sending
<1> DEFINE d == file[upl.t].d
           n == Len(d)
           piece == SubSeq(d, 1, Smaller(1, n))
<1>1. /\ upl.t = Entry /\ EntryData # NoData /\ d = EntryData.d /\ d \in Contents /\ n \in Nat
  BY <1>0, SmallIs, EntryHasData
<1>2. \/ n > DirectLimit /\ upl' = [upl EXCEPT !.pc = "defer"]
      \/ upl' = [upl EXCEPT !.pc = "rest", !.size = n, !.data = piece]
  BY DEF psync_send_task_creat
<1>3. piece \in Contents
  BY <1>1, PieceTyped DEF Smaller
<1> HIDE DEF piece
<1>4. CASE upl' = [upl EXCEPT !.pc = "defer"]
  <2>1. SmallTyped(upl') /\ upl'.pc = "defer" /\ upl'.t = upl.t /\ upl'.w = upl.w
    BY <1>0, <1>4, SmallIs DEF SmallTyped
  <2>2. Small(Entry, EntryRow, EntryData, of, Stage(proc), upl', srv.now)
    BY <1>0, <2>1, SmallIs DEF Small
  <2> QED BY <1>0, <2>1, <2>2, SmallMoves DEF Sending
<1>5. CASE upl' = [upl EXCEPT !.pc = "rest", !.size = n, !.data = piece]
  <2> HIDE DEF n
  <2>1. /\ SmallTyped(upl') /\ upl'.pc = "rest" /\ upl'.t = upl.t /\ upl'.w = upl.w
        /\ upl'.size = n /\ upl'.data = piece
    BY <1>0, <1>1, <1>3, <1>5, SmallIs DEF SmallTyped
  <2>2. Small(Entry, EntryRow, EntryData, of, Stage(proc), upl', srv.now)
    BY <1>0, <1>1, <2>1, SmallIs DEF Small, n, piece
  <2> QED BY <1>0, <2>1, <2>2, SmallMoves DEF Sending
<1> QED BY <1>2, <1>4, <1>5

LEMMA UploadSmallRight ==
  ASSUME IInv, CInv, psync_send_task_creat_upload_small
  PROVE  CInv'
<1>0. /\ upl.pc = "rest" /\ Sending(upl) /\ UNCHANGED <<tab, file, of, proc, rel, srv, big, ghost>>
  BY DEF psync_send_task_creat_upload_small, Sending
<1> DEFINE d == file[upl.t].d
           n == Len(d)
           piece == SubSeq(d, 2, upl.size)
           all == upl.data \o piece
<1>1. /\ upl.t = Entry /\ EntryData # NoData /\ d = EntryData.d /\ d \in Contents /\ n \in Nat
      /\ SmallTyped(upl) /\ upl.size \in Nat /\ upl.data \in Contents
      /\ Small(Entry, EntryRow, EntryData, of, Stage(proc), upl, srv.now)
  BY <1>0, SmallIs, EntryHasData DEF Small, SmallTyped
<1>2. CASE n < upl.size
  <2>1. upl' = NoBatch
    BY <1>2 DEF psync_send_task_creat_upload_small
  <2>2. SmallTyped(upl') /\ upl'.pc = "idle" /\ ~Sending(upl')
    BY <2>1, BatchTyped DEF Sending
  <2> QED BY <1>0, <2>2, SmallMoves
<1>3. CASE ~(n < upl.size)
  <2>1. upl' = [upl EXCEPT !.pc = "check", !.data = all]
    BY <1>3 DEF psync_send_task_creat_upload_small
  <2>2. piece \in Contents
    BY <1>1, <1>3, PieceTyped
  <2>3. all \in Contents
    <3> HIDE DEF piece
    <3> QED BY <1>1, <2>2 DEF Contents
  <2>4. WriteId(of, EntryRow) = upl.w => all = d
    BY <1>0, <1>1, PiecesJoin DEF Small
  <2> HIDE DEF all
  <2>5. /\ SmallTyped(upl') /\ upl'.pc = "check" /\ upl'.t = upl.t /\ upl'.w = upl.w /\ upl'.data = all
    BY <1>1, <2>1, <2>3 DEF SmallTyped
  <2>6. Small(Entry, EntryRow, EntryData, of, Stage(proc), upl', srv.now)
    BY <1>0, <1>1, <2>4, <2>5 DEF Small
  <2> QED BY <1>0, <2>5, <2>6, SmallMoves DEF Sending
<1> QED BY <1>2, <1>3

LEMMA LostSmallRight ==
  ASSUME IInv, CInv, LostSmall
  PROVE  CInv'
<1>1. /\ Sending(upl) /\ UNCHANGED <<tab, file, of, proc, rel, srv, big, ghost>> /\ upl' = NoBatch
  BY DEF LostSmall, Sending
<1>2. SmallTyped(upl') /\ upl'.pc = "idle" /\ ~Sending(upl')
  BY <1>1, BatchTyped DEF Sending
<1> QED BY <1>1, <1>2, SmallMoves

\* What is sent is what was written last, unless the file was written meanwhile.
LEMMA SendSmallRight ==
  ASSUME IInv, CInv, SendSmall
  PROVE  CInv'
<1>0. /\ upl.pc = "check" /\ Sending(upl) /\ UNCHANGED <<tab, file, of, proc, rel, big, ghost>>
  BY DEF SendSmall, Sending
<1>1. /\ upl.t = Entry /\ EntryData # NoData /\ EntryRow # NoRow /\ EntryRow.type = "creat"
      /\ Stage(proc) = "none" /\ get_file_writeid(upl.t) = WriteId(of, EntryRow) /\ SmallTyped(upl)
      /\ Small(Entry, EntryRow, EntryData, of, Stage(proc), upl, srv.now) /\ ~SendingLarge(big)
      /\ EntryRow.base \in Contents /\ EntryRow.type \in Types
  BY <1>0, SmallIs DEF Small
<1>2. CASE get_file_writeid(upl.t) # upl.w
  <2>1. upl' = NoBatch /\ srv' = srv
    BY <1>2 DEF SendSmall
  <2>2. SmallTyped(upl') /\ upl'.pc = "idle" /\ ~Sending(upl')
    BY <2>1, BatchTyped DEF Sending
  <2> QED BY <1>0, <2>1, <2>2, SmallMoves
<1>3. CASE get_file_writeid(upl.t) = upl.w
  <2>1. upl' = [upl EXCEPT !.pc = "answer"] /\ srv' = [srv EXCEPT !.now = upl.data, !.saved = @ \cup {upl.data}]
    BY <1>3 DEF SendSmall, Saved
  <2>2. upl.data = ghost.last
    <3>1. upl.data = EntryData.d
      BY <1>0, <1>1, <1>3 DEF Small
    <3>2. Right(EntryRow, EntryData, ghost.last)
      BY <1>1 DEF CInv, Written
    <3> QED BY <1>1, <3>1, <3>2, EntryHasData, RightIs DEF CInv, Versions
  <2>3. /\ SrvTyped(srv') /\ srv'.now = upl.data /\ srv'.saved = srv.saved \cup {upl.data}
    BY <1>1, <2>1 DEF CInv, Typed, SrvTyped, SmallTyped
  <2>4. /\ SmallTyped(upl') /\ upl'.pc = "answer" /\ upl'.t = upl.t /\ upl'.w = upl.w /\ upl'.data = upl.data
    BY <1>1, <2>1 DEF SmallTyped
  <2>5. Small(Entry, EntryRow, EntryData, of, Stage(proc), upl', srv'.now)
    BY <1>0, <1>1, <2>3, <2>4 DEF Small
  <2>6. srv'.saved \subseteq ghost.versions
    BY <2>2, <2>3 DEF CInv, Versions
  <2>7. Filing(EntryRow, EntryData, of, Stage(proc), ghost.last, tab.mir, srv'.now)
    BY <1>1 DEF CInv, Filing
  <2>8. /\ Entered(EntryRow, tab.rows, file, upl', ghost.last)
        /\ LargeOne(Entry, EntryRow, EntryData, of, Stage(proc), upl', big', srv'.now)
    BY <1>0, <1>1, <2>4 DEF Entered, LargeOne
  <2>9. Naming(Entry, tab.rows, of, upl')
    <3>1. Naming(Entry, tab.rows, of, upl)
      BY DEF CInv
    <3> QED BY <1>0, <2>4, <3>1 DEF Naming, Entering
  <2>10. LargeTyped(big')
    BY <1>0 DEF CInv, Typed
  <2> QED BY <1>0, <2>3, <2>4, <2>5, <2>6, <2>7, <2>8, <2>9, <2>10, ThreadsMove
<1> QED BY <1>2, <1>3

----------------------------------------------------------------------------
(* Rows and data files that come and go behind the open file.              *)

\* The rows, the files, the cache and its tasks change, the entry's does not but
\* for its status.
LEMMA BehindTheEntry ==
  ASSUME CInv, UNCHANGED <<of, proc, rel, srv, ghost>>,
         DOMAIN tab' = TabFields, tab'.entries = tab.entries, tab'.lost = tab.lost, tab'.mir = tab.mir,
         RowsTyped(tab'.rows), FilesTyped(file'), CacheTyped(tab'.cache), SmallTyped(upl'), LargeTyped(big'),
         DOMAIN file' \subseteq DOMAIN tab'.rows,
         Row(tab'.rows, Entry) = EntryRow, Data(file', Entry) = EntryData,
         Naming(Entry, tab'.rows, of, upl'),
         Entered(EntryRow, tab'.rows, file', upl', ghost.last),
         Handed(tab'.rows, file', tab'.cache, tab'.caching),
         TruePages(tab'.pages),
         Small(Entry, EntryRow, EntryData, of, Stage(proc), upl', srv.now),
         LargeOne(Entry, EntryRow, EntryData, of, Stage(proc), upl', big', srv.now)
  PROVE  CInv'
<1>1. Entry' = Entry
  BY EntryKept
<1>2. EntryRow' = EntryRow /\ EntryData' = EntryData
  BY <1>1 DEF EntryRow, EntryData
<1>3. Typed' /\ OneName(tab')
  BY DEF CInv, Typed, OneName
<1> QED BY <1>1, <1>2, <1>3 DEF CInv

\* Rows that kept what is known of them, but for the one of t.
RowsKept(r, rows, t) ==
  \A i \in DOMAIN r \ {t} : /\ r[i].status = rows[i].status /\ r[i].type = rows[i].type
                           /\ r[i].base = rows[i].base /\ r[i].int1 = rows[i].int1

LEMMA RowsLess ==
  ASSUME NEW rows, NEW made, RowsFit(rows, made), RowsTyped(rows), NEW t, NEW r, r = WithoutRow(rows, t)
  PROVE  /\ DOMAIN r = DOMAIN rows \ {t} /\ RowsTyped(r) /\ Live(r) = Live(rows) \ {t}
         /\ RowsKept(r, rows, t)
<1> DEFINE q == Without(rows, {t})
<1>1. DOMAIN q = DOMAIN rows \ {t} /\ \A i \in DOMAIN q : q[i] = rows[i] /\ DOMAIN q[i] = RowFields
  BY DEF Without, Restrict, RowsFit
<1> HIDE DEF q
<1>2. r = [i \in DOMAIN q |-> [q[i] EXCEPT !.after = @ \ {t}]]
  BY DEF WithoutRow, WithoutArrows, q
<1>3. /\ DOMAIN r = DOMAIN rows \ {t}
      /\ \A i \in DOMAIN r : /\ r[i].status = rows[i].status /\ r[i].type = rows[i].type
                             /\ r[i].base = rows[i].base /\ r[i].int1 = rows[i].int1
  BY <1>1, <1>2 DEF RowFields
<1>4. RowsTyped(r) /\ Live(r) = Live(rows) \ {t}
  BY <1>3 DEF RowsTyped, Live
<1> QED BY <1>3, <1>4 DEF RowsKept

LEMMA RowsMarked ==
  ASSUME NEW rows, NEW made, RowsFit(rows, made), RowsTyped(rows), NEW t, NEW s,
         NEW r, r = WithStatus(rows, t, s)
  PROVE  /\ DOMAIN r = DOMAIN rows /\ RowsTyped(r)
         /\ RowsKept(r, rows, t)
         /\ t \in DOMAIN rows => /\ r[t].status = s /\ r[t].type = rows[t].type
                                 /\ r[t].base = rows[t].base /\ r[t].int1 = rows[t].int1
<1>3. /\ DOMAIN r = DOMAIN rows
      /\ \A i \in DOMAIN r : /\ r[i].status = (IF i = t THEN s ELSE rows[i].status)
                             /\ r[i].type = rows[i].type
                             /\ r[i].base = rows[i].base /\ r[i].int1 = rows[i].int1
  BY DEF WithStatus, RowsFit, RowFields
<1>4. RowsTyped(r)
  BY <1>3 DEF RowsTyped
<1> QED BY <1>3, <1>4 DEF RowsKept

LEMMA RowKept ==
  ASSUME NEW rows, NEW r, NEW t, NEW e, e # t, DOMAIN r \cup {t} = DOMAIN rows \cup {t},
         RowsKept(r, rows, t)
  PROVE  Row(r, e) = Row(rows, e)
<1>1. e \in DOMAIN r <=> e \in DOMAIN rows
  OBVIOUS
<1> QED BY <1>1, RowsSame DEF RowsKept

LEMMA FilesLess ==
  ASSUME FilesTyped(file), NEW S, NEW f, f = Without(file, S), NEW e, e \notin S
  PROVE  /\ DOMAIN f = DOMAIN file \ S /\ FilesTyped(f) /\ \A t \in DOMAIN f : f[t] = file[t]
         /\ Data(f, e) = Data(file, e)
BY DEF Without, Restrict, FilesTyped, Data

LEMMA HandedLess ==
  ASSUME NEW rows, NEW f, NEW c, NEW caching, Handed(rows, f, c, caching), CacheTyped(c),
         NEW r, Live(r) \subseteq Live(rows), NEW g, DOMAIN g \subseteq DOMAIN f,
         \A t \in DOMAIN g : g[t] = f[t]
  PROVE  Handed(r, g, c, caching)
BY DEF Handed

----------------------------------------------------------------------------
(* The rest of a small upload.                                            *)

LEMMA TabIs == ASSUME IInv, CInv
  PROVE /\ DOMAIN tab = TabFields /\ RowsFit(tab.rows, ghost.rows) /\ RowsTyped(tab.rows)
        /\ FilesTyped(file) /\ OpenTyped(of) /\ CacheTyped(tab.cache) /\ SmallTyped(upl) /\ LargeTyped(big)
        /\ SrvTyped(srv) /\ 0 \notin DOMAIN tab.rows /\ DOMAIN file \subseteq DOMAIN tab.rows
        /\ Naming(Entry, tab.rows, of, upl)
BY DEF IInv, TabFits, RowsFit, CInv, Typed

LEMMA CacheSmallRight ==
  ASSUME IInv, CInv, CacheSmall
  PROVE  CInv'
<1> DEFINE t == upl.t
           pages == Cached(upl.t, upl.data)
<1>0. /\ upl.pc = "cache" /\ UNCHANGED <<proc, of, srv, rel, big, ghost>>
      /\ tab' = [tab EXCEPT !.pages = pages] /\ file' = Without(file, {t})
      /\ upl' = [upl EXCEPT !.pc = "del"]
  BY DEF CacheSmall
<1>1. /\ Entered(EntryRow, tab.rows, file, upl, ghost.last) /\ Entering(upl) = {t} /\ t # Entry
      /\ t \in DOMAIN file /\ file[t].d = upl.data /\ upl.data \in Contents
  BY <1>0, TabIs DEF CInv, Entered, Naming, Entering, SmallTyped
<1>2. TruePages(pages)
  BY <1>1, PagesMade, PagesAdded DEF Cached, CInv
<1> HIDE DEF pages
<1>3. /\ DOMAIN tab' = TabFields /\ tab'.entries = tab.entries /\ tab'.lost = tab.lost /\ tab'.mir = tab.mir
      /\ tab'.rows = tab.rows /\ tab'.cache = tab.cache /\ tab'.caching = tab.caching /\ tab'.pages = pages
  BY <1>0, TabIs DEF TabFields
<1>4. /\ SmallTyped(upl') /\ upl'.pc = "del" /\ upl'.t = t /\ upl'.data = upl.data
  BY <1>0, TabIs DEF SmallTyped
<1>5. /\ DOMAIN file' = DOMAIN file \ {t} /\ FilesTyped(file') /\ Data(file', Entry) = EntryData
      /\ \A x \in DOMAIN file' : file'[x] = file[x]
  <2> DEFINE S == {t}
  <2>1. FilesTyped(file) /\ Entry \notin S /\ file' = Without(file, S)
    BY <1>0, <1>1, TabIs
  <2> HIDE DEF S
  <2>2. /\ DOMAIN file' = DOMAIN file \ S /\ FilesTyped(file') /\ \A x \in DOMAIN file' : file'[x] = file[x]
        /\ Data(file', Entry) = Data(file, Entry)
    BY ZenonT(60), <2>1, FilesLess
  <2> QED BY <2>1, <2>2 DEF EntryData, S
<1>6. Naming(Entry, tab.rows, of, upl')
  BY <1>0, <1>4, TabIs DEF Naming, Entering
<1>7. Entered(EntryRow, tab.rows, file', upl', ghost.last)
  BY <1>0, <1>1, <1>4, <1>5 DEF Entered
<1>8. Handed(tab.rows, file', tab.cache, tab.caching)
  BY <1>5, TabIs, HandedLess DEF CInv
<1>9. /\ Small(Entry, EntryRow, EntryData, of, Stage(proc), upl', srv.now)
      /\ LargeOne(Entry, EntryRow, EntryData, of, Stage(proc), upl', big', srv.now)
  BY <1>0, <1>4 DEF CInv, Small, LargeOne, Sending
<1> QED BY <1>0, <1>2, <1>3, <1>4, <1>5, <1>6, <1>7, <1>8, <1>9, TabIs, BehindTheEntry DEF EntryRow

LEMMA DelTaskRight ==
  ASSUME IInv, CInv, pr_del_task
  PROVE  CInv'
<1> DEFINE t == upl.t
           rows == WithoutRow(tab.rows, t)
<1>0. /\ upl.pc = "del" /\ UNCHANGED <<proc, of, srv, rel, big, ghost, file>>
      /\ tab' = [tab EXCEPT !.rows = rows]
      /\ \E b : upl' = [NoBatch EXCEPT !.wake = b]
  BY DEF pr_del_task
<1>1. /\ Entered(EntryRow, tab.rows, file, upl, ghost.last) /\ Entering(upl) = {t} /\ t # Entry
      /\ t \notin DOMAIN file
  BY <1>0, TabIs DEF CInv, Entered, Naming, Entering
<1>2. /\ DOMAIN rows = DOMAIN tab.rows \ {t} /\ RowsTyped(rows) /\ Live(rows) = Live(tab.rows) \ {t}
      /\ \A i \in DOMAIN rows : rows[i].status = tab.rows[i].status
      /\ Row(rows, Entry) = EntryRow
  <2>1. /\ RowsFit(tab.rows, ghost.rows) /\ RowsTyped(tab.rows) /\ rows = WithoutRow(tab.rows, t)
        /\ Entry # t
    BY <1>1, TabIs
  <2> HIDE DEF rows, t
  <2>2. /\ DOMAIN rows = DOMAIN tab.rows \ {t} /\ RowsTyped(rows) /\ Live(rows) = Live(tab.rows) \ {t}
        /\ RowsKept(rows, tab.rows, t)
    BY <2>1, RowsLess
  <2>3. Row(rows, Entry) = Row(tab.rows, Entry)
    <3>1. DOMAIN rows \cup {t} = DOMAIN tab.rows \cup {t}
      BY <2>2
    <3> QED BY <2>1, <2>2, <3>1, RowKept
  <2> QED BY <2>2, <2>3 DEF EntryRow, RowsKept, t
<1> HIDE DEF rows
<1>3. /\ DOMAIN tab' = TabFields /\ tab'.entries = tab.entries /\ tab'.lost = tab.lost /\ tab'.mir = tab.mir
      /\ tab'.rows = rows /\ tab'.cache = tab.cache /\ tab'.caching = tab.caching /\ tab'.pages = tab.pages
  BY <1>0, TabIs DEF TabFields
<1>4. /\ SmallTyped(upl') /\ upl'.pc = "idle"
  BY <1>0, BatchTyped DEF NoBatch
<1>6. Naming(Entry, rows, of, upl')
  BY <1>0, <1>1, <1>2, <1>4, TabIs DEF Naming, Entering
<1>7. Entered(EntryRow, rows, file', upl', ghost.last)
  BY <1>4 DEF Entered
<1>8. Handed(rows, file', tab.cache, tab.caching)
  BY <1>0, <1>2, TabIs, HandedLess DEF CInv
<1>9. /\ Small(Entry, EntryRow, EntryData, of, Stage(proc), upl', srv.now)
      /\ LargeOne(Entry, EntryRow, EntryData, of, Stage(proc), upl', big', srv.now)
  BY <1>0, <1>4 DEF CInv, Small, LargeOne, Sending
<1>10. /\ DOMAIN file' \subseteq DOMAIN rows /\ Data(file', Entry) = EntryData
       /\ FilesTyped(file') /\ LargeTyped(big') /\ TruePages(tab'.pages)
  BY <1>0, <1>1, <1>2, <1>3, TabIs DEF EntryData, CInv
<1> QED BY <1>0, <1>2, <1>3, <1>4, <1>6, <1>7, <1>8, <1>9, <1>10, TabIs, BehindTheEntry

LEMMA CleanStuckRight ==
  ASSUME IInv, CInv, clean_stuck_tasks
  PROVE  CInv'
<1> DEFINE stuck == DOMAIN tab.rows \ Live(tab.rows)
           q == Without(tab.rows, stuck)
           rows == [i \in DOMAIN q |-> [q[i] EXCEPT !.after = @ \ stuck]]
<1>0. /\ upl.pc = "start" /\ UNCHANGED <<proc, of, srv, rel, big, ghost>>
      /\ tab' = [tab EXCEPT !.rows = rows] /\ file' = Without(file, stuck) /\ upl' = NoBatch
  BY DEF clean_stuck_tasks
<1>1. Entry \in DOMAIN tab.rows => Entry \in Live(tab.rows)
  BY TabIs DEF Naming
<1>2. /\ DOMAIN rows = Live(tab.rows) /\ DOMAIN rows \subseteq DOMAIN tab.rows
      /\ \A i \in DOMAIN rows : /\ rows[i].status = tab.rows[i].status /\ rows[i].type = tab.rows[i].type
                                /\ rows[i].base = tab.rows[i].base /\ rows[i].int1 = tab.rows[i].int1
  <2>1. /\ DOMAIN q = Live(tab.rows)
        /\ \A i \in DOMAIN q : q[i] = tab.rows[i] /\ DOMAIN q[i] = RowFields /\ i \in DOMAIN tab.rows
    BY TabIs DEF Without, Restrict, RowsFit, Live
  <2> HIDE DEF q, stuck
  <2> QED BY <2>1 DEF RowFields
<1> HIDE DEF rows
<1>3. RowsTyped(rows) /\ Live(rows) = Live(tab.rows)
  BY <1>2, TabIs DEF RowsTyped, Live
<1>4. Row(rows, Entry) = EntryRow
  <2>1. Entry \in DOMAIN rows <=> Entry \in DOMAIN tab.rows
    BY <1>1, <1>2
  <2> QED BY <1>2, <2>1, RowsSame DEF EntryRow
<1>5. /\ DOMAIN tab' = TabFields /\ tab'.entries = tab.entries /\ tab'.lost = tab.lost /\ tab'.mir = tab.mir
      /\ tab'.rows = rows /\ tab'.cache = tab.cache /\ tab'.caching = tab.caching /\ tab'.pages = tab.pages
  BY <1>0, TabIs DEF TabFields
<1>6. SmallTyped(upl') /\ upl'.pc = "idle"
  BY <1>0, BatchTyped
<1>7. /\ DOMAIN file' = DOMAIN file \ stuck /\ FilesTyped(file') /\ Data(file', Entry) = EntryData
      /\ \A x \in DOMAIN file' : file'[x] = file[x]
  <2> HIDE DEF stuck
  <2>1. CASE Entry \notin stuck
    <3>1. FilesTyped(file) /\ Entry \notin stuck /\ file' = Without(file, stuck)
      BY <1>0, <2>1, TabIs
    <3> QED BY <3>1, FilesLess, ZenonT(60) DEF EntryData
  <2>2. CASE Entry \in stuck
    BY <1>1, <2>2 DEF stuck
  <2> QED BY <2>1, <2>2
<1>8. DOMAIN file' \subseteq DOMAIN rows
  BY <1>2, <1>7, TabIs
<1>9. Naming(Entry, rows, of, upl')
  <2>1. Entering(upl) = {} /\ Entering(upl') = {}
    BY <1>0, <1>6 DEF Entering
  <2>2. Entry \in DOMAIN tab.rows => Entry \in DOMAIN rows
    BY <1>1, <1>2
  <2> QED BY <1>1, <1>2, <1>3, <1>6, <2>1, <2>2, TabIs DEF Naming
<1>10. Entered(EntryRow, rows, file', upl', ghost.last)
  BY <1>6 DEF Entered
<1>11. Handed(rows, file', tab.cache, tab.caching)
  <2>1. Live(rows) \subseteq Live(tab.rows) /\ DOMAIN file' \subseteq DOMAIN file
    BY <1>3, <1>7
  <2> QED BY <1>7, <2>1, TabIs, HandedLess DEF CInv
<1>12. /\ Small(Entry, EntryRow, EntryData, of, Stage(proc), upl', srv.now)
       /\ LargeOne(Entry, EntryRow, EntryData, of, Stage(proc), upl', big', srv.now)
  BY <1>0, <1>6 DEF CInv, Small, LargeOne, Sending
<1> QED BY <1>0, <1>3, <1>4, <1>5, <1>6, <1>7, <1>8, <1>9, <1>10, <1>11, <1>12, TabIs, BehindTheEntry DEF CInv

\* The entry's row is handed to the large uploads.
LEMMA EntryMarked ==
  ASSUME IInv, CInv, Stage(proc) = "none", UNCHANGED <<of, proc, rel, srv, ghost, file>>,
         Entry \in DOMAIN tab.rows, EntryRow.status = 0, NEW s, s = 2,
         tab' = [tab EXCEPT !.rows = WithStatus(@, Entry, s)],
         SmallTyped(upl'), LargeTyped(big'), upl'.pc = "idle", ~SendingLarge(big'), Entering(upl) = {}
  PROVE  CInv'
<1> DEFINE rows == WithStatus(tab.rows, Entry, s)
           t == Entry
<1>1. /\ DOMAIN rows = DOMAIN tab.rows /\ RowsTyped(rows) /\ RowsKept(rows, tab.rows, t)
      /\ rows[t].status = s /\ rows[t].type = tab.rows[t].type
      /\ rows[t].base = tab.rows[t].base /\ rows[t].int1 = tab.rows[t].int1
  <2>1. rows = WithStatus(tab.rows, t, s) /\ RowsFit(tab.rows, ghost.rows) /\ RowsTyped(tab.rows)
    BY TabIs
  <2> HIDE DEF rows, t
  <2>2. t \in DOMAIN tab.rows
    BY DEF t
  <2> QED BY <2>1, <2>2, RowsMarked
<1>2. Live(rows) = Live(tab.rows)
  <2>1. tab.rows[t].status \in {0, 1}
    BY RowView DEF EntryRow
  <2>2. \A i \in DOMAIN rows : rows[i].status = 3 <=> tab.rows[i].status = 3
    <3> HIDE DEF rows
    <3> QED BY <1>1, <2>1 DEF RowsKept
  <2> QED BY <1>1, <2>2 DEF Live
<1> HIDE DEF rows
<1>3. /\ DOMAIN tab' = TabFields /\ tab'.entries = tab.entries /\ tab'.lost = tab.lost /\ tab'.mir = tab.mir
      /\ tab'.rows = rows /\ tab'.cache = tab.cache /\ tab'.caching = tab.caching /\ tab'.pages = tab.pages
  BY TabIs DEF TabFields, rows
<1>4. Entry' = Entry
  BY <1>3, EntryKept
<1> DEFINE row == Row(rows, Entry)
<1>5. EntryRow' = row /\ EntryData' = EntryData
  BY <1>3, <1>4 DEF EntryRow, EntryData
<1>6. /\ row # NoRow /\ EntryRow # NoRow /\ row.type = EntryRow.type /\ row.base = EntryRow.base
      /\ row.int1 = EntryRow.int1 /\ row.status = s
  BY <1>1, RowView DEF EntryRow
<1> HIDE DEF row
<1>7. Typed' /\ OneName(tab')
  BY <1>1, <1>3, TabIs DEF CInv, Typed, OneName
<1>8. Naming(Entry, rows, of, upl')
  <2>1. Entering(upl') = {}
    BY DEF Entering
  <2> QED BY <1>1, <1>2, <2>1, TabIs DEF Naming
<1>9. Filing(row, EntryData, of, Stage(proc), ghost.last, tab.mir, srv.now)
  BY <1>6 DEF CInv, Filing
<1>10. Entered(row, rows, file, upl', ghost.last)
  BY DEF Entered
<1>11. Handed(rows, file, tab.cache, tab.caching)
  BY <1>2 DEF CInv, Handed
<1>12. OpenShows(row, EntryData, of, Stage(proc), ghost.last)
  BY <1>6 DEF CInv, OpenShows
<1>13. Written(row, EntryData, Stage(proc), ghost.last)
  <2>1. Right(row, EntryData, ghost.last) <=> Right(EntryRow, EntryData, ghost.last)
    BY <1>6 DEF Right
  <2> QED BY <1>6, <2>1 DEF CInv, Written
<1>14. Settles(row, of, proc, rel, ghost.rows)
  BY <1>6 DEF CInv, Settles
<1>15. /\ Small(Entry, row, EntryData, of, Stage(proc), upl', srv.now)
       /\ LargeOne(Entry, row, EntryData, of, Stage(proc), upl', big', srv.now)
  BY DEF Small, LargeOne, Sending
<1> QED BY <1>1, <1>3, <1>4, <1>5, <1>7, <1>8, <1>9, <1>10, <1>11, <1>12, <1>13, <1>14, <1>15 DEF CInv

LEMMA DeferRight ==
  ASSUME IInv, CInv, psync_sent_task_creat_upload_large
  PROVE  CInv'
<1>0. /\ upl.pc = "defer" /\ Sending(upl) /\ UNCHANGED <<proc, of, file, srv, rel, ghost>>
      /\ upl' = [NoBatch EXCEPT !.wake = upl.wake]
      /\ big' = IF big.pc = "off" THEN [big EXCEPT !.pc = "pick"] ELSE big
      /\ tab' = IF upl.t \in DOMAIN tab.rows /\ tab.rows[upl.t].status = 0
                THEN [tab EXCEPT !.rows = WithStatus(@, upl.t, 2)] ELSE tab
  BY DEF psync_sent_task_creat_upload_large, Sending
<1>1. /\ upl.t = Entry /\ Entry \in DOMAIN tab.rows /\ Stage(proc) = "none" /\ ~SendingLarge(big)
      /\ EntryRow.status = tab.rows[Entry].status /\ EntryRow.status \in {0, 1} /\ Entering(upl) = {}
  BY <1>0, SmallIs, RowView DEF EntryRow, Entering
<1>2. SmallTyped(upl') /\ upl'.pc = "idle"
  BY <1>0, BatchTyped DEF NoBatch
<1>3. LargeTyped(big') /\ ~SendingLarge(big')
  BY <1>0, <1>1, TabIs DEF LargeTyped, SendingLarge
<1>4. CASE tab.rows[Entry].status = 0
  <2>1. tab' = [tab EXCEPT !.rows = WithStatus(@, Entry, 2)]
    BY <1>0, <1>1, <1>4
  <2> QED BY <1>0, <1>1, <1>2, <1>3, <1>4, <2>1, EntryMarked
<1>5. CASE tab.rows[Entry].status # 0
  <2>1. tab' = tab
    BY <1>0, <1>1, <1>5
  <2>2. Naming(Entry, tab.rows, of, upl')
    <3>1. Entering(upl') = {}
      BY <1>2 DEF Entering
    <3> QED BY <1>1, <1>2, <3>1, TabIs DEF Naming
  <2>3. /\ Small(Entry, EntryRow, EntryData, of, Stage(proc), upl', srv'.now)
        /\ LargeOne(Entry, EntryRow, EntryData, of, Stage(proc), upl', big', srv'.now)
        /\ Entered(EntryRow, tab.rows, file, upl', ghost.last)
    BY <1>2, <1>3 DEF Small, LargeOne, Sending, Entered
  <2>4. /\ SrvTyped(srv') /\ srv'.saved \subseteq ghost.versions
        /\ Filing(EntryRow, EntryData, of, Stage(proc), ghost.last, tab.mir, srv'.now)
    BY <1>0, TabIs DEF CInv, Versions
  <2> QED BY <1>0, <1>2, <1>3, <2>1, <2>2, <2>3, <2>4, ThreadsMove
<1> QED BY <1>4, <1>5

\* A row without a data file is given up.  Nothing was written to it.
LEMMA GiveUpRight ==
  ASSUME IInv, CInv, Stage(proc) = "none", UNCHANGED <<of, proc, rel, srv, ghost, file>>,
         Entry \in DOMAIN tab.rows, Entry \notin DOMAIN file, perm_fail_upload_task(Entry),
         Entering(upl) = {}, SmallTyped(upl'), LargeTyped(big'), upl'.pc = "idle", ~SendingLarge(big')
  PROVE  CInv'
<1> DEFINE t == Entry
           rows == WithoutRow(tab.rows, t)
<1>1. /\ DOMAIN rows = DOMAIN tab.rows \ {t} /\ RowsTyped(rows) /\ Live(rows) = Live(tab.rows) \ {t}
  <2>1. RowsFit(tab.rows, ghost.rows) /\ RowsTyped(tab.rows) /\ rows = WithoutRow(tab.rows, t)
    BY TabIs
  <2> HIDE DEF rows, t
  <2> QED BY <2>1, RowsLess
<1>2. tab' = [tab EXCEPT !.rows = rows]
  BY DEF perm_fail_upload_task
<1> HIDE DEF rows
<1>3. /\ DOMAIN tab' = TabFields /\ tab'.entries = tab.entries /\ tab'.lost = tab.lost /\ tab'.mir = tab.mir
      /\ tab'.rows = rows /\ tab'.cache = tab.cache /\ tab'.caching = tab.caching /\ tab'.pages = tab.pages
  BY <1>2, TabIs DEF TabFields
<1>4. Entry' = Entry
  BY <1>3, EntryKept
<1>5. EntryRow # NoRow /\ EntryData = NoData
  BY RowView DEF EntryRow, EntryData, Data
<1>6. of = NoFile /\ tab.mir = ghost.last /\ srv.now = ghost.last
  BY <1>5 DEF CInv, Filing
<1>7. EntryRow' = NoRow /\ EntryData' = NoData
  BY <1>1, <1>3, <1>4, <1>5 DEF EntryRow, EntryData, Row
<1>8. Typed' /\ OneName(tab')
  BY <1>1, <1>3, TabIs DEF CInv, Typed, OneName
<1>9. DOMAIN file' \subseteq DOMAIN rows
  BY <1>1, TabIs
<1>10. Live(rows) = {} /\ Entering(upl') = {}
  BY <1>1, TabIs DEF Naming, Entering
<1>11. Naming(Entry, rows, of, upl')
  BY <1>1, <1>6, <1>10 DEF Naming
<1>12. Filing(NoRow, NoData, of, Stage(proc), ghost.last, tab.mir, srv.now)
  BY <1>6 DEF Filing
<1>13. Entered(NoRow, rows, file, upl', ghost.last)
  BY DEF Entered
<1>14. Handed(rows, file, tab.cache, tab.caching)
  BY <1>10 DEF CInv, Handed
<1>15. /\ OpenShows(NoRow, NoData, of, Stage(proc), ghost.last)
       /\ Written(NoRow, NoData, Stage(proc), ghost.last)
       /\ Settles(NoRow, of, proc, rel, ghost.rows)
       /\ Small(Entry, NoRow, NoData, of, Stage(proc), upl', srv.now)
       /\ LargeOne(Entry, NoRow, NoData, of, Stage(proc), upl', big', srv.now)
  BY <1>6 DEF OpenShows, Written, Settles, Small, LargeOne, Sending
<1> QED BY <1>3, <1>4, <1>7, <1>8, <1>9, <1>11, <1>12, <1>13, <1>14, <1>15 DEF CInv

LEMMA SendCreatGivesUp ==
  ASSUME IInv, CInv, psync_send_task_creat
  PROVE  CInv'
<1>1. CASE upl.t \in DOMAIN file
  BY <1>1, SendCreatRight
<1>2. CASE upl.t \notin DOMAIN file
  <2>1. /\ upl.pc = "send" /\ Sending(upl) /\ UNCHANGED <<of, proc, rel, srv, ghost, file, big>>
        /\ perm_fail_upload_task(upl.t) /\ upl' = NoBatch
    BY <1>2 DEF psync_send_task_creat, Sending
  <2>2. /\ upl.t = Entry /\ Entry \in DOMAIN tab.rows /\ Stage(proc) = "none" /\ ~SendingLarge(big)
        /\ Entering(upl) = {}
    BY <2>1, SmallIs DEF Entering
  <2> QED BY <1>2, <2>1, <2>2, BatchTyped, TabIs, GiveUpRight
<1> QED BY <1>1, <1>2

\* The answer to an upload of what was written last is entered: the name is off
\* the overlay, and the open file is one of the server's.
LEMMA AnswerRight ==
  ASSUME IInv, CInv, Stage(proc) = "none", UNCHANGED <<proc, rel, srv, ghost, file>>,
         Entry \in DOMAIN tab.rows, NEW hash, hash = ghost.last, srv.now = hash,
         psync_fs_update_openfile(Entry, hash),
         DOMAIN tab' = TabFields, tab'.mir = hash, tab'.entries = WithoutEntry(Entry),
         tab'.lost = tab.lost, tab'.pages = tab.pages,
         DOMAIN tab'.rows = DOMAIN tab.rows, RowsTyped(tab'.rows), CacheTyped(tab'.cache),
         SmallTyped(upl'), LargeTyped(big'), ~Sending(upl'), ~SendingLarge(big'),
         Live(tab'.rows) \subseteq Entering(upl'), 0 \notin Entering(upl'),
         \A t \in DOMAIN tab'.rows : tab'.rows[t].status = 2 => upl'.pc = "idle",
         Entered(NoRow, tab'.rows, file, upl', ghost.last),
         Handed(tab'.rows, file, tab'.cache, tab'.caching)
  PROVE  CInv'
<1>0. hash \in Contents /\ Len(hash) \in Nat
  BY DEF CInv, Versions, Contents
<1>1. tab'.entries = <<>>
  <2>1. Entry \in Nat \ {0} /\ tab.entries = <<Entry>>
    <3>1. Entry # 0
      BY TabIs
    <3> QED BY <3>1, EntryIs DEF CInv
  <2> DEFINE e == Entry
  <2> HIDE DEF e
  <2>2. tab.entries = <<e>>
    BY <2>1 DEF e
  <2>3. WithoutEntry(e) = RemoveAt(tab.entries, CHOOSE k \in DOMAIN tab.entries : tab.entries[k] = e)
    BY <2>2 DEF WithoutEntry
  <2>4. (CHOOSE k \in DOMAIN tab.entries : tab.entries[k] = e) = 1
    BY <2>2
  <2>5. RemoveAt(tab.entries, 1) = <<>>
    BY <2>2 DEF RemoveAt
  <2> QED BY <2>3, <2>4, <2>5 DEF e
<1>2. Entry' = 0
  BY <1>1 DEF Entry
<1>3. EntryRow' = NoRow /\ EntryData' = NoData
  BY <1>2, TabIs DEF EntryRow, EntryData, Row, Data
<1> DEFINE m == Len(hash)
<1>4. /\ of = NoFile <=> of' = NoFile
      /\ of # NoFile => /\ of'.id = 0 /\ of'.hash = hash /\ of'.modified = FALSE /\ of'.newfile = FALSE
                        /\ of'.size = Len(hash) /\ of'.initial = Len(hash)
                        /\ of'.writeid = of.writeid /\ of'.local = of.local
  <2>1. CASE of = NoFile
    BY <2>1 DEF psync_fs_update_openfile
  <2>2. CASE of # NoFile
    <3>1. of.id = Entry
      BY <2>2, TabIs DEF Naming
    <3>2. of' = [of EXCEPT !.id = 0, !.hash = hash, !.modified = FALSE, !.newfile = FALSE,
                           !.size = m, !.initial = m, !.released = FALSE]
      BY <2>2, <3>1 DEF psync_fs_update_openfile
    <3>3. DOMAIN of = OfFields
      BY <2>2 DEF IInv, Referenced, IsOpen
    <3> HIDE DEF m
    <3>4. /\ of'.id = 0 /\ of'.hash = hash /\ of'.modified = FALSE /\ of'.newfile = FALSE
          /\ of'.size = m /\ of'.initial = m
          /\ of'.writeid = of.writeid /\ of'.local = of.local /\ DOMAIN of' = OfFields
      BY <3>2, <3>3 DEF OfFields
    <3>5. of' # NoFile
      BY <3>4 DEF NoFile, OfFields
    <3> QED BY <2>2, <3>4, <3>5 DEF m
  <2> QED BY <2>1, <2>2
<1> HIDE DEF m
<1>5. OpenTyped(of')
  BY <1>0, <1>4, TabIs DEF OpenTyped
<1>6. Typed' /\ OneName(tab')
  BY <1>1, <1>5, TabIs DEF CInv, Typed, OneName
<1>7. Naming(0, tab'.rows, of', upl')
  BY <1>4, TabIs DEF Naming
<1>8. Filing(NoRow, NoData, of', Stage(proc), ghost.last, tab'.mir, srv.now)
  BY DEF Filing
<1>9. OpenShows(NoRow, NoData, of', Stage(proc), ghost.last)
  BY <1>0, <1>4 DEF OpenShows
<1>10. Written(NoRow, NoData, Stage(proc), ghost.last)
  BY DEF Written
<1>11. Numbered(of', Stage(proc), proc, rel, ghost.rows)
  <2>1. Numbered(of, Stage(proc), proc, rel, ghost.rows)
    BY DEF CInv
  <2>2. \A w, n : Fresh(w, n, of, Stage(proc), ghost.rows) => Fresh(w, n, of', Stage(proc), ghost.rows)
    BY <1>4 DEF Fresh
  <2> QED BY <2>1, <2>2 DEF Numbered
<1>12. Settles(NoRow, of', proc, rel, ghost.rows)
  BY <1>4 DEF Settles
<1>13. /\ Small(0, NoRow, NoData, of', Stage(proc), upl', srv.now)
       /\ LargeOne(0, NoRow, NoData, of', Stage(proc), upl', big', srv.now)
  BY DEF Small, LargeOne
<1>14. DOMAIN file' \subseteq DOMAIN tab'.rows
  BY TabIs
<1> QED BY <1>2, <1>3, <1>6, <1>7, <1>8, <1>9, <1>10, <1>11, <1>12, <1>13, <1>14 DEF CInv

LEMMA ProcessCreatRight ==
  ASSUME IInv, CInv, psync_process_task_creat
  PROVE  CInv'
<1>0. /\ upl.pc = "answer" /\ Sending(upl) /\ UNCHANGED <<proc, file, srv, rel, big, ghost>>
  BY DEF psync_process_task_creat, Sending
<1>1. /\ upl.t = Entry /\ Entry \in DOMAIN tab.rows /\ EntryData # NoData /\ EntryRow # NoRow
      /\ EntryRow.type = "creat" /\ EntryRow.status \in {0, 1} /\ EntryRow.base \in Contents
      /\ EntryRow.type \in Types
      /\ Stage(proc) = "none" /\ get_file_writeid(upl.t) = WriteId(of, EntryRow) /\ SmallTyped(upl)
      /\ Small(Entry, EntryRow, EntryData, of, Stage(proc), upl, srv.now) /\ ~SendingLarge(big)
      /\ EntryData = file[Entry] /\ DataFits(EntryData) /\ Entry \in DOMAIN file
      /\ EntryRow.type = tab.rows[Entry].type /\ EntryRow.status = tab.rows[Entry].status
  BY <1>0, SmallIs, EntryHasData, RowView DEF Small, EntryRow
<1>2. CASE get_file_writeid(upl.t) # upl.w
  <2>1. upl' = [NoBatch EXCEPT !.wake = upl.wake] /\ tab' = tab /\ of' = of
    BY <1>2 DEF psync_process_task_creat
  <2>2. SmallTyped(upl') /\ upl'.pc = "idle" /\ ~Sending(upl')
    BY <2>1, BatchTyped DEF Sending, NoBatch
  <2> QED BY <1>0, <2>1, <2>2, SmallMoves
<1>3. CASE get_file_writeid(upl.t) = upl.w
  <2> DEFINE hash == upl.data
  <2>1. /\ psync_fs_update_openfile(Entry, hash) /\ upl' = [upl EXCEPT !.pc = "cache"]
        /\ tab' = [tab EXCEPT !.mir = hash, !.entries = WithoutEntry(Entry)]
    BY <1>1, <1>3 DEF psync_process_task_creat
  <2>2. hash = EntryData.d /\ srv.now = hash
    BY <1>0, <1>1, <1>3 DEF Small
  <2>3. hash = ghost.last
    <3>1. Right(EntryRow, EntryData, ghost.last)
      BY <1>1 DEF CInv, Written
    <3> QED BY <1>1, <2>2, <3>1, RightIs DEF CInv, Versions
  <2> HIDE DEF hash
  <2> DEFINE entries == WithoutEntry(Entry)
  <2>4. /\ DOMAIN tab' = TabFields /\ tab'.mir = hash /\ tab'.entries = entries
        /\ tab'.lost = tab.lost /\ tab'.pages = tab.pages /\ tab'.rows = tab.rows
        /\ tab'.cache = tab.cache /\ tab'.caching = tab.caching
    <3>1. tab' = [tab EXCEPT !.mir = hash, !.entries = entries]
      BY <2>1
    <3> HIDE DEF entries
    <3> QED BY <3>1, TabIs DEF TabFields
  <2>5. /\ SmallTyped(upl') /\ upl'.pc = "cache" /\ upl'.t = Entry /\ upl'.data = hash
        /\ ~Sending(upl') /\ Entering(upl') = {Entry} /\ Entering(upl) = {}
    BY <1>0, <1>1, <2>1 DEF SmallTyped, Sending, Entering, hash
  <2>6. Live(tab.rows) \subseteq {Entry} /\ Entry # 0
    BY <2>5, TabIs, <1>1 DEF Naming
  <2>7. \A t \in DOMAIN tab.rows : tab.rows[t].status # 2
    BY <1>1, <2>6 DEF Live
  <2>8. Entered(NoRow, tab.rows, file, upl', ghost.last)
    BY <1>1, <2>2, <2>3, <2>5 DEF Entered
  <2>9. Handed(tab.rows, file, tab.cache, tab.caching) /\ RowsTyped(tab.rows) /\ CacheTyped(tab.cache) /\ LargeTyped(big')
    BY <1>0, TabIs DEF CInv
  <2> QED BY <1>0, <1>1, <2>1, <2>2, <2>3, <2>4, <2>5, <2>6, <2>7, <2>8, <2>9, AnswerRight
<1> QED BY <1>2, <1>3

----------------------------------------------------------------------------
(* The thread of large uploads.                                           *)

LEMMA LargeIs ==
  ASSUME IInv, CInv, SendingLarge(big)
  PROVE  /\ big.t = Entry /\ Entry \in DOMAIN tab.rows /\ Entry \in Nat \ {0} /\ upl.pc = "idle"
         /\ Stage(proc) = "none" /\ Entering(upl) = {}
         /\ get_file_writeid(big.t) = WriteId(of, EntryRow)
         /\ EntryRow # NoRow /\ EntryRow.type \in Types /\ EntryRow.base \in Contents
         /\ big.type = EntryRow.type /\ big.base = EntryRow.base
         /\ LargeTyped(big) /\ SmallTyped(upl)
         /\ LargeOne(Entry, EntryRow, EntryData, of, Stage(proc), upl, big, srv.now)
<1>1. LargeOne(Entry, EntryRow, EntryData, of, Stage(proc), upl, big, srv.now)
  BY DEF CInv
<1>2. Entry \in DOMAIN tab.rows
  BY <1>1, RowView DEF LargeOne, EntryRow
<1> QED BY <1>1, <1>2, EntryWriteId, TabIs DEF LargeOne, Entering

LEMMA LargeMoves ==
  ASSUME IInv, CInv, UNCHANGED <<tab, file, of, proc, rel, srv, ghost>>, upl.pc = "idle",
         SmallTyped(upl'), upl'.pc = "idle", LargeTyped(big'),
         SendingLarge(big') => LargeOne(Entry, EntryRow, EntryData, of, Stage(proc), upl', big', srv.now)
  PROVE  CInv'
<1>1. Naming(Entry, tab.rows, of, upl')
  BY TabIs DEF Naming, Entering
<1>2. /\ Entered(EntryRow, tab.rows, file, upl', ghost.last)
      /\ Small(Entry, EntryRow, EntryData, of, Stage(proc), upl', srv'.now)
      /\ LargeOne(Entry, EntryRow, EntryData, of, Stage(proc), upl', big', srv'.now)
  BY DEF Entered, Small, Sending, LargeOne
<1>3. /\ SrvTyped(srv') /\ srv'.saved \subseteq ghost.versions
      /\ Filing(EntryRow, EntryData, of, Stage(proc), ghost.last, tab.mir, srv'.now)
  BY TabIs DEF CInv, Versions
<1> QED BY <1>1, <1>2, <1>3, ThreadsMove

LEMMA WokenTyped ==
  ASSUME SmallTyped(upl), NEW b
  PROVE  SmallTyped(Woken(b)) /\ Woken(b).pc = upl.pc
BY DEF Woken, SmallTyped

LEMMA FailsRight ==
  ASSUME IInv, CInv, UNCHANGED <<tab, file, of, proc, rel, srv, ghost>>, SendingLarge(big), Fails
  PROVE  CInv'
<1>1. upl.pc = "idle" /\ LargeTyped(big) /\ SmallTyped(upl)
  BY LargeIs
<1>2. SmallTyped(upl') /\ upl'.pc = "idle"
  BY <1>1, WokenTyped DEF Fails
<1>3. big' = [big EXCEPT !.pc = "pick", !.current = 0]
  BY DEF Fails, Step
<1>4. LargeTyped(big') /\ ~SendingLarge(big')
  BY <1>1, <1>3 DEF LargeTyped, SendingLarge
<1> QED BY <1>1, <1>2, <1>4, LargeMoves

LEMMA GivesRight ==
  ASSUME IInv, CInv, UNCHANGED <<file, of, proc, rel, srv, ghost>>, SendingLarge(big),
         big.t \notin DOMAIN file, Gives
  PROVE  CInv'
<1>1. /\ upl.pc = "idle" /\ LargeTyped(big) /\ SmallTyped(upl) /\ big.t = Entry /\ Entry \in DOMAIN tab.rows
      /\ Stage(proc) = "none" /\ Entering(upl) = {}
  BY LargeIs
<1>2. SmallTyped(upl') /\ upl'.pc = "idle"
  BY <1>1, WokenTyped DEF Gives
<1>3. LargeTyped(big') /\ ~SendingLarge(big')
  BY <1>1 DEF Gives, Step, LargeTyped, SendingLarge
<1>4. perm_fail_upload_task(Entry)
  BY <1>1 DEF Gives
<1> QED BY <1>1, <1>2, <1>3, <1>4, GiveUpRight

LEMMA PickRight ==
  ASSUME IInv, CInv, Pick
  PROVE  CInv'
<1>0. big.pc = "pick" /\ UNCHANGED <<tab, file, of, proc, rel, srv, ghost, upl>>
  BY DEF Pick
<1>1. CASE Large = {}
  <2>1. big' = NoUpload
    BY <1>1 DEF Pick
  <2>2. LargeTyped(big') /\ ~SendingLarge(big')
    BY <2>1 DEF NoUpload, LargeTyped, SendingLarge, Types, Contents
  <2>3. LargeOne(Entry, EntryRow, EntryData, of, Stage(proc), upl', big', srv'.now)
    BY <2>2 DEF LargeOne
  <2>4. /\ SrvTyped(srv') /\ srv'.saved \subseteq ghost.versions /\ SmallTyped(upl')
        /\ Filing(EntryRow, EntryData, of, Stage(proc), ghost.last, tab.mir, srv'.now)
        /\ Entered(EntryRow, tab.rows, file, upl', ghost.last) /\ Naming(Entry, tab.rows, of, upl')
        /\ Small(Entry, EntryRow, EntryData, of, Stage(proc), upl', srv'.now)
    BY <1>0, TabIs DEF CInv, Versions
  <2> QED BY <1>0, <2>2, <2>3, <2>4, ThreadsMove
<1>2. CASE Large # {}
  <2> DEFINE t == Min(Large)
             row == tab.rows[t]
             type == row.type
             base == row.base
             w == row.int1
             pc == IF type = "creat" THEN "sum" ELSE "index"
  <2>1. big' = [NoUpload EXCEPT !.pc = pc, !.current = t, !.t = t, !.w = w, !.type = type, !.base = base]
    BY <1>2 DEF Pick
  <2>2. t \in Large
    <3>1. Large \subseteq Nat
      BY DEF Large, IInv, TabFits, RowsFit
    <3> QED BY <1>2, <3>1, LeastOfIds
  <2> HIDE DEF t
  <2>3. t \in DOMAIN tab.rows /\ row.status = 2 /\ t \in Nat
    BY <2>2, TabIs DEF Large, RowsFit
  <2>4. upl.pc = "idle" /\ t = Entry
    BY <2>3, TabIs DEF Naming, Live, Entering
  <2>5. /\ EntryRow # NoRow /\ EntryRow.type = type /\ EntryRow.base = base /\ EntryRow.status = 2
        /\ EntryRow.int1 = w /\ type \in Types /\ base \in Contents /\ w \in Nat
        /\ WriteId(of, EntryRow) >= w
    BY <2>3, <2>4, RowView, EntryWriteId DEF EntryRow
  <2>6. pc \in {"sum", "index"} /\ (pc = "sum" <=> type = "creat")
    OBVIOUS
  <2> HIDE DEF pc, type, base, w
  <2>7. /\ LargeTyped(big') /\ big'.pc = pc /\ big'.t = t /\ big'.current = t /\ big'.w = w
        /\ big'.type = type /\ big'.base = base /\ big'.data = <<>>
    BY <2>1, <2>3, <2>5 DEF NoUpload, LargeTyped, Contents
  <2>8. Stage(proc) = "none"
    BY <2>5, HeldHasFile DEF CInv, OpenShows
  <2>9. LargeOne(Entry, EntryRow, EntryData, of, Stage(proc), upl', big', srv.now)
    BY <1>0, <2>4, <2>5, <2>6, <2>7, <2>8 DEF LargeOne, Types
  <2>10. SmallTyped(upl') /\ upl'.pc = "idle"
    BY <1>0, <2>4, TabIs
  <2> QED BY <1>0, <2>4, <2>7, <2>9, <2>10, LargeMoves
<1> QED BY <1>1, <1>2

LEMMA PrefixGrows ==
  ASSUME NEW c \in Contents, NEW d, d = SubSeq(c, 1, Len(d)), NEW v, NEW m, m = Len(d) + 1,
         d \in Contents, m <= Len(c), v = c[m]
  PROVE  Append(d, v) = SubSeq(c, 1, Len(Append(d, v)))
<1> DEFINE e == SubSeq(c, 1, m)
           a == Append(d, v)
<1>1. m \in Nat /\ m >= 1 /\ Len(d) \in Nat /\ v \in Int
  BY DEF Contents
<1>2. e \in Contents /\ Len(e) = m /\ \A k \in 1..m : e[k] = c[k]
  BY <1>1 DEF Contents
<1>3. a \in Contents /\ Len(a) = m /\ \A k \in 1..m : a[k] = IF k = m THEN v ELSE d[k]
  BY <1>1 DEF Contents
<1>4. \A k \in 1..Len(d) : d[k] = c[k]
  BY <1>1 DEF Contents
<1> HIDE DEF e, a
<1>5. \A k \in 1..m : a[k] = e[k]
  BY <1>1, <1>2, <1>3, <1>4
<1>6. a = e
  BY <1>1, <1>2, <1>3, <1>5, SameContent
<1> QED BY <1>3, <1>6 DEF a, e

LEMMA WholePrefix ==
  ASSUME NEW c \in Contents
  PROVE  SubSeq(c, 1, Len(c)) = c /\ SubSeq(c, 1, 0) = <<>>
<1> DEFINE e == SubSeq(c, 1, Len(c))
<1>1. e \in Contents /\ Len(e) = Len(c) /\ \A k \in 1..Len(c) : e[k] = c[k]
  BY DEF Contents
<1> HIDE DEF e
<1>2. e = c
  BY <1>1, SameContent
<1> QED BY <1>2 DEF Contents, e

LEMMA ChecksumRight ==
  ASSUME IInv, CInv, psync_get_local_file_checksum
  PROVE  CInv'
<1>0. big.pc = "sum" /\ SendingLarge(big) /\ UNCHANGED <<of, file, srv, rel, ghost, proc>>
  BY DEF psync_get_local_file_checksum, SendingLarge
<1>1. CASE big.t \notin DOMAIN file
  BY <1>0, <1>1, GivesRight DEF psync_get_local_file_checksum
<1>2. CASE big.t \in DOMAIN file
  <2> DEFINE d == file[big.t].d
  <2>1. big' = [big EXCEPT !.pc = "parts", !.sum = d] /\ tab' = tab /\ upl' = upl
    BY <1>2 DEF psync_get_local_file_checksum, Step
  <2>2. big.t = Entry /\ d = EntryData.d /\ d \in Contents /\ EntryData # NoData
    BY <1>0, <1>2, LargeIs, EntryHasData
  <2> HIDE DEF d
  <2>3. LargeTyped(big') /\ big'.pc = "parts" /\ big'.sum = d /\ big'.t = big.t /\ big'.w = big.w
        /\ big'.type = big.type /\ big'.base = big.base /\ big'.current = big.current
    BY <1>0, <2>1, <2>2, LargeIs DEF LargeTyped
  <2>4. LargeOne(Entry, EntryRow, EntryData, of, Stage(proc), upl', big', srv.now)
    BY <1>0, <2>1, <2>2, <2>3, LargeIs DEF LargeOne
  <2> QED BY <1>0, <2>1, <2>3, <2>4, LargeMoves, LargeIs
<1> QED BY <1>1, <1>2

LEMMA LargeCreatRight ==
  ASSUME IInv, CInv, large_upload_creat
  PROVE  CInv'
<1> DEFINE k == Len(big.data) + 1
           sent == k > Len(big.sum)
           short == Len(file[big.t].d) < k
           fails == big.stop \/ (sent /\ big.data # big.sum) \/ (~sent /\ short)
           v == file[big.t].d[k]
<1>0. big.pc = "parts" /\ SendingLarge(big) /\ UNCHANGED <<of, file, srv, rel, ghost, proc, tab>>
  BY DEF large_upload_creat, SendingLarge
<1>1. /\ big.t = Entry /\ EntryData = file[Entry] /\ DataFits(EntryData) /\ EntryData # NoData
      /\ EntryData.d \in Contents /\ big.data \in Contents /\ big.sum \in Contents /\ LargeTyped(big)
      /\ big.type = "creat" /\ EntryRow.type = "creat" /\ EntryRow.base \in Contents
      /\ upl.pc = "idle" /\ SmallTyped(upl)
      /\ LargeOne(Entry, EntryRow, EntryData, of, Stage(proc), upl, big, srv.now)
  BY <1>0, LargeIs, EntryHasData DEF LargeOne, LargeTyped
<1>2. CASE fails
  <2>1. Fails
    BY <1>2 DEF large_upload_creat
  <2> QED BY <1>0, <2>1, FailsRight
<1>3. CASE ~fails /\ sent
  <2>1. big' = [big EXCEPT !.pc = "check"] /\ upl' = upl
    BY <1>3 DEF large_upload_creat, Step
  <2>2. /\ LargeTyped(big') /\ big'.pc = "check" /\ big'.data = big.data /\ big'.t = big.t /\ big'.w = big.w
        /\ big'.type = big.type /\ big'.base = big.base /\ big'.current = big.current
    BY <1>1, <2>1 DEF LargeTyped
  <2>3. WriteId(of, EntryRow) = big.w => big.data = Content(big.type, big.base, EntryData)
    <3>1. big.data = big.sum
      BY <1>3
    <3>2. Content(big.type, big.base, EntryData) = EntryData.d
      BY <1>1 DEF Content, Shown
    <3> QED BY <1>0, <1>1, <3>1, <3>2 DEF LargeOne
  <2>4. LargeOne(Entry, EntryRow, EntryData, of, Stage(proc), upl', big', srv.now)
    BY <1>0, <1>1, <2>1, <2>2, <2>3 DEF LargeOne
  <2> QED BY <1>0, <1>1, <2>1, <2>2, <2>4, LargeMoves
<1>4. CASE ~fails /\ ~sent
  <2> DEFINE data == Append(big.data, v)
  <2>1. big' = [big EXCEPT !.data = data] /\ upl' = upl
    BY <1>4 DEF large_upload_creat
  <2>2. v \in Int
    BY <1>1, <1>4, SMTT(30) DEF Contents
  <2>3. data \in Contents
    <3> HIDE DEF v
    <3> QED BY <1>1, <2>2 DEF Contents
  <2> HIDE DEF data
  <2>4. /\ LargeTyped(big') /\ big'.pc = "parts" /\ big'.sum = big.sum /\ big'.t = big.t /\ big'.w = big.w
        /\ big'.type = big.type /\ big'.base = big.base /\ big'.current = big.current
    BY <1>0, <1>1, <2>1, <2>3 DEF LargeTyped
  <2>5. LargeOne(Entry, EntryRow, EntryData, of, Stage(proc), upl', big', srv.now)
    BY <1>0, <1>1, <2>1, <2>4 DEF LargeOne
  <2> QED BY <1>0, <1>1, <2>1, <2>4, <2>5, LargeMoves
<1> QED BY <1>2, <1>3, <1>4

LEMMA LoadIndexRight ==
  ASSUME IInv, CInv, LoadIndex
  PROVE  CInv'
<1>0. big.pc = "index" /\ SendingLarge(big) /\ UNCHANGED <<of, file, srv, rel, ghost, proc>>
  BY DEF LoadIndex, SendingLarge
<1>1. CASE big.t \notin DOMAIN file
  BY <1>0, <1>1, GivesRight DEF LoadIndex
<1>2. CASE big.t \in DOMAIN file
  <2> DEFINE i == file[big.t].i
  <2>1. big' = [big EXCEPT !.pc = "size", !.ints = i] /\ tab' = tab /\ upl' = upl
    BY <1>2 DEF LoadIndex, Step
  <2>2. big.t = Entry /\ i = EntryData.i /\ i \subseteq Int /\ EntryData # NoData
    BY <1>0, <1>2, LargeIs, EntryHasData DEF DataFits
  <2> HIDE DEF i
  <2>3. LargeTyped(big') /\ big'.pc = "size" /\ big'.ints = i /\ big'.t = big.t /\ big'.w = big.w
        /\ big'.type = big.type /\ big'.base = big.base /\ big'.current = big.current /\ big'.data = big.data
    BY <1>0, <2>1, <2>2, LargeIs DEF LargeTyped
  <2>4. LargeOne(Entry, EntryRow, EntryData, of, Stage(proc), upl', big', srv.now)
    BY <1>0, <2>1, <2>2, <2>3, LargeIs DEF LargeOne
  <2> QED BY <1>0, <2>1, <2>3, <2>4, LargeMoves, LargeIs
<1> QED BY <1>1, <1>2

LEMMA LoadSizeRight ==
  ASSUME IInv, CInv, LoadSize
  PROVE  CInv'
<1>0. big.pc = "size" /\ SendingLarge(big) /\ UNCHANGED <<of, file, srv, rel, ghost, proc>>
  BY DEF LoadSize, SendingLarge
<1> DEFINE n == Len(file[big.t].d)
<1>1. /\ big.t = Entry /\ EntryData = file[Entry] /\ DataFits(EntryData) /\ EntryData # NoData
      /\ EntryData.d \in Contents /\ n \in Nat /\ n = Len(EntryData.d) /\ LargeTyped(big)
      /\ Entry \in DOMAIN file /\ big.data = <<>> /\ big.type \in Types /\ big.base \in Contents
      /\ upl.pc = "idle" /\ SmallTyped(upl)
      /\ LargeOne(Entry, EntryRow, EntryData, of, Stage(proc), upl, big, srv.now)
  BY <1>0, LargeIs, EntryHasData DEF LargeOne, LargeTyped
<1>2. big' = [big EXCEPT !.pc = "modify", !.size = n] /\ tab' = tab /\ upl' = upl
  BY <1>1 DEF LoadSize, Step
<1> HIDE DEF n
<1>3. LargeTyped(big') /\ big'.pc = "modify" /\ big'.ints = big.ints /\ big'.t = big.t /\ big'.w = big.w
      /\ big'.type = big.type /\ big'.base = big.base /\ big'.current = big.current /\ big'.data = <<>>
      /\ big'.size = n
  BY <1>1, <1>2 DEF LargeTyped
<1>4. big'.data = SubSeq(Content(big.type, big.base, EntryData), 1, Len(big'.data)) /\ Len(big'.data) = 0
  <2>1. Len(big'.data) = 0
    BY <1>3
  <2> QED BY <1>1, <1>3, <2>1, ContentIs, WholePrefix
<1>5. LargeOne(Entry, EntryRow, EntryData, of, Stage(proc), upl', big', srv.now)
  BY <1>0, <1>1, <1>2, <1>3, <1>4 DEF LargeOne
<1> QED BY <1>0, <1>1, <1>2, <1>3, <1>5, LargeMoves

LEMMA UploadModifyRight ==
  ASSUME IInv, CInv, upload_modify
  PROVE  CInv'
<1> DEFINE k == Len(big.data) + 1
           v == IF k <= Len(big.base) THEN big.base[k] ELSE 0
           whole == Content(big.type, big.base, EntryData)
<1>0. big.pc = "modify" /\ SendingLarge(big) /\ UNCHANGED <<of, file, srv, rel, ghost, proc, tab>>
  BY DEF upload_modify, SendingLarge
<1>1. /\ big.t = Entry /\ EntryData = file[Entry] /\ DataFits(EntryData) /\ EntryData # NoData
      /\ EntryData.d \in Contents /\ big.data \in Contents /\ LargeTyped(big)
      /\ big.type = "modify" /\ big.type \in Types /\ big.base \in Contents /\ Len(big.data) \in Nat
      /\ big.size \in Nat /\ Len(big.data) <= big.size
      /\ upl.pc = "idle" /\ SmallTyped(upl)
      /\ LargeOne(Entry, EntryRow, EntryData, of, Stage(proc), upl, big, srv.now)
  BY <1>0, LargeIs, EntryHasData DEF LargeOne, LargeTyped, Contents
<1>2. WriteId(of, EntryRow) = big.w =>
        /\ big.ints = EntryData.i /\ big.size = Len(EntryData.d)
        /\ big.data = SubSeq(whole, 1, Len(big.data))
  BY <1>0, <1>1 DEF LargeOne
<1>3. /\ whole \in Contents /\ Len(whole) = Len(EntryData.d)
      /\ \A j \in 1..Len(EntryData.d) : whole[j] = IF j \in EntryData.i THEN EntryData.d[j] ELSE At(big.base, j)
  BY <1>1, ContentIs
<1> HIDE DEF whole
<1>4. CASE Len(big.data) = big.size
  <2>1. big' = [big EXCEPT !.pc = "check"] /\ upl' = upl
    BY <1>4 DEF upload_modify, Step
  <2>2. /\ LargeTyped(big') /\ big'.pc = "check" /\ big'.data = big.data /\ big'.t = big.t /\ big'.w = big.w
        /\ big'.type = big.type /\ big'.base = big.base /\ big'.current = big.current
    BY <1>1, <2>1 DEF LargeTyped
  <2>3. WriteId(of, EntryRow) = big.w => big.data = whole
    BY <1>2, <1>3, <1>4, WholePrefix
  <2>4. LargeOne(Entry, EntryRow, EntryData, of, Stage(proc), upl', big', srv.now)
    BY <1>0, <1>1, <2>1, <2>2, <2>3 DEF LargeOne, whole
  <2> QED BY <1>0, <1>1, <2>1, <2>2, <2>4, LargeMoves
<1>5. CASE Len(big.data) # big.size /\ big.stop
  <2>1. Fails
    BY <1>5 DEF upload_modify
  <2> QED BY <1>0, <2>1, FailsRight
<1>6. CASE Len(big.data) # big.size /\ ~big.stop /\ k \in big.ints
  <2>1. big' = [big EXCEPT !.pc = "read"] /\ upl' = upl
    BY <1>6 DEF upload_modify, Step
  <2>2. /\ LargeTyped(big') /\ big'.pc = "read" /\ big'.data = big.data /\ big'.t = big.t /\ big'.w = big.w
        /\ big'.type = big.type /\ big'.base = big.base /\ big'.current = big.current
        /\ big'.size = big.size /\ big'.ints = big.ints
    BY <1>1, <2>1 DEF LargeTyped
  <2>3. Len(big.data) < big.size
    BY <1>1, <1>6
  <2>4. LargeOne(Entry, EntryRow, EntryData, of, Stage(proc), upl', big', srv.now)
    BY <1>0, <1>1, <1>6, <2>1, <2>2, <2>3 DEF LargeOne
  <2> QED BY <1>0, <1>1, <2>1, <2>2, <2>4, LargeMoves
<1>7. CASE Len(big.data) # big.size /\ ~big.stop /\ k \notin big.ints
  <2> DEFINE data == Append(big.data, v)
  <2>1. big' = [big EXCEPT !.data = data] /\ upl' = upl
    BY <1>7 DEF upload_modify
  <2>2. v \in Int /\ v = At(big.base, k) /\ k \in Nat /\ k >= 1
    BY <1>1 DEF Contents, At
  <2> HIDE DEF v
  <2>3. data \in Contents /\ Len(data) = k
    BY <1>1, <2>2 DEF Contents
  <2>4. WriteId(of, EntryRow) = big.w => data = SubSeq(whole, 1, Len(data))
    <3> SUFFICES ASSUME WriteId(of, EntryRow) = big.w PROVE data = SubSeq(whole, 1, Len(data))
      OBVIOUS
    <3>1. k <= Len(whole) /\ k \in 1..Len(EntryData.d)
      BY <1>1, <1>2, <1>3, <1>7, <2>2
    <3>2. v = whole[k]
      BY <1>2, <1>3, <1>7, <2>2, <3>1
    <3> QED BY <1>1, <1>2, <1>3, <3>1, <3>2, PrefixGrows
  <2> HIDE DEF data
  <2>5. /\ LargeTyped(big') /\ big'.pc = "modify" /\ big'.data = data /\ big'.t = big.t /\ big'.w = big.w
        /\ big'.type = big.type /\ big'.base = big.base /\ big'.current = big.current
        /\ big'.size = big.size /\ big'.ints = big.ints
    BY <1>0, <1>1, <2>1, <2>3 DEF LargeTyped
  <2>6. Len(data) <= big.size
    BY <1>1, <1>7, <2>3
  <2>7. LargeOne(Entry, EntryRow, EntryData, of, Stage(proc), upl', big', srv.now)
    BY <1>0, <1>1, <1>2, <2>1, <2>4, <2>5, <2>6 DEF LargeOne, whole
  <2> QED BY <1>0, <1>1, <2>1, <2>5, <2>7, LargeMoves
<1> QED BY <1>4, <1>5, <1>6, <1>7

LEMMA SendLocalRight ==
  ASSUME IInv, CInv, ~Damaged', upload_modify_send_local
  PROVE  CInv'
<1> DEFINE k == Len(big.data) + 1
           v == file[big.t].d[k]
           whole == Content(big.type, big.base, EntryData)
           short == big.t \notin DOMAIN file \/ Len(file[big.t].d) < k
<1>0. big.pc = "read" /\ SendingLarge(big) /\ UNCHANGED <<of, file, srv, rel, proc>>
  BY DEF upload_modify_send_local, SendingLarge
<1>a. ~short
  <2>1. ASSUME short PROVE FALSE
    <3>1. ghost' = Noting(ghost, {"shrunk"})
      BY <2>1 DEF upload_modify_send_local
    <3>2. DOMAIN ghost = GhostFields
      BY DEF IInv, TabFits
    <3>3. {"shrunk"} \cap Damages = {}
      <4> DEFINE flags == {"shrunk"}
                 g == ghost
      <4>1. ghost' = Noting(ghost, flags)
        BY <3>1
      <4> HIDE DEF flags
      <4>2. flags \cap Damages = {}
        BY <3>2, <4>1, Undamaged
      <4> QED BY <4>2 DEF flags
    <3> QED BY <3>3 DEF Damages
  <2> QED BY <2>1
<1>b. /\ big' = [big EXCEPT !.pc = "modify", !.data = Append(big.data, v)] /\ UNCHANGED <<tab, upl, ghost>>
  BY <1>a DEF upload_modify_send_local, Step
<1>1. /\ big.t = Entry /\ EntryData = file[Entry] /\ DataFits(EntryData) /\ EntryData # NoData
      /\ EntryData.d \in Contents /\ big.data \in Contents /\ LargeTyped(big)
      /\ big.type = "modify" /\ big.type \in Types /\ big.base \in Contents /\ Len(big.data) \in Nat
      /\ big.size \in Nat /\ Len(big.data) < big.size /\ k \in big.ints
      /\ upl.pc = "idle" /\ SmallTyped(upl)
      /\ LargeOne(Entry, EntryRow, EntryData, of, Stage(proc), upl, big, srv.now)
  BY <1>0, LargeIs, EntryHasData DEF LargeOne, LargeTyped, Contents
<1>2. WriteId(of, EntryRow) = big.w =>
        /\ big.ints = EntryData.i /\ big.size = Len(EntryData.d)
        /\ big.data = SubSeq(whole, 1, Len(big.data))
  BY <1>0, <1>1 DEF LargeOne
<1>3. /\ whole \in Contents /\ Len(whole) = Len(EntryData.d)
      /\ \A j \in 1..Len(EntryData.d) : whole[j] = IF j \in EntryData.i THEN EntryData.d[j] ELSE At(big.base, j)
  BY <1>1, ContentIs
<1> HIDE DEF whole
<1> DEFINE data == Append(big.data, v)
<1>4. k \in Nat /\ k >= 1 /\ k \in 1..Len(EntryData.d) /\ v = EntryData.d[k] /\ v \in Int
  BY <1>1, <1>a DEF Contents
<1> HIDE DEF v
<1>5. data \in Contents /\ Len(data) = k
  BY <1>1, <1>4 DEF Contents
<1>6. WriteId(of, EntryRow) = big.w => data = SubSeq(whole, 1, Len(data))
  <2> SUFFICES ASSUME WriteId(of, EntryRow) = big.w PROVE data = SubSeq(whole, 1, Len(data))
    OBVIOUS
  <2>1. k <= Len(whole) /\ v = whole[k]
    BY <1>1, <1>2, <1>3, <1>4
  <2> QED BY <1>1, <1>2, <1>3, <2>1, PrefixGrows
<1> HIDE DEF data
<1>7. /\ LargeTyped(big') /\ big'.pc = "modify" /\ big'.data = data /\ big'.t = big.t /\ big'.w = big.w
      /\ big'.type = big.type /\ big'.base = big.base /\ big'.current = big.current
      /\ big'.size = big.size /\ big'.ints = big.ints
  BY <1>0, <1>1, <1>b, <1>5 DEF LargeTyped, data
<1>8. Len(data) <= big.size
  BY <1>1, <1>5
<1>9. LargeOne(Entry, EntryRow, EntryData, of, Stage(proc), upl', big', srv.now)
  BY <1>0, <1>1, <1>2, <1>b, <1>6, <1>7, <1>8 DEF LargeOne, whole
<1> QED BY <1>0, <1>1, <1>b, <1>7, <1>9, LargeMoves

\* What a checked upload has is what was written last.
LEMMA CheckedIsLast ==
  ASSUME IInv, CInv, SendingLarge(big), big.pc \in {"check", "meta"}, get_file_writeid(big.t) = big.w
  PROVE  /\ big.data = ghost.last /\ EntryData # NoData /\ Right(EntryRow, EntryData, big.data)
         /\ Entry \in DOMAIN file /\ EntryData = file[Entry]
<1>1. /\ LargeOne(Entry, EntryRow, EntryData, of, Stage(proc), upl, big, srv.now)
      /\ WriteId(of, EntryRow) = big.w /\ Stage(proc) = "none" /\ EntryRow # NoRow
      /\ big.type = EntryRow.type /\ big.base = EntryRow.base
  BY LargeIs
<1>2. EntryData # NoData /\ big.data = Content(big.type, big.base, EntryData)
  BY <1>1 DEF LargeOne
<1>3. Right(EntryRow, EntryData, ghost.last)
  BY <1>1, <1>2 DEF CInv, Written
<1>4. big.data = ghost.last
  BY <1>1, <1>2, <1>3 DEF Right
<1> QED BY <1>2, <1>3, <1>4, EntryHasData

LEMMA LargeSaveRight ==
  ASSUME IInv, CInv, large_upload_save
  PROVE  CInv'
<1>0. big.pc = "check" /\ SendingLarge(big) /\ UNCHANGED <<of, file, rel, ghost, proc, tab>>
  BY DEF large_upload_save, SendingLarge
<1>1. CASE Fails /\ srv' = srv
  BY <1>0, <1>1, FailsRight
<1>2. CASE get_file_writeid(big.t) = big.w /\ Saved(big.data) /\ big' = Step("meta") /\ upl' = upl
  <2>1. /\ big' = [big EXCEPT !.pc = "meta"]
        /\ srv' = [srv EXCEPT !.now = big.data, !.saved = @ \cup {big.data}]
    BY <1>2 DEF Saved, Step
  <2>2. /\ big.data = ghost.last /\ EntryData # NoData /\ LargeTyped(big) /\ upl.pc = "idle" /\ EntryRow # NoRow
        /\ Stage(proc) = "none"
        /\ LargeOne(Entry, EntryRow, EntryData, of, Stage(proc), upl, big, srv.now)
    BY <1>0, <1>2, CheckedIsLast, LargeIs
  <2>3. /\ LargeTyped(big') /\ big'.pc = "meta" /\ big'.data = big.data /\ big'.t = big.t /\ big'.w = big.w
        /\ big'.type = big.type /\ big'.base = big.base /\ big'.current = big.current
    BY <2>1, <2>2 DEF LargeTyped
  <2>4. SrvTyped(srv') /\ srv'.now = big.data /\ srv'.saved = srv.saved \cup {big.data}
    BY <2>1, <2>2, TabIs DEF SrvTyped, LargeTyped
  <2>5. srv'.saved \subseteq ghost.versions
    BY <2>2, <2>4 DEF CInv, Versions
  <2>6. Filing(EntryRow, EntryData, of, Stage(proc), ghost.last, tab.mir, srv'.now)
    BY <2>2 DEF CInv, Filing
  <2>7. LargeOne(Entry, EntryRow, EntryData, of, Stage(proc), upl', big', srv'.now)
    BY <1>0, <1>2, <2>2, <2>3, <2>4 DEF LargeOne
  <2>8. /\ Small(Entry, EntryRow, EntryData, of, Stage(proc), upl', srv'.now)
        /\ Entered(EntryRow, tab.rows, file, upl', ghost.last) /\ Naming(Entry, tab.rows, of, upl')
        /\ SmallTyped(upl')
    BY <1>2, <2>2, TabIs DEF CInv, Small, Sending
  <2> QED BY <1>0, <2>3, <2>4, <2>5, <2>6, <2>7, <2>8, ThreadsMove
<1> QED BY <1>1, <1>2 DEF large_upload_save

LEMMA LostLargeRight ==
  ASSUME IInv, CInv, LostLarge
  PROVE  CInv'
BY FailsRight DEF LostLarge, SendingLarge

LEMMA Appended ==
  ASSUME NEW S, NEW c \in Seq(S), NEW x \in S
  PROVE  /\ Append(c, x) \in Seq(S) /\ Len(Append(c, x)) = Len(c) + 1 /\ Len(c) \in Nat
         /\ \A k \in 1..(Len(c) + 1) : Append(c, x)[k] = IF k = Len(c) + 1 THEN x ELSE c[k]
         /\ DOMAIN Append(c, x) = 1..(Len(c) + 1) /\ DOMAIN c = 1..Len(c)
OBVIOUS

LEMMA SaveMetaRight ==
  ASSUME IInv, CInv, save_meta
  PROVE  CInv'
<1>0. big.pc = "meta" /\ SendingLarge(big) /\ UNCHANGED <<file, srv, rel, ghost, proc>>
  BY DEF save_meta, SendingLarge
<1>1. CASE get_file_writeid(big.t) # big.w
  BY <1>0, <1>1, FailsRight DEF save_meta
<1>2. CASE get_file_writeid(big.t) = big.w
  <2> DEFINE t == Entry
             hash == big.data
             task == [t |-> t, type |-> big.type, hash |-> hash, old |-> big.base]
             entries == WithoutEntry(Entry)
             cache == Append(tab.cache, task)
             arrows == WithoutArrows(tab.rows, t)
             rows == WithStatus(arrows, t, 3)
  <2>1. /\ big.t = t /\ t \in DOMAIN tab.rows /\ t \in Nat \ {0} /\ Stage(proc) = "none" /\ Entering(upl) = {}
        /\ big.type = EntryRow.type /\ big.base = EntryRow.base /\ EntryRow.type \in Types
        /\ EntryRow.base \in Contents /\ LargeTyped(big) /\ SmallTyped(upl) /\ upl.pc = "idle"
        /\ LargeOne(Entry, EntryRow, EntryData, of, Stage(proc), upl, big, srv.now)
    BY <1>0, LargeIs
  <2>2. /\ hash = ghost.last /\ EntryData # NoData /\ Right(EntryRow, EntryData, hash) /\ srv.now = hash
        /\ EntryData = file[t] /\ hash \in Contents
    BY <1>0, <1>2, <2>1, CheckedIsLast DEF LargeOne, LargeTyped
  <2>3. /\ psync_fs_update_openfile(Entry, hash)
        /\ tab' = [tab EXCEPT !.mir = hash, !.entries = entries, !.cache = cache, !.rows = rows]
        /\ \E b : upl' = Woken(b)
        /\ big' = [big EXCEPT !.pc = "pick"]
    <3>1. /\ psync_fs_update_openfile(Entry, hash)
          /\ tab' = [tab EXCEPT !.mir = hash, !.entries = entries, !.cache = cache, !.rows = rows]
          /\ upl' = Woken(HasArrows(tab.rows, t))
          /\ big' = [big EXCEPT !.pc = "pick"]
      BY <1>2, <2>1 DEF save_meta, Step
    <3> QED BY <3>1
  <2>4. DOMAIN rows = DOMAIN tab.rows /\ RowsTyped(rows) /\ Live(rows) = Live(tab.rows) \ {t}
    <3>1. /\ DOMAIN arrows = DOMAIN tab.rows /\ RowsFit(arrows, ghost.rows) /\ RowsTyped(arrows)
          /\ \A i \in DOMAIN arrows : arrows[i].status = tab.rows[i].status
      <4>1. RowsFit(arrows, ghost.rows)
        BY TabIs, RowTaken
      <4>2. /\ DOMAIN arrows = DOMAIN tab.rows
            /\ \A i \in DOMAIN arrows : /\ arrows[i].status = tab.rows[i].status /\ arrows[i].type = tab.rows[i].type
                                        /\ arrows[i].base = tab.rows[i].base /\ arrows[i].int1 = tab.rows[i].int1
        BY TabIs DEF WithoutArrows, RowsFit, RowFields
      <4> HIDE DEF arrows
      <4> QED BY <4>1, <4>2, TabIs DEF RowsTyped
    <3> HIDE DEF arrows
    <3> DEFINE s == 3
    <3>2. rows = WithStatus(arrows, t, s)
      OBVIOUS
    <3> HIDE DEF s, rows, t
    <3>3. /\ DOMAIN rows = DOMAIN arrows /\ RowsTyped(rows) /\ RowsKept(rows, arrows, t)
          /\ t \in DOMAIN arrows => rows[t].status = s
      BY <3>1, <3>2, RowsMarked
    <3>4. Live(rows) = Live(tab.rows) \ {t}
      BY <2>1, <3>1, <3>3 DEF Live, RowsKept, s
    <3> QED BY <3>1, <3>3, <3>4
  <2>5. task \in [t : Nat, type : Types, hash : Contents, old : Contents]
    BY <2>1, <2>2
  <2>6. /\ CacheTyped(cache) /\ Len(cache) = Len(tab.cache) + 1 /\ Len(tab.cache) \in Nat
        /\ \A k \in 1..Len(cache) : cache[k] = IF k = Len(cache) THEN task ELSE tab.cache[k]
        /\ DOMAIN cache = 1..Len(cache) /\ DOMAIN tab.cache = 1..Len(tab.cache)
    <3> DEFINE S == [t : Nat, type : Types, hash : Contents, old : Contents]
               old == tab.cache
    <3>1. old \in Seq(S) /\ task \in S
      BY <2>5, TabIs DEF CacheTyped
    <3> HIDE DEF task, S, old
    <3>2. /\ Append(old, task) \in Seq(S) /\ Len(Append(old, task)) = Len(old) + 1 /\ Len(old) \in Nat
          /\ \A k \in 1..(Len(old) + 1) : Append(old, task)[k] = IF k = Len(old) + 1 THEN task ELSE old[k]
          /\ DOMAIN Append(old, task) = 1..(Len(old) + 1) /\ DOMAIN old = 1..Len(old)
      BY <3>1, Appended
    <3> QED BY <3>2 DEF CacheTyped, S, old
  <2>7. task.t = t /\ task.type = EntryRow.type /\ task.hash = hash /\ task.old = EntryRow.base
    BY <2>1
  <2> HIDE DEF rows, cache, entries, task, hash
  <2>8. /\ DOMAIN tab' = TabFields /\ tab'.mir = hash /\ tab'.entries = entries /\ tab'.cache = cache
        /\ tab'.rows = rows /\ tab'.lost = tab.lost /\ tab'.pages = tab.pages /\ tab'.caching = tab.caching
    BY <2>3, TabIs DEF TabFields
  <2>9. Live(rows) = {} /\ Live(rows) \subseteq Live(tab.rows)
    BY <2>1, <2>4, TabIs DEF Naming
  <2>10. Handed(rows, file, cache, tab.caching)
    <3>1. ASSUME NEW k \in 1..Len(cache), cache[k].t \in DOMAIN file
          PROVE  Right([type |-> cache[k].type, base |-> cache[k].old], file[cache[k].t], cache[k].hash)
      <4>1. CASE k = Len(cache)
        <5> DEFINE r == [type |-> EntryRow.type, base |-> EntryRow.base]
        <5>1. cache[k] = task
          BY <2>6, <4>1
        <5>2. Right(r, EntryData, hash)
          BY <2>2 DEF Right
        <5> QED BY <2>2, <2>7, <5>1, <5>2
      <4>2. CASE k # Len(cache)
        <5>1. k \in DOMAIN tab.cache /\ cache[k] = tab.cache[k]
          BY <2>6, <4>2
        <5> QED BY <3>1, <5>1 DEF CInv, Handed
      <4> QED BY <4>1, <4>2
    <3>2. tab.caching = "del" => cache # <<>> /\ cache[1].t \notin DOMAIN file
      <4>1. tab.caching = "del" => tab.cache # <<>> /\ tab.cache[1].t \notin DOMAIN file
        BY DEF CInv, Handed
      <4>2. tab.cache # <<>> => Len(tab.cache) > 0
        BY TabIs DEF CacheTyped
      <4> QED BY <2>6, <4>1, <4>2
    <3> QED BY <2>6, <2>9, <3>1, <3>2 DEF Handed
  <2>11. SmallTyped(upl') /\ upl'.pc = "idle"
    BY <2>1, <2>3, WokenTyped
  <2>12. LargeTyped(big') /\ ~SendingLarge(big')
    BY <2>1, <2>3 DEF LargeTyped, SendingLarge
  <2>13. ~Sending(upl') /\ 0 \notin Entering(upl') /\ Entered(NoRow, rows, file, upl', ghost.last)
    BY <2>11 DEF Sending, Entering, Entered
  <2> QED BY <1>0, <2>1, <2>2, <2>3, <2>4, <2>6, <2>8, <2>9, <2>10, <2>11, <2>12, <2>13, AnswerRight DEF entries
<1> QED BY <1>1, <1>2

----------------------------------------------------------------------------
(* The cache, and the diff thread.                                         *)

LEMMA CacheHead ==
  ASSUME IInv, CInv, tab.cache # <<>>
  PROVE  /\ Head(tab.cache) = tab.cache[1] /\ 1 \in DOMAIN tab.cache
         /\ tab.cache[1].t \notin Live(tab.rows)
         /\ tab.cache[1].type \in Types /\ tab.cache[1].hash \in Contents /\ tab.cache[1].old \in Contents
         /\ tab.cache[1].t \in DOMAIN file =>
              Right([type |-> tab.cache[1].type, base |-> tab.cache[1].old], file[tab.cache[1].t],
                    tab.cache[1].hash)
<1> DEFINE S == [t : Nat, type : Types, hash : Contents, old : Contents]
           c == tab.cache
<1>1. c \in Seq(S)
  BY TabIs DEF CacheTyped
<1>2. Head(c) = c[1] /\ 1 \in DOMAIN c /\ c[1] \in S
  <2> HIDE DEF S, c
  <2>1. c # <<>>
    BY DEF c
  <2> QED BY <1>1, <2>1
<1>3. Handed(tab.rows, file, tab.cache, tab.caching)
  BY DEF CInv
<1> QED BY <1>2, <1>3 DEF Handed

LEMMA CacheUploadedRight ==
  ASSUME IInv, CInv, CacheUploaded
  PROVE  CInv'
<1> DEFINE c == tab.cache[1]
           t == c.t
           S == {t}
           pages == IF c.type = "creat" THEN Cached(c.t, c.hash)
                    ELSE IF c.t \in DOMAIN file
                    THEN psync_pagecache_modify_to_cache(file[c.t], c.hash, c.old)
                    ELSE tab.pages
           r == [type |-> c.type, base |-> c.old]
<1>1. /\ tab.cache # <<>> /\ Head(tab.cache) = c /\ 1 \in DOMAIN tab.cache /\ t \notin Live(tab.rows)
      /\ c.type \in Types /\ c.hash \in Contents /\ c.old \in Contents
      /\ t \in DOMAIN file => Right(r, file[t], c.hash)
  BY CacheHead DEF CacheUploaded
<1> HIDE DEF c
<1>2. tab' = [tab EXCEPT !.pages = pages, !.caching = "del"] /\ file' = Without(file, S)
      /\ UNCHANGED <<proc, of, srv, rel, upl, big, ghost>>
  BY <1>1 DEF CacheUploaded
<1>3. TruePages(pages)
  <2>0. TruePages(tab.pages)
    BY DEF CInv
  <2>1. ASSUME t \in DOMAIN file, c.type = "creat" PROVE TruePages(pages)
    <3> DEFINE h == c.hash
    <3>1. file[t].d = h
      BY <1>1, <2>1, TabIs, RightIs DEF FilesTyped
    <3> HIDE DEF h
    <3>2. TruePages({PageOf(h, h, n) : n \in 1..NumPages(Len(h))})
      BY <1>1, PagesMade DEF h
    <3>3. pages = AddPages(tab.pages, {PageOf(h, h, n) : n \in 1..NumPages(Len(h))})
      BY <2>1, <3>1 DEF Cached, h
    <3> QED BY <2>0, <3>2, <3>3, PagesAdded
  <2>2. ASSUME t \in DOMAIN file, c.type = "modify" PROVE TruePages(pages)
    <3> DEFINE f == file[t]
    <3>1. DataFits(f) /\ Right(r, f, c.hash) /\ r.type = "modify" /\ r.base = c.old
      BY <1>1, <2>2, TabIs DEF FilesTyped
    <3> HIDE DEF f, r
    <3>2. TruePages(psync_pagecache_modify_to_cache(f, c.hash, c.old))
      BY <1>1, <2>0, <3>1, PagesMixed
    <3> QED BY <2>2, <3>2 DEF f
  <2>3. t \notin DOMAIN file => pages = tab.pages
    BY DEF Cached
  <2> QED BY <1>1, <2>0, <2>1, <2>2, <2>3 DEF Types
<1> HIDE DEF pages
<1>4. /\ DOMAIN tab' = TabFields /\ tab'.entries = tab.entries /\ tab'.lost = tab.lost /\ tab'.mir = tab.mir
      /\ tab'.rows = tab.rows /\ tab'.cache = tab.cache /\ tab'.caching = "del" /\ tab'.pages = pages
  BY <1>2, TabIs DEF TabFields
<1>5. /\ DOMAIN file' = DOMAIN file \ {t} /\ FilesTyped(file') /\ Data(file', Entry) = EntryData
      /\ \A x \in DOMAIN file' : file'[x] = file[x]
  <2> HIDE DEF S
  <2>1. FilesTyped(file) /\ file' = Without(file, S)
    BY <1>2, TabIs
  <2>2. /\ DOMAIN file' = DOMAIN file \ S /\ FilesTyped(file')
        /\ \A x \in DOMAIN file' : file'[x] = file[x]
    BY <2>1 DEF Without, Restrict, FilesTyped
  <2>3. Entry \in DOMAIN file => Entry \in Live(tab.rows)
    BY TabIs DEF Naming
  <2> QED BY <1>1, <2>2, <2>3 DEF EntryData, Data, S
<1>6. Entered(EntryRow, tab.rows, file', upl, ghost.last)
  <2>1. Entered(EntryRow, tab.rows, file, upl, ghost.last)
    BY DEF CInv
  <2>2. upl.pc \in {"cache", "del"} => upl.t \in Live(tab.rows)
    BY <2>1 DEF Entered, Live
  <2> QED BY <1>1, <1>5, <2>1, <2>2 DEF Entered
<1>7. Handed(tab.rows, file', tab.cache, "del")
  <2>1. Handed(tab.rows, file', tab.cache, tab.caching)
    BY <1>5, TabIs, HandedLess DEF CInv
  <2>2. tab.cache[1].t \notin DOMAIN file'
    BY <1>5 DEF c
  <2> QED BY <1>1, <2>1, <2>2 DEF Handed
<1>8. /\ Small(Entry, EntryRow, EntryData, of, Stage(proc), upl', srv.now)
      /\ LargeOne(Entry, EntryRow, EntryData, of, Stage(proc), upl', big', srv.now)
      /\ Naming(Entry, tab.rows, of, upl') /\ SmallTyped(upl') /\ LargeTyped(big')
  BY <1>2, TabIs DEF CInv
<1>9. DOMAIN file' \subseteq DOMAIN tab.rows
  BY <1>5, TabIs
<1> QED BY <1>2, <1>3, <1>4, <1>5, <1>6, <1>7, <1>8, <1>9, TabIs, BehindTheEntry DEF EntryRow

LEMMA CacheEndsRight ==
  ASSUME IInv, CInv, CacheEnds
  PROVE  CInv'
<1> DEFINE t == tab.cache[1].t
           rows == WithoutRow(tab.rows, t)
           cache == Tail(tab.cache)
<1>1. /\ tab.caching = "del" /\ tab.cache # <<>> /\ Head(tab.cache).t = t /\ t \notin Live(tab.rows)
      /\ t \notin DOMAIN file
  <2>1. tab.caching = "del" /\ tab.cache # <<>> /\ tab.cache[1].t \notin DOMAIN file
    BY DEF CacheEnds, CInv, Handed
  <2> QED BY <2>1, CacheHead
<1>2. /\ tab' = [tab EXCEPT !.rows = rows, !.cache = cache, !.caching = "idle"]
      /\ upl' = [upl EXCEPT !.wake = upl.wake \/ HasArrows(tab.rows, t)]
      /\ UNCHANGED <<proc, of, file, srv, rel, big, ghost>>
  BY <1>1 DEF CacheEnds, Woken
<1>3. /\ DOMAIN rows = DOMAIN tab.rows \ {t} /\ RowsTyped(rows) /\ Live(rows) = Live(tab.rows) \ {t}
      /\ RowsKept(rows, tab.rows, t)
  <2>1. RowsFit(tab.rows, ghost.rows) /\ RowsTyped(tab.rows) /\ rows = WithoutRow(tab.rows, t)
    BY TabIs
  <2> HIDE DEF rows, t
  <2> QED BY <2>1, RowsLess
<1> HIDE DEF rows, t
<1>4. Entry \in DOMAIN tab.rows => Entry \in Live(tab.rows) /\ Entry # t
  BY <1>1, TabIs DEF Naming
<1>5. Row(rows, Entry) = EntryRow
  <2>1. Entry \in DOMAIN rows <=> Entry \in DOMAIN tab.rows
    BY <1>3, <1>4
  <2> QED BY <1>3, <1>4, <2>1, RowsSame DEF EntryRow, RowsKept
<1>6. /\ CacheTyped(cache)
      /\ \A k \in DOMAIN cache : k + 1 \in DOMAIN tab.cache /\ cache[k] = tab.cache[k + 1]
  <2> DEFINE S == [t : Nat, type : Types, hash : Contents, old : Contents]
             old == tab.cache
  <2>1. old \in Seq(S) /\ old # <<>>
    BY <1>1, TabIs DEF CacheTyped
  <2> HIDE DEF S, old
  <2>2. Tail(old) \in Seq(S) /\ \A k \in DOMAIN Tail(old) : k + 1 \in DOMAIN old /\ Tail(old)[k] = old[k + 1]
    BY <2>1
  <2> QED BY <2>2 DEF CacheTyped, S, old
<1> HIDE DEF cache
<1>7. /\ DOMAIN tab' = TabFields /\ tab'.entries = tab.entries /\ tab'.lost = tab.lost /\ tab'.mir = tab.mir
      /\ tab'.rows = rows /\ tab'.cache = cache /\ tab'.caching = "idle" /\ tab'.pages = tab.pages
  BY <1>2, TabIs DEF TabFields
<1>8. /\ SmallTyped(upl') /\ upl'.pc = upl.pc /\ upl'.t = upl.t /\ upl'.w = upl.w /\ upl'.size = upl.size
      /\ upl'.data = upl.data
  BY <1>2, TabIs DEF SmallTyped
<1>9. Naming(Entry, rows, of, upl')
  <2>1. Entering(upl') = Entering(upl)
    BY <1>8 DEF Entering
  <2>2. \A x \in DOMAIN rows : x # t /\ rows[x].status = tab.rows[x].status
    BY <1>3 DEF RowsKept
  <2>3. Entry \in DOMAIN tab.rows => Entry \in DOMAIN rows
    BY <1>3, <1>4
  <2> QED BY <1>3, <1>4, <1>8, <2>1, <2>2, <2>3, TabIs DEF Naming
<1>10. Entered(EntryRow, rows, file, upl', ghost.last)
  <2>1. Entered(EntryRow, tab.rows, file, upl, ghost.last)
    BY DEF CInv
  <2>2. upl.pc \in {"cache", "del"} => upl.t \in Live(tab.rows) /\ upl.t # t
    BY <1>1, <2>1 DEF Entered, Live
  <2> QED BY <1>3, <1>8, <2>1, <2>2 DEF Entered, RowsKept
<1>11. Handed(rows, file, cache, "idle")
  <2>1. Handed(tab.rows, file, tab.cache, tab.caching)
    BY DEF CInv
  <2> QED BY <1>3, <1>6, <2>1 DEF Handed
<1>12. Small(Entry, EntryRow, EntryData, of, Stage(proc), upl', srv.now)
  BY <1>8 DEF CInv, Small, Sending
<1>13. LargeOne(Entry, EntryRow, EntryData, of, Stage(proc), upl', big', srv.now)
  <2>1. LargeOne(Entry, EntryRow, EntryData, of, Stage(proc), upl, big, srv.now)
    BY DEF CInv
  <2> QED BY <1>2, <1>8, <2>1 DEF LargeOne
<1>14. /\ DOMAIN file' \subseteq DOMAIN rows /\ FilesTyped(file') /\ LargeTyped(big')
       /\ Data(file', Entry) = EntryData /\ TruePages(tab.pages)
  BY <1>1, <1>2, <1>3, TabIs DEF EntryData, CInv
<1> QED BY <1>2, <1>3, <1>5, <1>6, <1>7, <1>8, <1>9, <1>10, <1>11, <1>12, <1>13, <1>14, BehindTheEntry

LEMMA DiffAsksRight ==
  ASSUME IInv, CInv, DiffAsks
  PROVE  CInv'
<1>1. /\ UNCHANGED <<proc, of, file, tab, rel, upl, big, ghost>> /\ srv' = [srv EXCEPT !.diff = <<srv.now>>]
  BY DEF DiffAsks
<1>2. SrvTyped(srv') /\ srv'.now = srv.now /\ srv'.saved = srv.saved
  BY <1>1, TabIs DEF SrvTyped
<1> QED BY <1>1, <1>2, TabIs, ThreadsMove DEF CInv, Versions

LEMMA ModifyFileRight ==
  ASSUME IInv, CInv, ~Damaged', process_modifyfile
  PROVE  CInv'
<1> DEFINE mir == Head(srv.diff)
<1>1. mir = srv.now
  <2>1. ASSUME mir # srv.now PROVE FALSE
    <3> DEFINE flags == {"regressed"}
               g == ghost
    <3>1. ghost' = Noting(g, flags) /\ DOMAIN g = GhostFields
      BY <2>1 DEF process_modifyfile, IInv, TabFits
    <3> HIDE DEF flags
    <3>2. flags \cap Damages = {}
      BY <3>1, Undamaged
    <3> QED BY <3>2 DEF flags, Damages
  <2> QED BY <2>1
<1>2. /\ tab' = [tab EXCEPT !.mir = mir] /\ srv' = [srv EXCEPT !.diff = <<>>] /\ ghost' = ghost
      /\ UNCHANGED <<proc, of, file, rel, upl, big>>
  BY <1>1 DEF process_modifyfile
<1> HIDE DEF mir
<1>3. /\ tab'.entries = tab.entries /\ tab'.lost = tab.lost /\ tab'.mir = mir
      /\ tab'.rows = tab.rows /\ tab'.cache = tab.cache /\ tab'.caching = tab.caching /\ tab'.pages = tab.pages
  BY <1>2, TabIs DEF TabFields
<1>4. SrvTyped(srv') /\ srv'.now = srv.now /\ srv'.saved = srv.saved
  BY <1>2, TabIs DEF SrvTyped
<1>5. Entry' = Entry
  BY <1>3, EntryKept
<1>6. EntryRow' = EntryRow /\ EntryData' = EntryData
  BY <1>2, <1>3, <1>5 DEF EntryRow, EntryData
<1>7. Typed' /\ OneName(tab')
  BY <1>2, <1>3, <1>4, TabIs DEF CInv, Typed, OneName
<1>8. Filing(EntryRow, EntryData, of, Stage(proc), ghost.last, mir, srv.now)
  BY <1>1 DEF CInv, Filing
<1> QED BY <1>2, <1>3, <1>4, <1>5, <1>6, <1>7, <1>8 DEF CInv

----------------------------------------------------------------------------
(* The open file: what a step leaves of it.                                *)

\* The same file, with the same content; its references and its timer may differ.
Alike(a, b) ==
  /\ a # NoFile /\ b # NoFile
  /\ a.id = b.id /\ a.newfile = b.newfile /\ a.modified = b.modified /\ a.writeid = b.writeid
  /\ a.size = b.size /\ a.initial = b.initial /\ a.hash = b.hash /\ a.local = b.local

LEMMA FileMovesRight ==
  ASSUME IInv, CInv, UNCHANGED <<file, tab, srv, upl, big>>, Alike(of', of),
         ghost'.last = ghost.last, ghost'.rows = ghost.rows, ghost'.versions = ghost.versions,
         Stage(proc') = Stage(proc), Single(proc'),
         Numbered(of', Stage(proc), proc', rel', ghost.rows),
         Settles(EntryRow, of', proc', rel', ghost.rows)
  PROVE  CInv'
<1>1. Entry' = Entry
  BY EntryKept
<1>2. EntryRow' = EntryRow /\ EntryData' = EntryData
  BY <1>1 DEF EntryRow, EntryData
<1>3. OpenTyped(of')
  BY TabIs DEF OpenTyped, Alike
<1>4. Typed' /\ OneName(tab')
  BY <1>3, TabIs DEF CInv, Typed, OneName
<1>5. Naming(Entry, tab.rows, of', upl)
  BY TabIs DEF Naming, Alike
<1>6. Filing(EntryRow, EntryData, of', Stage(proc), ghost.last, tab.mir, srv.now)
  BY DEF CInv, Filing, Alike
<1>7. OpenShows(EntryRow, EntryData, of', Stage(proc), ghost.last)
  BY DEF CInv, OpenShows, Alike
<1>8. WriteId(of', EntryRow) = WriteId(of, EntryRow)
  BY DEF WriteId, Alike
<1>9. /\ Small(Entry, EntryRow, EntryData, of', Stage(proc), upl, srv.now)
      /\ LargeOne(Entry, EntryRow, EntryData, of', Stage(proc), upl, big, srv.now)
  BY <1>8 DEF CInv, Small, LargeOne
<1>10. Versions(ghost', srv'.saved)
  BY DEF CInv, Versions
<1> QED BY <1>1, <1>2, <1>4, <1>5, <1>6, <1>7, <1>9, <1>10 DEF CInv

\* The file is closed: its row has been released with its write id.
LEMMA ClosedRight ==
  ASSUME IInv, IInv', CInv, UNCHANGED <<file, tab, srv, upl, big, ghost>>, of # NoFile, of' = NoFile,
         ~Locked, ~Pending(of.writeid, ghost.rows, proc, rel), ~Busy(proc)
  PROVE  CInv'
<1>1. Entry' = Entry
  BY EntryKept
<1>2. EntryRow' = EntryRow /\ EntryData' = EntryData
  BY <1>1 DEF EntryRow, EntryData
<1>3. rel' = <<>> /\ \A p \in Procs : ~proc'[p].open
  <2>1. Referenced(of', proc', rel') /\ ~IsOpen(of') /\ proc' \in [Procs -> ProcStates]
    BY OpenIsSomeFile DEF IInv
  <2> QED BY <2>1 DEF Referenced, Handles, Procs
<1>4. \A p \in Procs : proc'[p].pc = "idle"
  <2>1. \A p \in Procs : CallFits(user'.scripts[p], proc'[p], of')
    BY DEF IInv
  <2> QED BY <1>3, <2>1 DEF CallFits
<1>5. Stage(proc) = "none" /\ Stage(proc') = "none" /\ Single(proc')
  BY <1>4, Unlocked DEF Stage, Single
<1>6. Typed' /\ OneName(tab')
  BY TabIs DEF CInv, Typed, OneName, OpenTyped
<1>7. Naming(Entry, tab.rows, of', upl)
  BY TabIs DEF Naming
<1>8. Filing(EntryRow, EntryData, of', "none", ghost.last, tab.mir, srv.now)
  BY <1>5 DEF CInv, Filing
<1>9. /\ OpenShows(EntryRow, EntryData, of', "none", ghost.last)
      /\ Settles(EntryRow, of', proc', rel', ghost.rows)
      /\ Numbered(of', "none", proc', rel', ghost.rows)
  BY <1>3, <1>4 DEF OpenShows, Settles, Numbered
<1>10. EntryRow # NoRow => WriteId(of', EntryRow) = WriteId(of, EntryRow)
  <2> SUFFICES ASSUME EntryRow # NoRow PROVE WriteId(of', EntryRow) = WriteId(of, EntryRow)
    OBVIOUS
  <2>1. Entry \in DOMAIN tab.rows
    BY RowView DEF EntryRow
  <2>2. of.id # 0
    BY <2>1, TabIs DEF Naming
  <2>3. EntryRow.int1 = of.writeid
    BY <2>2 DEF CInv, Settles
  <2> QED BY <2>3 DEF WriteId
<1>11. Small(Entry, EntryRow, EntryData, of', "none", upl, srv.now)
  <2>1. Small(Entry, EntryRow, EntryData, of, "none", upl, srv.now)
    BY <1>5 DEF CInv
  <2> QED BY <1>10, <2>1 DEF Small
<1>12. LargeOne(Entry, EntryRow, EntryData, of', "none", upl, big, srv.now)
  <2>1. LargeOne(Entry, EntryRow, EntryData, of, "none", upl, big, srv.now)
    BY <1>5 DEF CInv
  <2> QED BY <1>10, <2>1 DEF LargeOne
<1> QED BY <1>1, <1>2, <1>5, <1>6, <1>7, <1>8, <1>9, <1>11, <1>12 DEF CInv

\* One of the programs goes on.
LEMMA StageKept ==
  ASSUME NEW pr, NEW q, NEW p \in Procs, \A x \in Procs : x # p => q[x] = pr[x],
         pr[p].pc \notin {"create", "fill"}, q[p].pc \notin {"create", "fill"}, Single(pr)
  PROVE  Stage(q) = Stage(pr) /\ Single(q)
<1>1. \A x \in Procs : q[x].pc = "create" <=> pr[x].pc = "create"
  OBVIOUS
<1>2. \A x \in Procs : q[x].pc = "fill" <=> pr[x].pc = "fill"
  OBVIOUS
<1> QED BY <1>1, <1>2 DEF Stage, Single

\* What the calls of the other program are.
LEMMA OthersStay ==
  ASSUME NEW pr \in [Procs -> ProcStates], NEW p \in Procs, NEW c, NEW q, q = [pr EXCEPT ![p] = c]
  PROVE  q[p] = c /\ \A x \in Procs : x # p => q[x] = pr[x]
OBVIOUS

\* A row is released with a write id of the open file.
LEMMA ReleaseRight ==
  ASSUME IInv, CInv, ~Damaged', NEW w, NEW n, Release(w, n), of # NoFile,
         Fresh(w, n, of, Stage(proc), ghost.rows), UNCHANGED <<of, file, srv, big>>,
         Stage(proc') = Stage(proc), Single(proc'),
         Numbered(of, Stage(proc), proc', rel', ghost.rows),
         Pending(of.writeid, ghost.rows, proc, rel) =>
           Pending(of.writeid, ghost.rows, proc', rel') \/ (of.writeid = w /\ n = ghost.rows),
         Busy(proc) => Busy(proc')
  PROVE  CInv'
<1>0. of.id = Entry /\ (Entry # 0 => Entry \in DOMAIN tab.rows)
  BY TabIs DEF Naming
<1>1. CASE Entry \notin DOMAIN tab.rows
  <2>1. UNCHANGED <<tab, upl, ghost>>
    BY <1>0, <1>1 DEF Release
  <2>2. Entry = 0
    BY <1>0, <1>1
  <2>3. Settles(EntryRow, of', proc', rel', ghost.rows)
    BY <1>0, <2>2 DEF Settles
  <2> QED BY <2>1, <2>3, FileMovesRight DEF Alike
<1>2. CASE Entry \in DOMAIN tab.rows
  <2> DEFINE t == Entry
             old == tab.rows[t]
             row == Released(old, w)
             rows == [tab.rows EXCEPT ![t] = row]
  <2>1. /\ tab' = [tab EXCEPT !.rows = rows]
        /\ upl' = IF old.status = 1 THEN [upl EXCEPT !.wake = TRUE] ELSE upl
        /\ ghost' = IF ghost.rows = n THEN ghost ELSE Noting(ghost, {"otherrow"})
    BY <1>0, <1>2 DEF Release
  <2>2. ghost' = ghost /\ n = ghost.rows
    <3>1. ASSUME ghost.rows # n PROVE FALSE
      <4> DEFINE flags == {"otherrow"}
                 g == ghost
      <4>1. ghost' = Noting(g, flags) /\ DOMAIN g = GhostFields
        BY <2>1, <3>1 DEF IInv, TabFits
      <4> HIDE DEF flags
      <4>2. flags \cap Damages = {}
        BY <4>1, Undamaged
      <4> QED BY <4>2 DEF flags, Damages
    <3> QED BY <2>1, <3>1
  <2>3. Stage(proc) = "none" /\ w \in Nat /\ w <= of.writeid /\ of.writeid \in Nat
    BY <2>2, TabIs DEF Fresh, OpenTyped
  <2>4. DOMAIN old = RowFields /\ old.int1 \in Nat /\ old.status \in 0..3
    BY <1>2, TabIs DEF RowsFit, RowsTyped
  <2>5. /\ DOMAIN row = RowFields /\ row.type = old.type /\ row.base = old.base
        /\ row.status = (IF old.status = 1 THEN 0 ELSE old.status)
        /\ row.int1 = (IF old.status = 1 THEN w ELSE Larger(old.int1, w)) /\ row.int1 \in Nat
    BY <2>3, <2>4 DEF Released, RowFields, Larger
  <2> HIDE DEF row
  <2>6. /\ DOMAIN rows = DOMAIN tab.rows /\ rows[t] = row
        /\ \A i \in DOMAIN rows : i # t => rows[i] = tab.rows[i]
    BY <1>2
  <2> HIDE DEF rows
  <2>7. RowsTyped(rows)
    BY <1>2, <2>5, <2>6, TabIs DEF RowsTyped
  <2>8. Live(rows) = Live(tab.rows)
    BY <1>2, <2>4, <2>5, <2>6 DEF Live
  <2>9. /\ tab'.entries = tab.entries /\ tab'.lost = tab.lost /\ tab'.mir = tab.mir
        /\ tab'.rows = rows /\ tab'.cache = tab.cache /\ tab'.caching = tab.caching /\ tab'.pages = tab.pages
    BY <2>1, TabIs DEF TabFields
  <2>10. /\ SmallTyped(upl') /\ upl'.pc = upl.pc /\ upl'.t = upl.t /\ upl'.w = upl.w /\ upl'.size = upl.size
         /\ upl'.data = upl.data
    BY <2>1, TabIs DEF SmallTyped
  <2>11. Entry' = Entry
    BY <2>9, EntryKept
  <2> DEFINE new == Row(rows, Entry)
  <2>12. EntryRow' = new /\ EntryData' = EntryData
    BY <2>9, <2>11 DEF EntryRow, EntryData
  <2>13. /\ new # NoRow /\ EntryRow # NoRow /\ new.type = EntryRow.type /\ new.base = EntryRow.base
         /\ EntryRow.status = old.status /\ EntryRow.int1 = old.int1
         /\ new.status = row.status /\ new.int1 = row.int1
    BY <1>2, <2>5, <2>6, RowView DEF EntryRow
  <2> HIDE DEF new, old
  <2>14. Typed' /\ OneName(tab')
    BY <2>7, <2>9, <2>10, TabIs DEF CInv, Typed, OneName
  <2>15. Naming(Entry, rows, of, upl')
    <3>1. Entering(upl') = Entering(upl)
      BY <2>10 DEF Entering
    <3>2. \A x \in DOMAIN rows : rows[x].status = 2 => tab.rows[x].status = 2
      BY <2>5, <2>6 DEF old
    <3> QED BY <2>6, <2>8, <2>10, <3>1, <3>2, TabIs DEF Naming
  <2>16. Filing(new, EntryData, of, Stage(proc), ghost.last, tab.mir, srv.now)
    BY <2>13 DEF CInv, Filing
  <2>17. Entered(new, rows, file, upl', ghost.last)
    <3>1. Entered(EntryRow, tab.rows, file, upl, ghost.last)
      BY DEF CInv
    <3>2. upl.pc \in {"cache", "del"} => upl.t # t
      BY TabIs DEF Naming, Entering
    <3> QED BY <2>6, <2>10, <2>13, <3>1, <3>2 DEF Entered
  <2>18. Handed(rows, file, tab.cache, tab.caching)
    BY <2>8 DEF CInv, Handed
  <2>19. OpenShows(new, EntryData, of, Stage(proc), ghost.last)
    BY <2>3, <2>13 DEF CInv, OpenShows
  <2>20. Written(new, EntryData, Stage(proc), ghost.last)
    <3>1. Right(new, EntryData, ghost.last) <=> Right(EntryRow, EntryData, ghost.last)
      BY <2>13 DEF Right
    <3> QED BY <2>13, <3>1 DEF CInv, Written
  <2>21. Settles(new, of, proc', rel', ghost.rows)
    <3>1. /\ EntryRow.int1 <= of.writeid
          /\ \/ EntryRow.int1 = of.writeid /\ EntryRow.status # 1
             \/ Pending(of.writeid, ghost.rows, proc, rel)
             \/ Busy(proc)
      BY <1>0, <1>2, TabIs DEF CInv, Settles
    <3>2. new.int1 <= of.writeid
      BY <2>3, <2>4, <2>5, <2>13, <3>1 DEF Larger
    <3>3. EntryRow.int1 = of.writeid /\ EntryRow.status # 1 => new.int1 = of.writeid /\ new.status # 1
      BY <2>3, <2>4, <2>5, <2>13 DEF Larger
    <3>4. of.writeid = w => new.int1 = of.writeid /\ new.status # 1
      BY <2>3, <2>4, <2>5, <2>13, <3>1 DEF Larger
    <3> QED BY <3>1, <3>2, <3>3, <3>4 DEF Settles
  <2>22. WriteId(of, new) = WriteId(of, EntryRow)
    BY DEF WriteId
  <2>23. Small(Entry, new, EntryData, of, Stage(proc), upl', srv.now)
    <3>1. Small(Entry, EntryRow, EntryData, of, Stage(proc), upl, srv.now) /\ (Sending(upl') <=> Sending(upl))
      BY <2>10 DEF CInv, Sending
    <3> QED BY <2>5, <2>10, <2>13, <2>22, <3>1 DEF Small
  <2>24. LargeOne(Entry, new, EntryData, of, Stage(proc), upl', big', srv.now)
    <3>1. LargeOne(Entry, EntryRow, EntryData, of, Stage(proc), upl, big, srv.now)
      BY DEF CInv
    <3> QED BY <2>10, <2>13, <2>22, <3>1 DEF LargeOne
  <2>25. DOMAIN file' \subseteq DOMAIN tab'.rows
    BY <2>6, <2>9, TabIs
  <2> QED BY <2>2, <2>9, <2>11, <2>12, <2>14, <2>15, <2>16, <2>17, <2>18, <2>19, <2>20, <2>21, <2>23, <2>24,
             <2>25 DEF CInv
<1> QED BY <1>1, <1>2

----------------------------------------------------------------------------
(* The write timer, and what closes a file.                                *)

LEMMA Concatenated ==
  ASSUME NEW S, NEW a \in Seq(S), NEW b \in Seq(S)
  PROVE  /\ a \o b \in Seq(S) /\ Len(a \o b) = Len(a) + Len(b)
         /\ \A k \in 1..(Len(a) + Len(b)) : (a \o b)[k] = IF k <= Len(a) THEN a[k] ELSE b[k - Len(a)]
OBVIOUS

LEMMA TakenOut ==
  ASSUME NEW S, NEW s \in Seq(S), NEW k \in 1..Len(s), NEW r, r = RemoveAt(s, k)
  PROVE  /\ r \in Seq(S) /\ Len(r) = Len(s) - 1 /\ DOMAIN r = 1..Len(r)
         /\ \A j \in 1..Len(r) : r[j] = IF j < k THEN s[j] ELSE s[j + 1]
<1> DEFINE a == SubSeq(s, 1, k - 1)
           b == SubSeq(s, k + 1, Len(s))
<1>0. k \in Nat /\ k >= 1 /\ k <= Len(s) /\ Len(s) \in Nat
  OBVIOUS
<1>1. a \in Seq(S) /\ Len(a) = k - 1 /\ \A j \in 1..(k - 1) : a[j] = s[j]
  BY <1>0
<1>2. b \in Seq(S) /\ Len(b) = Len(s) - k /\ \A j \in 1..(Len(s) - k) : b[j] = s[j + k]
  BY <1>0
<1>3. r = a \o b
  BY DEF RemoveAt
<1> HIDE DEF a, b
<1>4. /\ r \in Seq(S) /\ Len(r) = Len(s) - 1
      /\ \A j \in 1..(Len(s) - 1) : r[j] = IF j <= k - 1 THEN a[j] ELSE b[j - (k - 1)]
  <2>1. a \in Seq(S) /\ b \in Seq(S)
    BY <1>1, <1>2
  <2>2. /\ a \o b \in Seq(S) /\ Len(a \o b) = Len(a) + Len(b)
        /\ \A j \in 1..(Len(a) + Len(b)) :
             (a \o b)[j] = IF j <= Len(a) THEN a[j] ELSE b[j - Len(a)]
    BY <2>1, Concatenated
  <2>3. Len(a) = k - 1 /\ Len(a) + Len(b) = Len(s) - 1
    BY <1>0, <1>1, <1>2
  <2> QED BY <1>3, <2>2, <2>3
<1>5. ASSUME NEW j \in 1..Len(r) PROVE r[j] = IF j < k THEN s[j] ELSE s[j + 1]
  <2>1. CASE j < k
    BY <1>0, <1>1, <1>4, <2>1
  <2>2. CASE ~(j < k)
    <3>1. j - (k - 1) \in 1..(Len(s) - k) /\ (j - (k - 1)) + k = j + 1 /\ ~(j <= k - 1)
      BY <1>0, <1>4, <2>2
    <3> QED BY <1>2, <1>4, <2>2, <3>1
  <2> QED BY <2>1, <2>2
<1>6. Len(r) = Len(s) - 1 /\ r \in Seq(S) /\ DOMAIN r = 1..Len(r)
  BY <1>4
<1> QED BY <1>5, <1>6

LEMMA OnlyOpenCalls ==
  ASSUME IInv, NEW p \in Procs, proc[p].pc # "idle"
  PROVE  proc[p].open
BY DEF IInv, CallFits

LEMMA ReferenceLeft ==
  ASSUME NEW o, IsOpen(o), NEW d, d = psync_fs_dec_of_refcnt(o)
  PROVE  \/ d = NoFile /\ o.ref = 1
         \/ d # NoFile /\ Alike(d, o)
<1>1. CASE o.ref = 1
  BY <1>1 DEF psync_fs_dec_of_refcnt
<1>2. CASE o.ref # 1
  <2> DEFINE ref == o.ref - 1
  <2>1. d = [o EXCEPT !.ref = ref]
    BY <1>2 DEF psync_fs_dec_of_refcnt
  <2> HIDE DEF ref
  <2>2. /\ DOMAIN d = OfFields /\ d.id = o.id /\ d.newfile = o.newfile /\ d.modified = o.modified
        /\ d.writeid = o.writeid /\ d.size = o.size /\ d.initial = o.initial /\ d.hash = o.hash
        /\ d.local = o.local
    BY <2>1 DEF IsOpen, OfFields
  <2> QED BY <2>2 DEF Alike, NoFile, OfFields, IsOpen
<1> QED BY <1>1, <1>2

LEMMA SomeFileIsOpen ==
  ASSUME IInv, of # NoFile
  PROVE  IsOpen(of) /\ of.ref = Handles(proc) + Len(rel) + Armed(of)
BY DEF IInv, Referenced

LEMMA LastReference ==
  ASSUME IInv, of # NoFile, of.ref = 1, NEW p \in Procs
  PROVE  /\ proc[p].open => rel = <<>> /\ of.timer = "none" /\ \A q \in Procs : proc[q].open => q = p
         /\ rel # <<>> => Len(rel) = 1 /\ ~proc[p].open
         /\ of.timer # "none" => rel = <<>> /\ ~proc[p].open
<1>1. /\ 1 = Handles(proc) + Len(rel) + Armed(of) /\ Handles(proc) \in Nat /\ Len(rel) \in Nat
      /\ Armed(of) \in Nat /\ (Armed(of) = 0 <=> of.timer = "none") /\ (Len(rel) = 0 <=> rel = <<>>)
  BY SomeFileIsOpen, HandlesAre DEF IInv, Armed
<1>2. proc[p].open => Handles(proc) > 0 /\ (Handles(proc) = 1 => \A q \in Procs : proc[q].open => q = p)
  BY DEF Handles, Procs
<1>3. /\ Handles(proc) > 0 => Handles(proc) = 1 /\ Len(rel) = 0 /\ Armed(of) = 0
      /\ Len(rel) # 0 => Len(rel) = 1 /\ ~(Handles(proc) > 0)
      /\ Armed(of) # 0 => Len(rel) = 0 /\ ~(Handles(proc) > 0)
  <2> DEFINE h == Handles(proc)
             r == Len(rel)
             a == Armed(of)
  <2>1. 1 = h + r + a /\ h \in Nat /\ r \in Nat /\ a \in Nat
    BY <1>1
  <2> HIDE DEF h, r, a
  <2>2. /\ h > 0 => h = 1 /\ r = 0 /\ a = 0
        /\ r # 0 => r = 1 /\ ~(h > 0)
        /\ a # 0 => r = 0 /\ ~(h > 0)
    BY <2>1
  <2> QED BY <2>2 DEF h, r, a
<1>4. CASE proc[p].open
  BY <1>1, <1>2, <1>3, <1>4
<1>5. CASE ~proc[p].open
  BY <1>1, <1>3, <1>5
<1> QED BY <1>4, <1>5

LEMMA NobodyCalls ==
  ASSUME IInv, of # NoFile, of.ref = 1, of.timer # "none" \/ rel # <<>>
  PROVE  /\ \A p \in Procs : ~proc[p].open /\ proc[p].pc = "idle"
         /\ rel = <<>> \/ (Len(rel) = 1 /\ of.timer = "none")
<1>1. ASSUME NEW p \in Procs PROVE ~proc[p].open /\ proc[p].pc = "idle"
  <2>1. ~proc[p].open
    BY LastReference
  <2> QED BY <2>1, OnlyOpenCalls
<1>2. 1 \in Procs
  BY DEF Procs
<1>3. rel = <<>> \/ (Len(rel) = 1 /\ of.timer = "none")
  BY <1>2, LastReference
<1> QED BY <1>1, <1>3

LEMMA TimerDueRight ==
  ASSUME IInv, CInv, TimerDue
  PROVE  CInv'
<1>1. of # NoFile /\ of' = [of EXCEPT !.timer = "running"]
      /\ UNCHANGED <<proc, file, tab, srv, rel, upl, big, ghost>>
  BY DEF TimerDue
<1>2. Alike(of', of)
  BY <1>1, SomeFileIsOpen DEF Alike, IsOpen, OfFields, NoFile
<1>3. Numbered(of', Stage(proc), proc', rel', ghost.rows)
  <2>1. Numbered(of, Stage(proc), proc, rel, ghost.rows)
    BY DEF CInv
  <2> QED BY <1>1, <1>2, <2>1 DEF Numbered, Fresh, Alike
<1>4. Settles(EntryRow, of', proc', rel', ghost.rows)
  <2>1. Settles(EntryRow, of, proc, rel, ghost.rows)
    BY DEF CInv
  <2> QED BY <1>1, <1>2, <2>1 DEF Settles, Alike
<1> QED BY <1>1, <1>2, <1>3, <1>4, FileMovesRight DEF CInv

LEMMA WriteTimerRight ==
  ASSUME IInv, IInv', CInv, psync_fs_write_timer
  PROVE  CInv'
<1> DEFINE o == [of EXCEPT !.timer = "none"]
<1>0. /\ of # NoFile /\ of.timer = "running" /\ ~Locked /\ UNCHANGED <<proc, file, tab, srv, upl, big, ghost>>
  BY DEF psync_fs_write_timer
<1>1. IsOpen(of) /\ Stage(proc) = "none" /\ rel \in Seq(Releases)
  BY <1>0, SomeFileIsOpen, Unlocked DEF IInv
<1>2. Alike(o, of) /\ IsOpen(o) /\ o.ref = of.ref
  BY <1>0, <1>1 DEF Alike, IsOpen, OfFields, NoFile
<1>3. /\ Numbered(of, Stage(proc), proc, rel, ghost.rows)
      /\ Settles(EntryRow, of, proc, rel, ghost.rows) /\ of.writeid \in Nat /\ ghost.rows \in Nat
  BY <1>0, TabIs DEF CInv, OpenTyped, IInv, TabFits, RowsFit
<1> HIDE DEF o
<1>4. CASE of.modified /\ ~of.released
  <2> DEFINE w == of.writeid
             n == ghost.rows
             r == [w |-> w, n |-> n, pc |-> "row"]
  <2>1. of' = [o EXCEPT !.released = TRUE] /\ rel' = Append(rel, r)
    BY <1>4 DEF psync_fs_write_timer, o
  <2>2. Alike(of', of)
    BY <1>2, <2>1 DEF Alike, IsOpen, OfFields, NoFile
  <2>3. r \in Releases
    BY <1>3 DEF Releases
  <2>4. r.w = w /\ r.n = n /\ r.pc = "row"
    OBVIOUS
  <2> HIDE DEF r
  <2>5. /\ DOMAIN rel' = 1..(Len(rel) + 1) /\ DOMAIN rel = 1..Len(rel) /\ Len(rel) \in Nat
        /\ \A k \in 1..(Len(rel) + 1) : rel'[k] = IF k = Len(rel) + 1 THEN r ELSE rel[k]
    BY <1>1, <2>1, <2>3, Appended
  <2>6. Fresh(w, n, of', Stage(proc), ghost.rows)
    BY <1>1, <1>3, <2>2 DEF Fresh, Alike
  <2>7. Numbered(of', Stage(proc), proc', rel', ghost.rows)
    <3>1. \A x, y : Fresh(x, y, of, Stage(proc), ghost.rows) => Fresh(x, y, of', Stage(proc), ghost.rows)
      BY <2>2 DEF Fresh, Alike
    <3>2. \A k \in DOMAIN rel' : rel'[k].pc = "row" => Fresh(rel'[k].w, rel'[k].n, of', Stage(proc), ghost.rows)
      <4> SUFFICES ASSUME NEW k \in DOMAIN rel', rel'[k].pc = "row"
                   PROVE  Fresh(rel'[k].w, rel'[k].n, of', Stage(proc), ghost.rows)
        OBVIOUS
      <4>1. CASE k = Len(rel) + 1
        BY <2>4, <2>5, <2>6, <4>1
      <4>2. CASE k # Len(rel) + 1
        <5>1. k \in DOMAIN rel /\ rel'[k] = rel[k]
          BY <2>5, <4>2
        <5> QED BY <1>3, <3>1, <5>1 DEF Numbered
      <4> QED BY <4>1, <4>2
    <3> QED BY <1>0, <1>3, <3>1, <3>2 DEF Numbered
  <2>8. Settles(EntryRow, of', proc', rel', ghost.rows)
    <3>1. Pending(w, n, proc', rel')
      <4>1. Len(rel) + 1 \in DOMAIN rel' /\ rel'[Len(rel) + 1] = r
        BY <2>5
      <4> QED BY <2>4, <4>1 DEF Pending
    <3> QED BY <1>3, <2>2, <3>1 DEF Settles, Alike
  <2> QED BY <1>0, <2>2, <2>7, <2>8, FileMovesRight DEF CInv
<1>5. CASE ~(of.modified /\ ~of.released)
  <2>1. of' = psync_fs_dec_of_refcnt(o) /\ rel' = rel
    BY <1>5 DEF psync_fs_write_timer, o
  <2>2. CASE of' = NoFile /\ of.ref = 1
    <3>1. rel = <<>> /\ \A p \in Procs : ~proc[p].open /\ proc[p].pc = "idle"
      BY <1>0, <2>2, NobodyCalls
    <3>2. ~Pending(of.writeid, ghost.rows, proc, rel) /\ ~Busy(proc)
      BY <3>1 DEF Pending, Busy
    <3> QED BY <1>0, <2>2, <3>2, ClosedRight
  <2>3. CASE of' # NoFile /\ Alike(of', o)
    <3>1. Alike(of', of)
      BY <1>2, <2>3 DEF Alike
    <3>2. Numbered(of', Stage(proc), proc', rel', ghost.rows)
      BY <1>0, <1>3, <2>1, <3>1 DEF Numbered, Fresh, Alike
    <3>3. Settles(EntryRow, of', proc', rel', ghost.rows)
      BY <1>0, <1>3, <2>1, <3>1 DEF Settles, Alike
    <3> QED BY <1>0, <3>1, <3>2, <3>3, FileMovesRight DEF CInv
  <2> QED BY <1>2, <2>1, <2>2, <2>3, ReferenceLeft
<1> QED BY <1>4, <1>5

LEMMA ReleaseTimerRight ==
  ASSUME IInv, CInv, ~Damaged', NEW k \in DOMAIN rel, psync_fs_upload_release_timer(k)
  PROVE  CInv'
<1> DEFINE w == rel[k].w
           n == rel[k].n
<1>1. /\ rel[k].pc = "row" /\ Release(w, n) /\ rel' = [rel EXCEPT ![k].pc = "done"]
      /\ UNCHANGED <<proc, of, file, srv, big>>
  BY DEF psync_fs_upload_release_timer
<1>2. rel \in Seq(Releases) /\ \A j \in DOMAIN rel : DOMAIN rel[j] = {"w", "n", "pc"}
  <2>1. rel \in Seq(Releases)
    BY DEF IInv
  <2>2. \A j \in DOMAIN rel : rel[j] \in Releases
    BY <2>1
  <2> QED BY <2>1, <2>2 DEF Releases
<1>3. /\ DOMAIN rel' = DOMAIN rel /\ rel'[k].pc = "done"
      /\ \A j \in DOMAIN rel : j # k => rel'[j] = rel[j]
  BY <1>1, <1>2
<1>4. of # NoFile
  BY <1>2 DEF IInv, Referenced, IsOpen, NoFile, OfFields
<1>5. Numbered(of, Stage(proc), proc, rel, ghost.rows)
  BY DEF CInv
<1>6. Fresh(w, n, of, Stage(proc), ghost.rows)
  BY <1>1, <1>5 DEF Numbered
<1>7. Numbered(of, Stage(proc), proc', rel', ghost.rows)
  BY <1>1, <1>3, <1>5 DEF Numbered
<1>8. Pending(of.writeid, ghost.rows, proc, rel) =>
        Pending(of.writeid, ghost.rows, proc', rel') \/ (of.writeid = w /\ n = ghost.rows)
  BY <1>1, <1>3 DEF Pending
<1> QED BY <1>1, <1>4, <1>6, <1>7, <1>8, ReleaseRight DEF CInv

LEMMA ReleaseEndsRight ==
  ASSUME IInv, IInv', CInv, NEW k \in DOMAIN rel, ReleaseEnds(k)
  PROVE  CInv'
<1>0. /\ rel[k].pc = "done" /\ ~Locked /\ of' = psync_fs_dec_of_refcnt(of) /\ rel' = RemoveAt(rel, k)
      /\ UNCHANGED <<proc, file, tab, srv, upl, big, ghost>>
  BY DEF ReleaseEnds
<1>1. rel \in Seq(Releases) /\ k \in 1..Len(rel) /\ rel # <<>> /\ Len(rel) \in Nat
  BY DEF IInv
<1>2. of # NoFile
  BY <1>1 DEF IInv, Referenced, IsOpen, NoFile, OfFields
<1>3. /\ DOMAIN rel' = 1..Len(rel') /\ Len(rel') = Len(rel) - 1
      /\ \A j \in 1..Len(rel') : rel'[j] = IF j < k THEN rel[j] ELSE rel[j + 1]
  BY <1>0, <1>1, TakenOut
<1>4. IsOpen(of)
  BY <1>2, SomeFileIsOpen
<1>5. /\ Numbered(of, Stage(proc), proc, rel, ghost.rows)
      /\ Settles(EntryRow, of, proc, rel, ghost.rows)
  BY DEF CInv
<1>6. CASE of' = NoFile /\ of.ref = 1
  <2>1. Len(rel) = 1 /\ \A p \in Procs : ~proc[p].open /\ proc[p].pc = "idle"
    BY <1>1, <1>2, <1>6, NobodyCalls
  <2>2. \A j \in DOMAIN rel : rel[j].pc = "done"
    BY <1>0, <1>1, <2>1
  <2>3. ~Pending(of.writeid, ghost.rows, proc, rel) /\ ~Busy(proc)
    BY <2>1, <2>2 DEF Pending, Busy
  <2> QED BY <1>0, <1>2, <1>6, <2>3, ClosedRight
<1>7. CASE of' # NoFile /\ Alike(of', of)
  <2>1. \A j \in DOMAIN rel' : \E i \in DOMAIN rel : rel'[j] = rel[i]
    BY <1>1, <1>3
  <2>2. \A i \in DOMAIN rel : i # k => \E j \in DOMAIN rel' : rel'[j] = rel[i]
    <3> SUFFICES ASSUME NEW i \in DOMAIN rel, i # k PROVE \E j \in DOMAIN rel' : rel'[j] = rel[i]
      OBVIOUS
    <3>1. CASE i < k
      <4>1. i \in DOMAIN rel' /\ rel'[i] = rel[i]
        BY <1>1, <1>3, <3>1
      <4> QED BY <4>1
    <3>2. CASE i > k
      <4>1. i - 1 \in DOMAIN rel' /\ rel'[i - 1] = rel[i]
        BY <1>1, <1>3, <3>2
      <4> QED BY <4>1
    <3> QED BY <1>1, <3>1, <3>2
  <2>3. Numbered(of', Stage(proc), proc', rel', ghost.rows)
    <3>1. \A x, y : Fresh(x, y, of, Stage(proc), ghost.rows) => Fresh(x, y, of', Stage(proc), ghost.rows)
      BY <1>7 DEF Fresh, Alike
    <3> QED BY <1>0, <1>5, <2>1, <3>1 DEF Numbered
  <2>4. Settles(EntryRow, of', proc', rel', ghost.rows)
    <3>1. Pending(of.writeid, ghost.rows, proc, rel) => Pending(of.writeid, ghost.rows, proc', rel')
      BY <1>0, <2>2 DEF Pending
    <3> QED BY <1>0, <1>5, <1>7, <3>1 DEF Settles, Alike
  <2> QED BY <1>0, <1>7, <2>3, <2>4, FileMovesRight DEF CInv
<1> QED BY <1>0, <1>4, <1>6, <1>7, ReferenceLeft

LEMMA FlushRight ==
  ASSUME IInv, CInv, NEW p \in Procs, Flush(p)
  PROVE  CInv'
<1>0. /\ proc[p].pc = "idle" /\ proc[p].open /\ ~Locked /\ UNCHANGED <<file, tab, srv, rel, big, upl, ghost>>
      /\ proc \in [Procs -> ProcStates]
  BY DEF Flush, Idle, IInv
<1>1. of # NoFile /\ IsOpen(of) /\ Stage(proc) = "none" /\ Single(proc) /\ proc[p] \in ProcStates
  BY <1>0, HandleHasFile, OpenIsSomeFile, Unlocked DEF CInv
<1>2. /\ Numbered(of, Stage(proc), proc, rel, ghost.rows)
      /\ Settles(EntryRow, of, proc, rel, ghost.rows) /\ of.writeid \in Nat /\ ghost.rows \in Nat
  BY <1>1, TabIs DEF CInv, OpenTyped, IInv, TabFits, RowsFit
<1>3. CASE of.modified
  <2> DEFINE w == of.writeid
             n == ghost.rows
             c == [proc[p] EXCEPT !.pc = "flushed", !.w = w, !.n = n]
             o == [of EXCEPT !.released = TRUE]
  <2>1. of' = Disarmed(o) /\ proc' = [proc EXCEPT ![p] = c]
    BY <1>3 DEF Flush
  <2>2. Alike(o, of) /\ DOMAIN o = OfFields
    BY <1>1 DEF Alike, IsOpen, OfFields, NoFile
  <2> HIDE DEF o
  <2>3. Alike(of', of)
    <3>1. CASE o.timer = "armed"
      <4> DEFINE ref == o.ref - 1
      <4>1. of' = [o EXCEPT !.timer = "none", !.ref = ref]
        BY <2>1, <3>1 DEF Disarmed
      <4> HIDE DEF ref
      <4> QED BY <2>2, <4>1 DEF Alike, OfFields, NoFile
    <3>2. CASE o.timer # "armed"
      BY <2>1, <2>2, <3>2 DEF Disarmed
    <3> QED BY <3>1, <3>2
  <2>4. c.pc = "flushed" /\ c.w = w /\ c.n = n
    BY <1>1 DEF ProcStates
  <2> HIDE DEF c
  <2>5. /\ Stage(proc') = Stage(proc) /\ Single(proc') /\ proc'[p] = c
        /\ \A x \in Procs : x # p => proc'[x] = proc[x]
    <3>1. proc[p].pc \notin {"create", "fill"} /\ c.pc \notin {"create", "fill"}
      BY <1>0, <2>4
    <3>2. proc'[p] = c /\ \A x \in Procs : x # p => proc'[x] = proc[x]
      BY <1>0, <2>1, OthersStay
    <3> QED BY <1>0, <1>1, <3>1, <3>2, StageKept
  <2>6. Fresh(w, n, of', Stage(proc), ghost.rows)
    BY <1>1, <1>2, <2>3 DEF Fresh, Alike
  <2>7. Numbered(of', Stage(proc), proc', rel', ghost.rows)
    <3>1. \A x, y : Fresh(x, y, of, Stage(proc), ghost.rows) => Fresh(x, y, of', Stage(proc), ghost.rows)
      BY <2>3 DEF Fresh, Alike
    <3>2. \A x \in Procs : proc'[x].pc = "flushed" => Fresh(proc'[x].w, proc'[x].n, of', Stage(proc), ghost.rows)
      <4> SUFFICES ASSUME NEW x \in Procs, proc'[x].pc = "flushed"
                   PROVE  Fresh(proc'[x].w, proc'[x].n, of', Stage(proc), ghost.rows)
        OBVIOUS
      <4>1. CASE x = p
        BY <2>4, <2>5, <2>6, <4>1
      <4>2. CASE x # p
        BY <1>2, <2>5, <3>1, <4>2 DEF Numbered
      <4> QED BY <4>1, <4>2
    <3> QED BY <1>0, <1>2, <3>1, <3>2 DEF Numbered
  <2>8. Settles(EntryRow, of', proc', rel', ghost.rows)
    <3>1. Pending(w, n, proc', rel')
      BY <2>4, <2>5 DEF Pending
    <3> QED BY <1>2, <2>3, <3>1 DEF Settles, Alike
  <2> QED BY <1>0, <2>3, <2>5, <2>7, <2>8, FileMovesRight
<1>4. CASE ~of.modified /\ Call(p).op = "close"
  <2> DEFINE c == [proc[p] EXCEPT !.pc = "close"]
  <2>1. of' = of /\ proc' = [proc EXCEPT ![p] = c]
    BY <1>4 DEF Flush
  <2>2. c.pc = "close"
    BY <1>1 DEF ProcStates
  <2> HIDE DEF c
  <2>3. /\ Stage(proc') = Stage(proc) /\ Single(proc') /\ proc'[p] = c
        /\ \A x \in Procs : x # p => proc'[x] = proc[x]
    <3>1. proc[p].pc \notin {"create", "fill"} /\ c.pc \notin {"create", "fill"}
      BY <1>0, <2>2
    <3>2. proc'[p] = c /\ \A x \in Procs : x # p => proc'[x] = proc[x]
      BY <1>0, <2>1, OthersStay
    <3> QED BY <1>0, <1>1, <3>1, <3>2, StageKept
  <2>4. Numbered(of', Stage(proc), proc', rel', ghost.rows)
    BY <1>0, <1>2, <2>1, <2>2, <2>3 DEF Numbered
  <2>5. Settles(EntryRow, of', proc', rel', ghost.rows)
    <3>1. of.id = 0
      BY <1>1, <1>4 DEF CInv, OpenShows
    <3> QED BY <2>1, <3>1 DEF Settles
  <2> QED BY <1>0, <1>1, <2>1, <2>3, <2>4, <2>5, FileMovesRight DEF Alike
<1>5. CASE ~of.modified /\ Call(p).op # "close"
  <2>1. of' = of /\ proc' = proc
    BY <1>5 DEF Flush
  <2> QED BY <1>0, <1>1, <1>2, <2>1, FileMovesRight DEF Alike
<1> QED BY <1>3, <1>4, <1>5

LEMMA FlushedRight ==
  ASSUME IInv, CInv, ~Damaged', NEW p \in Procs, Flushed(p)
  PROVE  CInv'
<1> DEFINE w == proc[p].w
           n == proc[p].n
           pc == IF Call(p).op = "close" THEN "close" ELSE "idle"
           c == [proc[p] EXCEPT !.pc = pc, !.w = 0, !.n = 0]
<1>1. /\ proc[p].pc = "flushed" /\ Release(w, n) /\ proc' = [proc EXCEPT ![p] = c]
      /\ UNCHANGED <<of, file, srv, rel, big>>
  BY DEF Flushed
<1>2. proc \in [Procs -> ProcStates] /\ proc[p] \in ProcStates /\ of # NoFile
  BY <1>1, OnlyOpenCalls, HandleHasFile, OpenIsSomeFile DEF IInv
<1>3. pc \in {"close", "idle"}
  OBVIOUS
<1> HIDE DEF pc
<1>4. c.pc = pc
  BY <1>2 DEF ProcStates
<1> HIDE DEF c
<1>5. /\ Stage(proc') = Stage(proc) /\ Single(proc') /\ proc'[p] = c
      /\ \A x \in Procs : x # p => proc'[x] = proc[x]
  <2>1. proc[p].pc \notin {"create", "fill"} /\ c.pc \notin {"create", "fill"} /\ Single(proc)
    BY <1>1, <1>3, <1>4 DEF CInv
  <2>2. proc'[p] = c /\ \A x \in Procs : x # p => proc'[x] = proc[x]
    BY <1>1, <1>2, OthersStay
  <2> QED BY <1>1, <2>1, <2>2, StageKept
<1>6. Numbered(of, Stage(proc), proc, rel, ghost.rows)
  BY DEF CInv
<1>7. Fresh(w, n, of, Stage(proc), ghost.rows)
  BY <1>1, <1>6 DEF Numbered
<1>8. Numbered(of, Stage(proc), proc', rel', ghost.rows)
  <2>1. \A x \in Procs : proc'[x].pc = "flushed" => proc'[x] = proc[x] /\ proc[x].pc = "flushed"
    BY <1>3, <1>4, <1>5
  <2> QED BY <1>1, <1>6, <2>1 DEF Numbered
<1>9. Pending(of.writeid, ghost.rows, proc, rel) =>
        Pending(of.writeid, ghost.rows, proc', rel') \/ (of.writeid = w /\ n = ghost.rows)
  BY <1>1, <1>5 DEF Pending
<1>10. Busy(proc) => Busy(proc')
  BY <1>1, <1>5 DEF Busy
<1> QED BY <1>1, <1>2, <1>5, <1>7, <1>8, <1>9, <1>10, ReleaseRight

LEMMA CloseRight ==
  ASSUME IInv, IInv', CInv, NEW p \in Procs, Close(p)
  PROVE  CInv'
<1> DEFINE c == [proc[p] EXCEPT !.pc = "idle", !.open = FALSE]
<1>1. /\ proc[p].pc = "close" /\ ~Locked /\ of' = psync_fs_dec_of_refcnt(of)
      /\ UNCHANGED <<file, tab, srv, rel, upl, big, ghost>>
  BY DEF Close
<1>2. /\ proc \in [Procs -> ProcStates] /\ proc[p] \in ProcStates /\ of # NoFile /\ IsOpen(of) /\ proc[p].open
  BY <1>1, OnlyOpenCalls, HandleHasFile, OpenIsSomeFile DEF IInv
<1>3. c.pc = "idle"
  BY <1>2 DEF ProcStates
<1>4. proc' = [proc EXCEPT ![p] = c]
  BY <1>2 DEF Close, ProcStates
<1> HIDE DEF c
<1>5. /\ Stage(proc') = Stage(proc) /\ Single(proc') /\ proc'[p] = c
      /\ \A x \in Procs : x # p => proc'[x] = proc[x]
  <2>1. proc[p].pc \notin {"create", "fill"} /\ c.pc \notin {"create", "fill"} /\ Single(proc)
    BY <1>1, <1>3 DEF CInv
  <2>2. proc'[p] = c /\ \A x \in Procs : x # p => proc'[x] = proc[x]
    BY <1>2, <1>4, OthersStay
  <2> QED BY <1>1, <2>1, <2>2, StageKept
<1>6. /\ Numbered(of, Stage(proc), proc, rel, ghost.rows)
      /\ Settles(EntryRow, of, proc, rel, ghost.rows)
  BY DEF CInv
<1>7. CASE of' = NoFile /\ of.ref = 1
  <2>1. rel = <<>> /\ \A q \in Procs : q # p => ~proc[q].open /\ proc[q].pc = "idle"
    <3>1. rel = <<>> /\ \A q \in Procs : proc[q].open => q = p
      BY <1>2, <1>7, LastReference
    <3> QED BY <3>1, OnlyOpenCalls
  <2>2. ~Pending(of.writeid, ghost.rows, proc, rel) /\ ~Busy(proc)
    BY <1>1, <2>1 DEF Pending, Busy
  <2> QED BY <1>1, <1>2, <1>7, <2>2, ClosedRight
<1>8. CASE of' # NoFile /\ Alike(of', of)
  <2>1. Numbered(of', Stage(proc), proc', rel', ghost.rows)
    <3>1. \A x, y : Fresh(x, y, of, Stage(proc), ghost.rows) => Fresh(x, y, of', Stage(proc), ghost.rows)
      BY <1>8 DEF Fresh, Alike
    <3> QED BY <1>1, <1>3, <1>5, <1>6, <3>1 DEF Numbered
  <2>2. Settles(EntryRow, of', proc', rel', ghost.rows)
    <3>1. Pending(of.writeid, ghost.rows, proc, rel) => Pending(of.writeid, ghost.rows, proc', rel')
      BY <1>1, <1>5 DEF Pending
    <3>2. Busy(proc) => Busy(proc')
      BY <1>1, <1>5 DEF Busy
    <3> QED BY <1>6, <1>8, <3>1, <3>2 DEF Settles, Alike
  <2> QED BY <1>1, <1>5, <1>8, <2>1, <2>2, FileMovesRight
<1> QED BY <1>1, <1>2, <1>7, <1>8, ReferenceLeft

----------------------------------------------------------------------------
(* Calls that write.                                                       *)

\* The rows alone differ.
RowsAlone(a, b) ==
  /\ a.entries = b.entries /\ a.lost = b.lost /\ a.mir = b.mir
  /\ a.cache = b.cache /\ a.caching = b.caching /\ a.pages = b.pages

\* A file with a row is written: it has a new content, and a larger write id or no
\* upload yet.
LEMMA WriteRight ==
  ASSUME IInv, CInv, of # NoFile, NEW t, t = Entry, t \in DOMAIN tab.rows, t \in DOMAIN file,
         Stage(proc) \in {"none", "fill"}, UNCHANGED <<rel, srv, upl>>,
         NEW rows, tab'.rows = rows, RowsAlone(tab', tab), DOMAIN rows = DOMAIN tab.rows,
         RowsTyped(rows), RowsKept(rows, tab.rows, t), rows[t].type = tab.rows[t].type,
         rows[t].base = tab.rows[t].base, rows[t].int1 = tab.rows[t].int1,
         rows[t].status \in {1, tab.rows[t].status},
         NEW stop \in BOOLEAN, big' \in {big, [big EXCEPT !.stop = stop]},
         NEW f, DataFits(f), file' = [file EXCEPT ![t] = f],
         OpenTyped(of'), of' # NoFile, of'.id = t, of'.modified, of'.newfile = of.newfile,
         of'.hash = of.hash, of'.writeid >= of.writeid,
         Stage(proc) = "none" => of'.writeid > of.writeid, Matches(of', f),
         Right(EntryRow, f, ghost'.last), ghost'.last \in Contents, ghost'.rows = ghost.rows,
         ghost'.versions = ghost.versions \cup {ghost'.last},
         Stage(proc') = "none", Single(proc'), Busy(proc'),
         \A p \in Procs : proc'[p].pc = "flushed" => proc'[p] = proc[p]
  PROVE  CInv'
<1>1. /\ tab'.entries = tab.entries /\ tab'.lost = tab.lost /\ tab'.mir = tab.mir
      /\ tab'.rows = rows /\ tab'.cache = tab.cache /\ tab'.caching = tab.caching /\ tab'.pages = tab.pages
  BY DEF RowsAlone
<1>2. Entry' = Entry
  BY <1>1, EntryKept
<1> DEFINE row == Row(rows, t)
<1>3. EntryRow' = row /\ EntryData' = f /\ f # NoData
  <2>1. /\ DOMAIN file' = DOMAIN file /\ file'[t] = f
    OBVIOUS
  <2> QED BY <1>1, <1>2, <2>1 DEF EntryRow, EntryData, Data, NoData, DataFits
<1>4. /\ row # NoRow /\ EntryRow # NoRow /\ row.type = EntryRow.type /\ row.base = EntryRow.base
      /\ row.int1 = EntryRow.int1 /\ row.status \in {1, EntryRow.status}
  BY RowView DEF EntryRow
<1> HIDE DEF row
<1>5. EntryData # NoData
  BY TabIs, DataView DEF EntryData
<1>6. /\ LargeTyped(big') /\ big'.pc = big.pc /\ big'.t = big.t /\ big'.w = big.w /\ big'.current = big.current
      /\ big'.type = big.type /\ big'.base = big.base /\ big'.sum = big.sum /\ big'.ints = big.ints
      /\ big'.size = big.size /\ big'.data = big.data
  BY TabIs DEF LargeTyped
<1>7. /\ DOMAIN file' = DOMAIN file /\ FilesTyped(file') /\ \A x \in DOMAIN file : x # t => file'[x] = file[x]
  BY TabIs DEF FilesTyped
<1>8. t \in Live(tab.rows) /\ Live(rows) = Live(tab.rows) /\ Live(rows)' = Live(rows)
  <2>1. t \in Live(tab.rows)
    BY TabIs DEF Naming
  <2>2. \A x \in DOMAIN rows : rows[x].status = 3 <=> tab.rows[x].status = 3
    BY <2>1 DEF Live, RowsKept
  <2> QED BY <2>1, <2>2 DEF Live
<1>9. Typed' /\ OneName(tab')
  BY <1>1, <1>6, <1>7, TabIs DEF CInv, Typed, OneName
<1>10. Naming(Entry, rows, of', upl)
  <2>1. \A x \in DOMAIN rows : rows[x].status = 2 => tab.rows[x].status = 2
    BY DEF RowsKept
  <2> QED BY <1>8, <2>1, TabIs DEF Naming
<1>11. Filing(row, f, of', "none", ghost'.last, tab.mir, srv.now)
  BY <1>3, <1>4 DEF Filing
<1>12. Entered(row, rows, file', upl, ghost'.last)
  <2>1. Entered(EntryRow, tab.rows, file, upl, ghost.last)
    BY DEF CInv
  <2>2. upl.pc \in {"cache", "del"} => upl.t # t
    BY TabIs DEF Naming, Entering
  <2> QED BY <1>4, <1>7, <2>1, <2>2 DEF Entered, RowsKept
<1>13. Handed(rows, file', tab.cache, tab.caching)
  <2>1. Handed(tab.rows, file, tab.cache, tab.caching)
    BY DEF CInv
  <2> QED BY <1>7, <1>8, <2>1 DEF Handed
<1>14. OpenShows(EntryRow, EntryData, of, Stage(proc), ghost.last) /\ of.id = t /\ t # 0
  BY TabIs DEF CInv, Naming
<1>15. OpenShows(row, f, of', "none", ghost'.last)
  BY <1>3, <1>4, <1>14 DEF OpenShows, Matches
<1>16. Written(row, f, "none", ghost'.last)
  <2>1. Right(row, f, ghost'.last) <=> Right(EntryRow, f, ghost'.last)
    BY <1>4 DEF Right
  <2> QED BY <2>1 DEF Written
<1>17. of.writeid \in Nat /\ of'.writeid \in Nat
  BY TabIs DEF OpenTyped
<1>18. Numbered(of', "none", proc', rel, ghost'.rows)
  <2>1. Numbered(of, Stage(proc), proc, rel, ghost.rows)
    BY DEF CInv
  <2>2. ASSUME NEW w, NEW n, Fresh(w, n, of, Stage(proc), ghost.rows)
        PROVE  Fresh(w, n, of', "none", ghost.rows)
    BY <1>17, <2>2 DEF Fresh
  <2> QED BY <2>1, <2>2 DEF Numbered
<1>19. Settles(row, of', proc', rel, ghost'.rows)
  <2>1. EntryRow.int1 <= of.writeid /\ EntryRow.int1 \in Nat
    BY <1>14, TabIs, RowView DEF CInv, Settles, EntryRow, RowsTyped
  <2> QED BY <1>4, <1>17, <2>1 DEF Settles
<1>20. WriteId(of', row) = of'.writeid /\ WriteId(of, EntryRow) = of.writeid
  BY DEF WriteId
<1>21. Small(Entry, row, f, of', "none", upl, srv.now)
  <2>1. Small(Entry, EntryRow, EntryData, of, Stage(proc), upl, srv.now) /\ upl.w \in Nat
    BY TabIs DEF CInv, SmallTyped
  <2>2. CASE Sending(upl)
    <3>1. /\ Stage(proc) = "none" /\ of.writeid >= upl.w /\ upl.t = Entry /\ EntryRow.status \in {0, 1}
          /\ upl.pc # "defer" => EntryRow.type = "creat"
      BY <1>20, <2>1, <2>2 DEF Small
    <3>2. of'.writeid > upl.w /\ ~(of'.writeid = upl.w)
      BY <1>17, <2>1, <3>1
    <3>3. upl.pc # "answer" \/ srv.now = upl.data
      BY <2>1, <2>2 DEF Small
    <3> QED BY <1>3, <1>4, <1>17, <1>20, <2>1, <3>1, <3>2, <3>3 DEF Small
  <2> QED BY <2>2 DEF Small
<1>22. LargeOne(Entry, row, f, of', "none", upl, big', srv.now)
  <2>1. LargeOne(Entry, EntryRow, EntryData, of, Stage(proc), upl, big, srv.now) /\ big.w \in Nat
    BY TabIs DEF CInv, LargeTyped
  <2>2. CASE SendingLarge(big)
    <3>1. Stage(proc) = "none" /\ of.writeid >= big.w
      BY <1>20, <2>1, <2>2 DEF LargeOne
    <3>2. of'.writeid > big.w /\ ~(of'.writeid = big.w) /\ of'.writeid >= big.w
      BY <1>17, <2>1, <3>1
    <3> QED BY <1>3, <1>4, <1>6, <1>20, <2>1, <2>2, <3>2 DEF LargeOne, SendingLarge
  <2> QED BY <1>6, <2>2 DEF LargeOne, SendingLarge
<1>23. DOMAIN file' \subseteq DOMAIN tab'.rows
  BY <1>1, <1>7, TabIs
<1>24. Versions(ghost', srv'.saved) /\ TruePages(tab'.pages)
  BY <1>1 DEF CInv, Versions
<1> QED BY <1>1, <1>2, <1>3, <1>9, <1>10, <1>11, <1>12, <1>13, <1>15, <1>16, <1>18, <1>19,
           <1>21, <1>22, <1>23, <1>24 DEF CInv

\* The content that a call is to leave.
LEMMA ExpectedIs ==
  ASSUME IInv, NEW c, NEW g, g = Expected(c), c.op \in {"write", "size", "trunc"}
  PROVE  /\ DOMAIN g = GhostFields /\ g.last = After(c, ghost.last) /\ g.rows = ghost.rows
         /\ g.known = ghost.known /\ g.versions = ghost.versions \cup {g.last}
<1> DEFINE new == CASE c.op = "write" -> Put(ghost.last, c.at, c.v)
                    [] c.op = "size" -> Resize(ghost.last, c.at)
                    [] c.op = "trunc" -> <<>>
<1>1. g = [ghost EXCEPT !.last = new, !.versions = @ \cup {new}]
  BY DEF Expected
<1>2. new = After(c, ghost.last)
  BY DEF After
<1> HIDE DEF new
<1> QED BY <1>1, <1>2 DEF IInv, TabFits, GhostFields

LEMMA AfterIs ==
  ASSUME NEW c \in Operations, c.op \in {"write", "size", "trunc"}, NEW last \in Contents
  PROVE  After(c, last) \in Contents
<1>1. c.at \in Nat /\ c.v \in Int
  BY DEF Operations
<1>2. CASE c.op = "write"
  BY <1>1, <1>2, PutThere DEF After
<1>3. CASE c.op = "size"
  BY <1>1, <1>3, Resized DEF After
<1>4. CASE c.op = "trunc"
  BY <1>4 DEF After, Contents
<1> QED BY <1>2, <1>3, <1>4

LEMMA WriteIdGrows ==
  ASSUME NEW o, IsOpen(o), OpenTyped(o), NEW i, i = psync_fs_inc_writeid_locked(o)
  PROVE  /\ IsOpen(i) /\ i # NoFile /\ OpenTyped(i) /\ i.writeid = o.writeid + 1 /\ i.id = o.id
         /\ i.newfile = o.newfile /\ i.modified = o.modified /\ i.hash = o.hash
         /\ i.initial = o.initial /\ i.size = o.size /\ i.local = o.local
<1> DEFINE w == o.writeid + 1
           ref == IF o.timer = "none" THEN o.ref + 1 ELSE o.ref
           timer == IF o.timer = "running" THEN o.timer ELSE "armed"
<1>1. i = [o EXCEPT !.released = FALSE, !.writeid = w, !.ref = ref, !.timer = timer]
  BY DEF psync_fs_inc_writeid_locked
<1>2. w \in Nat /\ ref \in Nat /\ timer \in {"running", "armed"}
  BY OpenIsSomeFile DEF IsOpen, OpenTyped
<1> HIDE DEF w, ref, timer
<1>3. /\ DOMAIN i = OfFields /\ i.writeid = w /\ i.ref = ref /\ i.timer = timer /\ i.id = o.id
      /\ i.newfile = o.newfile /\ i.modified = o.modified /\ i.hash = o.hash
      /\ i.initial = o.initial /\ i.size = o.size /\ i.local = o.local
  BY <1>1 DEF IsOpen, OfFields
<1>4. IsOpen(i) /\ i # NoFile
  BY <1>2, <1>3, OpenIsSomeFile DEF IsOpen
<1>5. OpenTyped(i)
  BY <1>2, <1>3, <1>4, OpenIsSomeFile DEF OpenTyped
<1> QED BY <1>3, <1>4, <1>5 DEF w

\* What the open file serves is what was written last.
LEMMA OpenServes ==
  ASSUME IInv, CInv, of # NoFile, of.id # 0, Stage(proc) = "none",
         NEW o, Sized(o), o.newfile = of.newfile, o.size = of.size, o.local = of.local
  PROVE  /\ Entry = of.id /\ Entry \in DOMAIN tab.rows /\ Entry \in DOMAIN file
         /\ Serves(o, file[Entry], EntryRow, ghost.last)
<1>1. /\ of.id = Entry /\ Entry \in DOMAIN tab.rows /\ EntryRow # NoRow
      /\ EntryRow.type \in Types /\ EntryRow.base \in Contents
  BY TabIs, RowView DEF Naming, EntryRow, RowsTyped
<1>2. OpenShows(EntryRow, EntryData, of, Stage(proc), ghost.last) /\ ghost.last \in Contents
      /\ Written(EntryRow, EntryData, Stage(proc), ghost.last)
  BY DEF CInv, Versions
<1>3. EntryData # NoData
  BY <1>2 DEF OpenShows
<1>4. Entry \in DOMAIN file /\ EntryData = file[Entry] /\ DataFits(EntryData)
  BY <1>3, TabIs, DataView DEF EntryData
<1>5. Matches(o, EntryData) /\ (o.newfile <=> EntryRow.type = "creat")
  BY <1>2 DEF OpenShows, Matches
<1>6. Right(EntryRow, EntryData, ghost.last)
  BY <1>1, <1>2, <1>3 DEF Written
<1> QED BY <1>1, <1>2, <1>4, <1>5, <1>6 DEF Serves

LEMMA WrittenTyped ==
  ASSUME NEW o, IsOpen(o), OpenTyped(o), NEW a, Same(a, o), Keeps(a, o), Sized(a)
  PROVE  IsOpen(a) /\ a # NoFile /\ OpenTyped(a) /\ a.writeid = o.writeid /\ a.id = o.id
<1>1. IsOpen(a) /\ a # NoFile
  BY SameIsOpen, OpenIsSomeFile
<1> QED BY <1>1, OpenIsSomeFile DEF OpenTyped, Same, Keeps, Sized

\* A program writes to a file that it may write to, or the size stays.
LEMMA ChangeRight ==
  ASSUME IInv, CInv, NEW p \in Procs, Change(p),
         of.modified \/ (Call(p).op = "size" /\ of.size = Call(p).at)
  PROVE  CInv'
<1>0. /\ proc[p].open /\ proc[p].pc = "idle" /\ ~Locked /\ UNCHANGED <<srv, rel, upl>>
      /\ Call(p).op \in {"write", "size"} /\ user.scripts[p] # <<>>
  BY DEF Change, Idle
<1>1. of # NoFile /\ IsOpen(of) /\ Stage(proc) = "none" /\ Single(proc) /\ OpenTyped(of)
  BY <1>0, HandleHasFile, OpenIsSomeFile, Unlocked, TabIs DEF CInv
<1>2. /\ Numbered(of, Stage(proc), proc, rel, ghost.rows)
      /\ Settles(EntryRow, of, proc, rel, ghost.rows)
  BY DEF CInv
<1>3. CASE Call(p).op = "size" /\ of.size = Call(p).at
  <2>1. UNCHANGED <<proc, of, file, tab, big, ghost>>
    BY <1>3 DEF Change
  <2> QED BY <1>0, <1>1, <1>2, <2>1, FileMovesRight DEF Alike
<1>4. CASE ~(Call(p).op = "size" /\ of.size = Call(p).at) /\ of.modified
  <2> DEFINE i == psync_fs_inc_writeid_locked(of)
             f == file[of.id]
             c == Call(p)
             s == Applied([o |-> i, f |-> f], c)
             a == s.o
             g == s.f
             t == of.id
             rows == IF of.released THEN WithStatus(tab.rows, t, 1) ELSE tab.rows
             e == Expected(c)
  <2>1. /\ psync_fsupload_stop_upload_locked /\ of' = a /\ file' = [file EXCEPT ![t] = g]
        /\ ghost' = e /\ proc' = proc
    BY <1>4 DEF Change
  <2>2. c \in Operations /\ c.op \in {"write", "size"}
    <3>1. user.scripts[p] \in Seq(Operations)
      BY <1>0, Caller
    <3> QED BY <1>0, <3>1 DEF Call
  <2> HIDE DEF c
  <2>3. t # 0
    BY <1>4, <1>1 DEF CInv, OpenShows, OpenTyped
  <2>4. /\ IsOpen(i) /\ i # NoFile /\ OpenTyped(i) /\ i.writeid = of.writeid + 1 /\ i.id = of.id
        /\ i.newfile = of.newfile /\ i.modified = of.modified /\ i.hash = of.hash
        /\ i.initial = of.initial /\ i.size = of.size /\ i.local = of.local
    BY <1>1, WriteIdGrows
  <2> HIDE DEF i
  <2>5. Sized(i)
    BY <2>4 DEF Sized, IsOpen, OpenTyped
  <2>6. Entry = t /\ t \in DOMAIN tab.rows /\ t \in DOMAIN file /\ Serves(i, f, EntryRow, ghost.last)
    BY <1>1, <2>3, <2>4, <2>5, OpenServes
  <2> HIDE DEF f
  <2>7. Served(s, i, EntryRow, After(c, ghost.last))
    BY <2>2, <2>6, AppliedRight
  <2>8. Leaves(s, i)
    BY <2>4, AppliedLeaves DEF IsOpen
  <2> HIDE DEF s
  <2>9. Serves(a, g, EntryRow, After(c, ghost.last)) /\ Keeps(a, i) /\ Same(a, i)
    BY <2>7, <2>8 DEF Served, Leaves
  <2> HIDE DEF a, g
  <2>10. IsOpen(a) /\ a # NoFile /\ OpenTyped(a) /\ a.writeid = i.writeid /\ a.id = i.id
    BY <2>4, <2>9, WrittenTyped DEF Serves
  <2>11. /\ DOMAIN ghost' = GhostFields /\ ghost'.last = After(c, ghost.last) /\ ghost'.rows = ghost.rows
         /\ ghost'.known = ghost.known /\ ghost'.versions = ghost.versions \cup {ghost'.last}
    BY <2>1, <2>2, ExpectedIs
  <2> HIDE DEF e
  <2>12. ghost'.last \in Contents
    BY <2>2, <2>11, AfterIs DEF CInv, Versions
  <2>13. /\ DOMAIN rows = DOMAIN tab.rows /\ RowsTyped(rows) /\ RowsKept(rows, tab.rows, t)
         /\ rows[t].type = tab.rows[t].type /\ rows[t].base = tab.rows[t].base
         /\ rows[t].int1 = tab.rows[t].int1 /\ rows[t].status \in {1, tab.rows[t].status}
    <3>1. CASE of.released
      <4>1. rows = WithStatus(tab.rows, t, 1) /\ RowsFit(tab.rows, ghost.rows) /\ RowsTyped(tab.rows)
        BY <3>1, TabIs
      <4> HIDE DEF rows, t
      <4> QED BY <2>6, <4>1, RowsMarked
    <3>2. CASE ~of.released
      BY <3>2, TabIs DEF RowsKept
    <3> QED BY <3>1, <3>2
  <2>14. tab'.rows = rows /\ RowsAlone(tab', tab)
    <3>1. CASE of.released
      <4>1. tab' = [tab EXCEPT !.rows = rows]
        BY <2>1, <3>1 DEF psync_fsupload_stop_upload_locked
      <4> HIDE DEF rows
      <4> QED BY <4>1, TabIs DEF TabFields, RowsAlone
    <3>2. CASE ~of.released
      BY <2>1, <3>2 DEF psync_fsupload_stop_upload_locked, RowsAlone
    <3> QED BY <3>1, <3>2
  <2> HIDE DEF rows
  <2>15. big' \in {big, [big EXCEPT !.stop = TRUE]}
    BY <2>1 DEF psync_fsupload_stop_upload_locked
  <2>16. Right(EntryRow, g, ghost'.last) /\ Matches(a, g) /\ DataFits(g)
    BY <2>9, <2>11 DEF Serves
  <2>17. a.writeid > of.writeid /\ a.modified /\ a.newfile = of.newfile /\ a.hash = of.hash
    BY <1>1, <1>4, <2>4, <2>9, <2>10 DEF Keeps, OpenTyped
  <2>18. Busy(proc')
    BY <1>0, <2>1 DEF Busy
  <2> HIDE DEF t
  <2>19. /\ t = Entry /\ of'.id = t /\ of'.writeid >= of.writeid /\ TRUE \in BOOLEAN
         /\ OpenTyped(of') /\ of' # NoFile
    BY <1>1, <2>1, <2>4, <2>6, <2>10, <2>17 DEF t, OpenTyped
  <2> QED BY <1>0, <1>1, <2>1, <2>6, <2>11, <2>12, <2>13, <2>14, <2>15, <2>16, <2>17, <2>18, <2>19, WriteRight
<1> QED BY <1>3, <1>4

\* The pages of a new file are copied, a modified one is given its size; the write
\* goes to the one as to the other.
LEMMA FillRight ==
  ASSUME IInv, CInv, ~Damaged', NEW p \in Procs, Fill(p)
  PROVE  CInv'
<1> DEFINE c == Call(p)
           t == of.id
           f == file[t]
           k == [proc[p] EXCEPT !.pc = "idle"]
           hash == of.hash
<1>0. /\ proc[p].pc = "fill" /\ proc' = [proc EXCEPT ![p] = k] /\ UNCHANGED <<tab, srv, rel, upl, big>>
  BY DEF Fill
<1>1. /\ proc \in [Procs -> ProcStates] /\ proc[p] \in ProcStates /\ proc[p].open
      /\ IsOpen(of) /\ of # NoFile /\ t # 0 /\ Single(proc) /\ OpenTyped(of)
      /\ c \in Operations /\ c.op \in {"write", "size"}
  <2>1. proc[p].open /\ proc \in [Procs -> ProcStates]
    BY <1>0, OnlyOpenCalls DEF IInv
  <2>2. /\ CallFits(user.scripts[p], proc[p], of) /\ user.scripts[p] \in Seq(Operations)
    BY DEF IInv, UserFits
  <2>3. user.scripts[p] # <<>> /\ Head(user.scripts[p]).op \in {"write", "size"} /\ t # 0
    BY <1>0, <2>2 DEF CallFits
  <2> QED BY <2>1, <2>2, <2>3, HandleHasFile, OpenIsSomeFile, TabIs DEF CInv, Call
<1>2. k.pc = "idle" /\ k.open
  BY <1>1 DEF ProcStates
<1> HIDE DEF k
<1>3. proc'[p] = k /\ \A x \in Procs : x # p => proc'[x] = proc[x]
  BY <1>0, <1>1, OthersStay
<1>4. Stage(proc) = "fill" /\ Stage(proc') = "none" /\ Single(proc') /\ Busy(proc')
  <2>1. \A x \in Procs : x # p => proc[x].pc \notin {"create", "fill"}
    BY <1>0, <1>1 DEF Single
  <2> QED BY <1>0, <1>2, <1>3, <2>1 DEF Stage, Single, Busy
<1>5. /\ Entry = t /\ t \in DOMAIN tab.rows /\ EntryRow # NoRow
      /\ EntryRow.type \in Types /\ EntryRow.base \in Contents
  BY <1>1, TabIs, RowView DEF Naming, EntryRow, RowsTyped
<1>6. /\ EntryRow.base = hash /\ hash = ghost.last /\ of.initial = Len(hash)
      /\ (of.newfile <=> EntryRow.type = "creat") /\ (~of.newfile => of.local = {})
  BY <1>1, <1>4, <1>5 DEF CInv, OpenShows
<1>7. EntryData # NoData /\ EntryData.d = <<>> /\ EntryData.i = {}
  BY <1>4 DEF CInv, Filing
<1>8. t \in DOMAIN file /\ f = EntryData /\ DataFits(f) /\ f.d = <<>> /\ f.i = {}
  BY <1>5, <1>7, TabIs, DataView DEF EntryData
<1>9. ~(of.newfile /\ ~ppagecache_have_all_pages(hash))
  <2> SUFFICES ASSUME of.newfile, ~ppagecache_have_all_pages(hash) PROVE FALSE
    OBVIOUS
  <2> DEFINE flags == {"uncopied"}
             g == ghost
  <2>1. ghost' = Noting(g, flags) /\ DOMAIN g = GhostFields
    BY DEF Fill, IInv, TabFits
  <2> HIDE DEF flags
  <2>2. flags \cap Damages = {}
    BY <2>1, Undamaged
  <2> QED BY <2>2 DEF flags, Damages
<1>10. ghost.last \in Contents /\ hash \in Contents /\ Len(hash) \in Nat
  BY <1>6 DEF CInv, Versions, Contents
<1> DEFINE o == IF of.newfile THEN [of EXCEPT !.size = of.initial]
                ELSE [of EXCEPT !.modified = TRUE, !.size = of.initial, !.local = @ \cup f.i]
           d == IF of.newfile THEN ppagecache_copy_to_file(hash) ELSE Resize(f.d, of.initial)
           h == [f EXCEPT !.d = d]
           s == Applied([o |-> o, f |-> h], c)
           a == s.o
           g == s.f
<1>11. of' = a /\ file' = [file EXCEPT ![t] = g] /\ ghost' = Expected(c)
  <2>1. CASE of.newfile
    BY <1>9, <2>1 DEF Fill
  <2>2. CASE ~of.newfile
    BY <1>9, <2>2 DEF Fill
  <2> QED BY <2>1, <2>2
<1>12. d \in Contents /\ Len(d) = Len(hash) /\ (of.newfile => d = hash)
  <2>1. CASE of.newfile
    <3>1. TruePages(tab.pages) /\ ppagecache_have_all_pages(hash)
      BY <1>9, <2>1 DEF CInv
    <3>2. ppagecache_copy_to_file(hash) = hash
      BY <1>10, <3>1, CopiedWhole
    <3> QED BY <1>10, <2>1, <3>2
  <2>2. CASE ~of.newfile
    <3>1. f.d \in Contents /\ of.initial \in Nat
      BY <1>6, <1>8, <1>10 DEF DataFits
    <3>2. Resize(f.d, of.initial) \in Contents /\ Len(Resize(f.d, of.initial)) = of.initial
      BY <3>1, Resized
    <3> QED BY <1>6, <2>2, <3>2
  <2> QED BY <2>1, <2>2
<1> HIDE DEF d
<1>13. DataFits(h) /\ h.d = d /\ h.i = {}
  BY <1>8, <1>12 DEF DataFits
<1> HIDE DEF h
<1>14. /\ DOMAIN o = OfFields /\ o.newfile = of.newfile /\ o.size = Len(hash) /\ o.local \subseteq Int
       /\ (~of.newfile => o.local = {} /\ o.modified = TRUE) /\ (of.newfile => o.modified = of.modified)
       /\ o.hash = of.hash /\ o.initial = of.initial /\ Same(o, of)
  <2>0. DOMAIN of = OfFields /\ of.local \subseteq Int
    BY <1>1 DEF IsOpen, OpenTyped
  <2>1. CASE of.newfile
    BY <1>6, <2>0, <2>1 DEF OfFields, Same
  <2>2. CASE ~of.newfile
    <3> DEFINE local == of.local \cup f.i
    <3>1. o = [of EXCEPT !.modified = TRUE, !.size = of.initial, !.local = local] /\ local = {}
      BY <1>6, <1>8, <2>2
    <3> HIDE DEF local, o
    <3> QED BY <1>6, <2>0, <2>2, <3>1 DEF OfFields, Same
  <2> QED BY <2>1, <2>2
<1> HIDE DEF o
<1>15. o.modified = TRUE
  <2>1. /\ of.newfile => of.modified
        /\ of.newfile \in BOOLEAN /\ of.modified \in BOOLEAN
    BY <1>1 DEF CInv, OpenShows, OpenTyped
  <2> QED BY <1>14, <2>1
<1>16. Sized(o)
  BY <1>10, <1>14, <1>1 DEF Sized, OpenTyped
<1>17. IsOpen(o) /\ o # NoFile /\ OpenTyped(o) /\ o.writeid = of.writeid /\ o.id = of.id
  <2>1. IsOpen(o) /\ o # NoFile
    BY <1>1, <1>14, SameIsOpen, OpenIsSomeFile
  <2> QED BY <1>1, <1>14, <1>15, <1>16, <2>1 DEF OpenTyped, Same, Sized
<1>18. Serves(o, h, EntryRow, hash)
  <2>1. Matches(o, h)
    BY <1>12, <1>13, <1>14 DEF Matches
  <2>2. Right(EntryRow, h, hash)
    <3>1. CASE of.newfile
      BY <1>5, <1>6, <1>10, <1>12, <1>13, <3>1, RightIs
    <3>2. CASE ~of.newfile
      <4>1. EntryRow.type = "modify"
        BY <1>5, <1>6, <3>2 DEF Types
      <4>2. Covers(hash, h, hash)
        BY <1>10, <1>12, <1>13 DEF Covers, At
      <4>3. Sound("modify", hash, h)
        BY <1>12, <1>13, <1>10 DEF Sound
      <4> QED BY <1>5, <1>6, <1>10, <1>13, <4>1, <4>2, <4>3, RightIs
    <3> QED BY <3>1, <3>2
  <2> QED BY <1>5, <1>6, <1>10, <1>13, <1>14, <1>16, <2>1, <2>2 DEF Serves
<1> HIDE DEF c, f
<1>19. Served(s, o, EntryRow, After(c, hash)) /\ Leaves(s, o)
  BY <1>1, <1>14, <1>18, AppliedRight, AppliedLeaves
<1> HIDE DEF s
<1>20. Serves(a, g, EntryRow, After(c, ghost.last)) /\ Keeps(a, o) /\ Same(a, o)
  BY <1>6, <1>19 DEF Served, Leaves
<1> HIDE DEF a, g
<1>21. IsOpen(a) /\ a # NoFile /\ OpenTyped(a) /\ a.writeid = o.writeid /\ a.id = o.id
  BY <1>17, <1>20, WrittenTyped DEF Serves
<1>22. /\ ghost'.last = After(c, ghost.last) /\ ghost'.rows = ghost.rows
       /\ ghost'.versions = ghost.versions \cup {ghost'.last} /\ ghost'.last \in Contents
  BY <1>1, <1>10, <1>11, ExpectedIs, AfterIs
<1>23. Right(EntryRow, g, ghost'.last) /\ Matches(a, g) /\ DataFits(g)
  BY <1>20, <1>22 DEF Serves
<1>24. a.writeid >= of.writeid /\ a.modified /\ a.newfile = of.newfile /\ a.hash = of.hash
  BY <1>1, <1>14, <1>15, <1>17, <1>20, <1>21 DEF Keeps, OpenTyped
<1> DEFINE rows == tab.rows
<1>25. /\ tab'.rows = rows /\ RowsAlone(tab', tab) /\ DOMAIN rows = DOMAIN tab.rows /\ RowsTyped(rows)
       /\ RowsKept(rows, tab.rows, t) /\ rows[t].type = tab.rows[t].type
       /\ rows[t].base = tab.rows[t].base /\ rows[t].int1 = tab.rows[t].int1
       /\ rows[t].status \in {1, tab.rows[t].status}
  BY <1>0, TabIs DEF RowsKept, RowsAlone
<1> HIDE DEF rows, t
<1>26. \A x \in Procs : proc'[x].pc = "flushed" => proc'[x] = proc[x]
  BY <1>2, <1>3
<1>27. of'.id = t /\ TRUE \in BOOLEAN /\ big' \in {big, [big EXCEPT !.stop = TRUE]}
  BY <1>0, <1>11, <1>17, <1>21 DEF t
<1> QED BY <1>0, <1>1, <1>4, <1>5, <1>8, <1>11, <1>21, <1>22, <1>23, <1>24, <1>25, <1>26, <1>27, WriteRight

----------------------------------------------------------------------------
(* Calls that make a row.                                                  *)

LEMMA NewIdNew ==
  ASSUME IInv
  PROVE  NewId \notin DOMAIN tab.rows /\ NewId \in Nat \ {0}
<1> DEFINE S == DOMAIN tab.rows \cup {0}
<1>1. ghost.rows \in Nat /\ S # {} /\ S \subseteq 0..ghost.rows
  BY DEF IInv, TabFits, RowsFit
<1> HIDE DEF S
<1>2. \E k \in S : \A j \in S : j <= k
  BY <1>1, Greatest
<1>3. \A x, y \in S : x <= y => y >= x
  BY <1>1
<1>4. Max(S) \in S /\ \A j \in S : Max(S) >= j
  <2>1. PICK k \in S : \A j \in S : k >= j
    BY <1>2, <1>3
  <2> QED BY <2>1 DEF Max
<1>5. NewId = 1 + Max(S)
  BY DEF NewId, S
<1>6. NewId \notin S /\ NewId \in Nat \ {0}
  <2> DEFINE m == Max(S)
             n == NewId
  <2>0. \A j \in S : j \in Nat
    BY <1>1
  <2>1. m \in S /\ (\A j \in S : m >= j) /\ n = 1 + m
    BY <1>4, <1>5
  <2> HIDE DEF m, n
  <2>2. n \notin S /\ n \in Nat \ {0}
    BY <2>0, <2>1
  <2> QED BY <2>2 DEF n
<1> QED BY <1>6 DEF S

\* A row appears for a name the overlay did not have.
Appears(row, rows, t, o, last, f) ==
  /\ t \in Nat \ {0} /\ t \notin DOMAIN tab.rows /\ DOMAIN f \subseteq DOMAIN rows
  /\ DOMAIN rows = DOMAIN tab.rows \cup {t} /\ RowsTyped(rows) /\ Naming(t, rows, o, upl)
  /\ Entered(Row(rows, t), rows, f, upl, last)
  /\ Handed(rows, f, tab.cache, tab.caching)
  /\ ~Sending(upl) /\ ~SendingLarge(big) /\ EntryData = NoData /\ tab.entries = <<>>
  /\ Row(rows, t) # NoRow /\ Row(rows, t).type = row.type /\ Row(rows, t).base = row.base
  /\ Row(rows, t).status = 1 /\ Row(rows, t).int1 = 0

LEMMA RowAppears ==
  ASSUME IInv, CInv, Entry = 0, FreshId, NEW t, t = NewId, NEW row, row.type \in Types,
         row.base \in Contents, row.status = 1, row.int1 = 0,
         NEW rows, rows = Extended(tab.rows, t, row), NEW o, o # NoFile, o.id = t, NEW last,
         NEW f, DOMAIN f \ {t} = DOMAIN file, \A x \in DOMAIN file : f[x] = file[x]
  PROVE  Appears(row, rows, t, o, last, f)
<1>1. t \notin DOMAIN tab.rows /\ t \in Nat \ {0}
  BY NewIdNew
<1>2. /\ DOMAIN rows = DOMAIN tab.rows \cup {t} /\ rows[t] = row
      /\ \A x \in DOMAIN tab.rows : rows[x] = tab.rows[x]
  BY <1>1 DEF Extended
<1>3. /\ Row(rows, t) # NoRow /\ Row(rows, t).type = row.type /\ Row(rows, t).base = row.base
      /\ Row(rows, t).status = 1 /\ Row(rows, t).int1 = 0
  BY <1>2, RowView
<1>4. EntryRow = NoRow /\ EntryData = NoData /\ tab.entries = <<>>
  BY TabIs, EntryIs DEF EntryRow, EntryData, Row, Data, CInv
<1>5. ~Sending(upl) /\ ~SendingLarge(big)
  BY <1>4 DEF CInv, Small, LargeOne
<1>6. RowsTyped(rows)
  BY <1>2, TabIs DEF RowsTyped
<1>7. Live(rows) = Live(tab.rows) \cup {t}
  BY <1>1, <1>2 DEF Live
<1>8. /\ Entered(EntryRow, tab.rows, file, upl, ghost.last)
      /\ Naming(Entry, tab.rows, of, upl) /\ 0 \notin DOMAIN tab.rows
      /\ Handed(tab.rows, file, tab.cache, tab.caching)
  BY TabIs DEF CInv
<1>9. t \notin Entering(upl)
  BY <1>1, <1>8 DEF Entered, Entering
<1>10. Naming(t, rows, o, upl)
  <2>1. Live(rows) \subseteq {t} \cup Entering(upl)
    BY <1>7, <1>8 DEF Naming, Live
  <2>2. \A x \in DOMAIN rows : rows[x].status = 2 => upl.pc = "idle"
    BY <1>2, <1>8 DEF Naming
  <2> QED BY <1>2, <1>7, <1>9, <2>1, <2>2 DEF Naming
<1>11. Entered(Row(rows, t), rows, f, upl, last)
  BY <1>1, <1>2, <1>3, <1>8, <1>9 DEF Entered, Entering
<1>12. \A k \in DOMAIN tab.cache : tab.cache[k].t # t
  BY DEF FreshId
<1>13. Handed(rows, f, tab.cache, tab.caching)
  <2>1. tab.caching = "del" => tab.cache # <<>> /\ 1 \in DOMAIN tab.cache
    <3> DEFINE S == [t : Nat, type : Types, hash : Contents, old : Contents]
    <3>1. tab.cache \in Seq(S)
      BY TabIs DEF CacheTyped
    <3> HIDE DEF S
    <3>2. tab.cache # <<>> => 1 \in DOMAIN tab.cache
      BY <3>1
    <3> QED BY <1>8, <3>2 DEF Handed
  <2> QED BY <1>7, <1>8, <1>12, <2>1 DEF Handed
<1>14. DOMAIN f \subseteq DOMAIN rows
  BY <1>2, TabIs
<1> QED BY <1>1, <1>2, <1>3, <1>4, <1>5, <1>6, <1>10, <1>11, <1>13, <1>14 DEF Appears

\* A file that can be read is opened for writing: a row is made for it.
LEMMA ReopenRight ==
  ASSUME IInv, CInv, ~Damaged', NEW p \in Procs, proc[p].open, proc[p].pc = "idle", ~Locked,
         ~of.modified, UNCHANGED <<srv, rel, upl>>, psync_fs_reopen_file_for_writing(p)
  PROVE  CInv'
<1> DEFINE i == psync_fs_inc_writeid_locked(of)
           t == NewId
           o == [i EXCEPT !.id = t]
           g == [ghost EXCEPT !.rows = @ + 1]
           k == [proc[p] EXCEPT !.pc = "create"]
           hash == of.hash
           plain == NewRow("creat", hash)
           arrow == [NewRow("modify", hash) EXCEPT !.after = @ \cup ({Entry} \ {0})]
<1>0. /\ of # NoFile /\ IsOpen(of) /\ OpenTyped(of) /\ Stage(proc) = "none" /\ Single(proc)
      /\ proc \in [Procs -> ProcStates] /\ proc[p] \in ProcStates /\ DOMAIN ghost = GhostFields
      /\ ghost.rows \in Nat
  BY HandleHasFile, OpenIsSomeFile, Unlocked, TabIs DEF CInv, IInv, TabFits, RowsFit
<1>1. OpenShows(EntryRow, EntryData, of, "none", ghost.last)
  BY <1>0 DEF CInv
<1>2. /\ of.id = 0 /\ Entry = 0 /\ hash = ghost.last /\ of.initial = Len(hash) /\ ~of.newfile
      /\ hash \in Contents
  BY <1>0, <1>1, TabIs DEF OpenShows, Naming, OpenTyped
<1>3. /\ IsOpen(i) /\ i # NoFile /\ OpenTyped(i) /\ i.writeid = of.writeid + 1 /\ i.id = of.id
      /\ i.newfile = of.newfile /\ i.modified = of.modified /\ i.hash = of.hash
      /\ i.initial = of.initial /\ i.size = of.size /\ i.local = of.local
  BY <1>0, WriteIdGrows
<1>4. t \in Nat \ {0} /\ FreshId
  BY NewIdNew DEF psync_fs_reopen_file_for_writing
<1> HIDE DEF i
<1>5. /\ IsOpen(o) /\ o # NoFile /\ OpenTyped(o) /\ o.writeid = of.writeid + 1 /\ o.id = t
      /\ o.newfile = of.newfile /\ o.modified = of.modified /\ o.hash = hash
      /\ o.initial = of.initial /\ o.size = of.size /\ o.local = of.local
  <2> HIDE DEF t, hash
  <2>1. /\ DOMAIN o = OfFields /\ o.id = t /\ o.ref = i.ref /\ o.timer = i.timer /\ o.writeid = i.writeid
        /\ o.newfile = i.newfile /\ o.modified = i.modified /\ o.hash = i.hash
        /\ o.initial = i.initial /\ o.size = i.size /\ o.local = i.local
    BY <1>3 DEF IsOpen, OfFields
  <2> HIDE DEF o
  <2>2. IsOpen(o) /\ o # NoFile
    BY <1>3, <1>4, <2>1, OpenIsSomeFile DEF IsOpen
  <2> QED BY <1>3, <2>1, <2>2 DEF OpenTyped, hash
<1> DEFINE made == [o EXCEPT !.newfile = TRUE, !.modified = TRUE]
<1>6. /\ IsOpen(made) /\ made # NoFile /\ OpenTyped(made) /\ made.writeid = of.writeid + 1 /\ made.id = t
      /\ made.newfile = TRUE /\ made.modified = TRUE /\ made.hash = hash
      /\ made.initial = of.initial /\ made.size = of.size /\ made.local = of.local
  <2> HIDE DEF t, hash, o
  <2>1. /\ DOMAIN made = OfFields /\ made.id = t /\ made.ref = o.ref /\ made.timer = o.timer
        /\ made.writeid = o.writeid /\ made.newfile = TRUE /\ made.modified = TRUE /\ made.hash = o.hash
        /\ made.initial = o.initial /\ made.size = o.size /\ made.local = o.local
    BY <1>5 DEF IsOpen, OfFields
  <2> HIDE DEF made
  <2>2. IsOpen(made) /\ made # NoFile
    BY <1>5, <2>1, OpenIsSomeFile DEF IsOpen
  <2> QED BY <1>5, <2>1, <2>2 DEF OpenTyped
<1>7. proc' = [proc EXCEPT ![p] = k] /\ UNCHANGED <<file, big>>
  BY DEF psync_fs_reopen_file_for_writing
<1>8. k.pc = "create" /\ k.open
  BY <1>0 DEF ProcStates
<1> HIDE DEF k
<1>9. proc'[p] = k /\ \A x \in Procs : x # p => proc'[x] = proc[x]
  BY <1>0, <1>7, OthersStay
<1>10. Stage(proc') = "create" /\ Single(proc') /\ Busy(proc')
  <2>1. \A x \in Procs : x # p => proc'[x].pc \notin {"create", "fill"}
    BY <1>9 DEF Locked
  <2> QED BY <1>8, <1>9, <2>1 DEF Stage, Single, Busy
<1>11. /\ plain.type = "creat" /\ plain.base = hash /\ plain.status = 1 /\ plain.int1 = 0
       /\ arrow.type = "modify" /\ arrow.base = hash /\ arrow.status = 1 /\ arrow.int1 = 0
  BY DEF NewRow
<1>12. DOMAIN g = GhostFields /\ g.rows = ghost.rows + 1 /\ g.last = ghost.last
       /\ g.versions = ghost.versions /\ g.known = ghost.known
  BY <1>0 DEF GhostFields
<1> HIDE DEF g
<1>13. tab.entries = <<>>
  BY <1>2, EntryIs DEF CInv
<1> DEFINE entries == <<t>>
<1>14. \E row \in {plain, arrow} :
         /\ tab' = [tab EXCEPT !.rows = Extended(tab.rows, t, row), !.entries = entries, !.lost = FALSE]
         /\ of' = IF row.type = "creat" THEN made ELSE o
         /\ row.type = "modify" => of.initial > 0 /\ of.local = {}
         /\ ghost'.rows = g.rows /\ ghost'.last = g.last /\ ghost'.versions = g.versions
  <2>1. CASE of' = made /\ tab' = psync_fstask_add_creat(hash) /\ ghost' = g
    <3>1. tab' = [tab EXCEPT !.rows = Extended(tab.rows, t, plain), !.entries = entries, !.lost = FALSE]
      BY <1>13, <2>1 DEF psync_fstask_add_creat
    <3> HIDE DEF plain, arrow, made, o
    <3> QED BY <1>11, <2>1, <3>1
  <2>2. CASE /\ of' = o /\ tab' = psync_fstask_add_modified_file(hash) /\ of.initial > 0
             /\ ghost' = Noting(g, IF of.local = {} THEN {} ELSE {"stalelocal"})
    <3>1. tab' = [tab EXCEPT !.rows = Extended(tab.rows, t, arrow), !.entries = entries, !.lost = FALSE]
      BY <1>13, <2>2 DEF psync_fstask_add_modified_file, WithoutEntry
    <3> DEFINE flags == IF of.local = {} THEN {} ELSE {"stalelocal"}
    <3>2. flags \cap Damages = {}
      <4> HIDE DEF flags
      <4>1. ghost' = Noting(g, flags)
        BY <2>2 DEF flags
      <4> QED BY <1>12, <4>1, Undamaged
    <3>3. of.local = {}
      BY <3>2 DEF Damages
    <3>4. ghost'.rows = g.rows /\ ghost'.last = g.last /\ ghost'.versions = g.versions
      BY <1>12, <2>2 DEF Noting, GhostFields
    <3> HIDE DEF plain, arrow, made, o
    <3> QED BY <1>11, <2>2, <3>1, <3>3, <3>4
  <2>3. \/ of' = made /\ tab' = psync_fstask_add_creat(hash) /\ ghost' = g
        \/ /\ of' = o /\ tab' = psync_fstask_add_modified_file(hash) /\ of.initial > 0
           /\ ghost' = Noting(g, IF of.local = {} THEN {} ELSE {"stalelocal"})
    BY DEF psync_fs_reopen_file_for_writing, g, i
  <2> QED BY <2>1, <2>2, <2>3
<1> HIDE DEF plain, arrow, made, o, entries
<1>15. PICK row \in {plain, arrow} :
         /\ tab' = [tab EXCEPT !.rows = Extended(tab.rows, t, row), !.entries = entries, !.lost = FALSE]
         /\ of' = IF row.type = "creat" THEN made ELSE o
         /\ row.type = "modify" => of.initial > 0 /\ of.local = {}
         /\ ghost'.rows = g.rows /\ ghost'.last = g.last /\ ghost'.versions = g.versions
  BY <1>14
<1> DEFINE rows == Extended(tab.rows, t, row)
<1>16. row.type \in Types /\ row.base = hash /\ row.status = 1 /\ row.int1 = 0
  BY <1>11, <1>15 DEF Types
<1>17. /\ OpenTyped(of') /\ of' # NoFile /\ of'.id = t /\ of'.writeid = of.writeid + 1 /\ of'.hash = hash
       /\ of'.initial = of.initial /\ of'.local = of.local /\ (of'.newfile <=> row.type = "creat")
       /\ of'.modified = of'.newfile
  <2>1. row.type = "creat" \/ row.type = "modify"
    BY <1>16 DEF Types
  <2>2. of.newfile = FALSE /\ of.modified = FALSE
    BY <1>0, <1>2 DEF OpenTyped
  <2> QED BY <1>5, <1>6, <1>15, <2>1, <2>2
<1> DEFINE e == of'
           last == ghost.last
           f == file
           q == Row(rows, t)
<1>a. Appears(row, rows, t, e, last, f)
  <2>1. DOMAIN f \ {t} = DOMAIN file /\ \A x \in DOMAIN file : f[x] = file[x]
    BY NewIdNew, TabIs
  <2>2. e # NoFile /\ e.id = t /\ rows = Extended(tab.rows, t, row) /\ t = NewId
    BY <1>17
  <2>3. row.base \in Contents /\ Entry = 0 /\ FreshId
    BY <1>2, <1>4, <1>16
  <2> HIDE DEF e, last, f, rows, t
  <2> QED BY <1>16, <2>1, <2>2, <2>3, RowAppears
<1>18. /\ t \in Nat \ {0} /\ t \notin DOMAIN tab.rows /\ DOMAIN f \subseteq DOMAIN rows
       /\ DOMAIN rows = DOMAIN tab.rows \cup {t} /\ RowsTyped(rows) /\ Naming(t, rows, e, upl)
       /\ Entered(q, rows, f, upl, last)
       /\ Handed(rows, f, tab.cache, tab.caching)
       /\ ~Sending(upl) /\ ~SendingLarge(big) /\ EntryData = NoData /\ tab.entries = <<>>
       /\ q # NoRow /\ q.type = row.type /\ q.base = row.base
       /\ q.status = 1 /\ q.int1 = 0
  BY <1>a DEF Appears
<1>19. /\ tab'.rows = rows /\ tab'.entries = entries /\ tab'.lost = FALSE /\ tab'.mir = tab.mir
       /\ tab'.cache = tab.cache /\ tab'.caching = tab.caching /\ tab'.pages = tab.pages
  <2> HIDE DEF rows
  <2>1. tab' = [tab EXCEPT !.rows = rows, !.entries = entries, !.lost = FALSE]
    BY <1>15 DEF rows
  <2> QED BY <2>1, TabIs DEF TabFields
<1>20. Entry' = t /\ OneName(tab')
  <2> HIDE DEF t
  <2>1. entries # <<>> /\ Head(entries) = t /\ entries = <<entries[1]>> /\ entries[1] = t
    BY DEF entries
  <2> QED BY <1>4, <1>19, <2>1 DEF Entry, OneName
<1>21. Data(file, t) = NoData
  BY <1>18, TabIs DEF Data
<1>22. EntryRow' = q /\ EntryData' = NoData
  BY <1>7, <1>19, <1>20, <1>21 DEF EntryRow, EntryData
<1> HIDE DEF rows, t, q, hash
<1>23. Typed'
  BY <1>7, <1>17, <1>18, <1>19, TabIs DEF Typed
<1>24. Filing(q, NoData, of', "create", last, tab.mir, srv.now)
  <2>1. Filing(EntryRow, EntryData, of, Stage(proc), ghost.last, tab.mir, srv.now)
    BY DEF CInv
  <2> QED BY <1>17, <1>18, <2>1 DEF Filing
<1>25. OpenShows(q, NoData, of', "create", last)
  BY <1>2, <1>4, <1>15, <1>16, <1>17, <1>18 DEF OpenShows, Types
<1>26. Written(q, NoData, "create", last)
  BY DEF Written
<1>27. Numbered(of', "create", proc', rel', ghost'.rows)
  <2>1. Numbered(of, Stage(proc), proc, rel, ghost.rows)
    BY DEF CInv
  <2>2. ghost'.rows = ghost.rows + 1
    BY <1>12, <1>15
  <2>3. ASSUME NEW w, NEW n, Fresh(w, n, of, Stage(proc), ghost.rows)
        PROVE  Fresh(w, n, of', "create", ghost'.rows)
    BY <1>0, <2>2, <2>3 DEF Fresh
  <2>4. \A x \in Procs : proc'[x].pc = "flushed" => proc'[x] = proc[x]
    BY <1>8, <1>9
  <2> QED BY <2>1, <2>3, <2>4 DEF Numbered
<1>28. Settles(q, of', proc', rel', ghost'.rows)
  <2>1. of'.writeid \in Nat
    BY <1>17 DEF OpenTyped
  <2> QED BY <1>10, <1>18, <2>1 DEF Settles
<1>29. /\ Small(t, q, NoData, of', "create", upl, srv.now)
       /\ LargeOne(t, q, NoData, of', "create", upl, big, srv.now)
  BY <1>18 DEF Small, LargeOne
<1>30. TruePages(tab'.pages) /\ Versions(ghost', srv'.saved) /\ ghost'.last = last
  BY <1>12, <1>15, <1>19 DEF CInv, Versions
<1> QED BY <1>7, <1>10, <1>18, <1>19, <1>20, <1>22, <1>23, <1>24, <1>25, <1>26, <1>27, <1>28, <1>29, <1>30
        DEF CInv

----------------------------------------------------------------------------
(* psync_fs_open.                                                          *)

\* A program that opened the file is one that may write; the others are as before.
LEMMA OpensRight ==
  ASSUME IInv, NEW p \in Procs, proc[p].pc = "idle", ~Locked, NEW c, c = [proc[p] EXCEPT !.open = TRUE],
         proc' = [proc EXCEPT ![p] = c]
  PROVE  /\ Stage(proc) = "none" /\ Stage(proc') = "none" /\ Single(proc') /\ Busy(proc')
         /\ \A x \in Procs : proc'[x].pc = "flushed" => proc'[x] = proc[x]
<1>1. proc \in [Procs -> ProcStates] /\ proc[p] \in ProcStates
  BY DEF IInv
<1>2. c.pc = "idle" /\ c.open
  BY <1>1 DEF ProcStates
<1>3. proc'[p] = c /\ \A x \in Procs : x # p => proc'[x] = proc[x]
  BY <1>1, OthersStay
<1>4. \A x \in Procs : proc'[x].pc \notin {"create", "fill"}
  BY <1>2, <1>3 DEF Locked
<1> QED BY <1>2, <1>3, <1>4, Unlocked DEF Stage, Single, Busy

\* Another handle of a file that is open.
LEMMA OpenAgainRight ==
  ASSUME IInv, CInv, of # NoFile, UNCHANGED <<file, tab, srv, upl, rel, big>>, Alike(of', of),
         ghost'.last = ghost.last, ghost'.rows = ghost.rows, ghost'.versions = ghost.versions,
         Stage(proc) = "none", Stage(proc') = "none", Single(proc'), Busy(proc'),
         \A x \in Procs : proc'[x].pc = "flushed" => proc'[x] = proc[x]
  PROVE  CInv'
<1>1. /\ Numbered(of, Stage(proc), proc, rel, ghost.rows)
      /\ Settles(EntryRow, of, proc, rel, ghost.rows)
  BY DEF CInv
<1>2. Numbered(of', Stage(proc), proc', rel', ghost.rows)
  <2>1. ASSUME NEW w, NEW n, Fresh(w, n, of, Stage(proc), ghost.rows)
        PROVE  Fresh(w, n, of', Stage(proc), ghost.rows)
    BY <2>1 DEF Fresh, Alike
  <2> QED BY <1>1, <2>1 DEF Numbered
<1>3. Settles(EntryRow, of', proc', rel', ghost.rows)
  BY <1>1 DEF Settles, Alike
<1> QED BY <1>2, <1>3, FileMovesRight

\* Nobody has the file open: no call and no thread is going to release a row.
LEMMA NobodyHas ==
  ASSUME IInv, of = NoFile
  PROVE  rel = <<>> /\ \A x \in Procs : ~proc[x].open /\ proc[x].pc = "idle"
<1>1. Referenced(of, proc, rel) /\ ~IsOpen(of)
  BY OpenIsSomeFile DEF IInv
<1>2. rel = <<>> /\ \A x \in Procs : ~proc[x].open
  BY <1>1 DEF Referenced, Handles, Procs
<1> QED BY <1>2, OnlyOpenCalls

\* The file is opened that waits to be uploaded.
LEMMA OpenRowRight ==
  ASSUME IInv, CInv, of = NoFile, UNCHANGED <<tab, srv, upl, rel, big>>,
         NEW t, t = Entry, t \in DOMAIN tab.rows, NEW f, DataFits(f), file' = Extended(file, t, f),
         OpenTyped(of'), of' # NoFile, of'.id = t, of'.modified, of'.newfile <=> EntryRow.type = "creat",
         of'.hash = EntryRow.base, of'.writeid = EntryRow.int1, Matches(of', f),
         Right(EntryRow, f, ghost'.last), ghost'.last \in Contents, ghost'.rows = ghost.rows,
         ghost'.versions = ghost.versions \cup {ghost'.last},
         (EntryData # NoData => f = EntryData) \/ (~Sending(upl) /\ ~SendingLarge(big)),
         Stage(proc') = "none", Single(proc'), Busy(proc'),
         \A x \in Procs : proc'[x].pc = "flushed" => proc'[x] = proc[x]
  PROVE  CInv'
<1>1. rel = <<>> /\ Stage(proc) = "none" /\ \A x \in Procs : proc'[x].pc # "flushed"
  BY NobodyHas, Unlocked DEF Locked
<1>2. Entry' = Entry /\ EntryRow' = EntryRow
  BY EntryKept DEF EntryRow
<1>3. DOMAIN file' = DOMAIN file \cup {t} /\ file'[t] = f /\ \A x \in DOMAIN file : x # t => file'[x] = file[x]
  BY DEF Extended
<1>4. EntryData' = f /\ f # NoData
  BY <1>2, <1>3 DEF EntryData, Data, NoData, DataFits
<1>5. /\ EntryRow # NoRow /\ EntryRow.int1 \in Nat /\ t # 0 /\ t \in Live(tab.rows)
  BY RowView, TabIs DEF EntryRow, RowsTyped, Naming
<1>6. FilesTyped(file') /\ DOMAIN file' \subseteq DOMAIN tab.rows
  BY <1>3, TabIs DEF FilesTyped
<1>7. Typed' /\ OneName(tab')
  BY <1>6, TabIs DEF CInv, Typed, OneName
<1>8. Naming(Entry, tab.rows, of', upl)
  BY TabIs DEF Naming
<1>9. Filing(EntryRow, f, of', "none", ghost'.last, tab.mir, srv.now)
  BY <1>4, <1>5 DEF Filing
<1>10. Entered(EntryRow, tab.rows, file', upl, ghost'.last)
  <2>1. Entered(EntryRow, tab.rows, file, upl, ghost.last)
    BY DEF CInv
  <2>2. upl.pc \in {"cache", "del"} => upl.t # t
    BY TabIs DEF Naming, Entering
  <2> QED BY <1>3, <1>5, <2>1, <2>2 DEF Entered
<1>11. Handed(tab.rows, file', tab.cache, tab.caching)
  <2>1. Handed(tab.rows, file, tab.cache, tab.caching)
    BY DEF CInv
  <2>2. tab.caching = "del" => 1 \in DOMAIN tab.cache
    <3> DEFINE S == [t : Nat, type : Types, hash : Contents, old : Contents]
    <3>1. tab.cache \in Seq(S)
      BY TabIs DEF CacheTyped
    <3> HIDE DEF S
    <3>2. tab.cache # <<>> => 1 \in DOMAIN tab.cache
      BY <3>1
    <3> QED BY <2>1, <3>2 DEF Handed
  <2> QED BY <1>3, <1>5, <2>1, <2>2 DEF Handed
<1>12. OpenShows(EntryRow, f, of', "none", ghost'.last)
  BY <1>4, <1>5 DEF OpenShows, Matches
<1>13. Written(EntryRow, f, "none", ghost'.last)
  BY DEF Written
<1>14. Numbered(of', "none", proc', rel', ghost'.rows)
  BY <1>1 DEF Numbered
<1>15. Settles(EntryRow, of', proc', rel', ghost'.rows)
  BY <1>5 DEF Settles
<1>16. WriteId(of', EntryRow) = EntryRow.int1 /\ WriteId(of, EntryRow) = EntryRow.int1
  BY DEF WriteId
<1>17. Small(Entry, EntryRow, f, of', "none", upl, srv.now)
  <2>1. Small(Entry, EntryRow, EntryData, of, "none", upl, srv.now)
    BY <1>1 DEF CInv
  <2>2. CASE EntryData # NoData => f = EntryData
    BY <1>4, <1>16, <2>1, <2>2 DEF Small
  <2>3. CASE ~Sending(upl)
    BY <2>3 DEF Small
  <2> QED BY <2>2, <2>3
<1>18. LargeOne(Entry, EntryRow, f, of', "none", upl, big, srv.now)
  <2>1. LargeOne(Entry, EntryRow, EntryData, of, "none", upl, big, srv.now)
    BY <1>1 DEF CInv
  <2>2. CASE EntryData # NoData => f = EntryData
    BY <1>4, <1>16, <2>1, <2>2 DEF LargeOne
  <2>3. CASE ~SendingLarge(big)
    BY <2>3 DEF LargeOne
  <2> QED BY <2>2, <2>3
<1>19. Versions(ghost', srv'.saved) /\ TruePages(tab'.pages)
  BY DEF CInv, Versions
<1> QED BY <1>2, <1>4, <1>6, <1>7, <1>8, <1>9, <1>10, <1>11, <1>12, <1>13, <1>14, <1>15, <1>17, <1>18, <1>19
        DEF CInv

\* The open file that psync_fs_create_file makes.
Makes(o, id, newfile, size, base, w) ==
  /\ DOMAIN o = OfFields /\ o.id = id /\ o.newfile = newfile /\ o.hash = base /\ o.size = size
  /\ o.initial = size /\ o.local = {} /\ o.writeid = w
  /\ (id > 0 => o.modified = TRUE) /\ (id = 0 => o.modified = FALSE)
LEMMA Created ==
  ASSUME NEW id \in Nat, NEW newfile, NEW size, NEW base, NEW w,
         NEW o, o = psync_fs_create_file(id, newfile, size, base, w)
  PROVE  Makes(o, id, newfile, size, base, w)
<1> DEFINE m == id > 0
<1>1. (id > 0 => m = TRUE) /\ (id = 0 => m = FALSE)
  OBVIOUS
<1>2. o = [id |-> id, newfile |-> newfile, modified |-> m, released |-> FALSE,
           writeid |-> w, size |-> size, initial |-> size, hash |-> base, local |-> {},
           ref |-> 1, timer |-> "none"]
  BY DEF psync_fs_create_file
<1> HIDE DEF m
<1> QED BY <1>1, <1>2 DEF Makes, OfFields

\* The file is what the server has.
LEMMA OpenServerRight ==
  ASSUME IInv, CInv, Entry = 0, of = NoFile \/ of.id = 0, OpenServer, UNCHANGED <<srv, upl, rel>>,
         Stage(proc) = "none", Stage(proc') = "none", Single(proc'), Busy(proc'),
         \A x \in Procs : proc'[x].pc = "flushed" => proc'[x] = proc[x]
  PROVE  CInv'
<1>0. UNCHANGED <<file, tab, big, ghost>>
  BY DEF OpenServer
<1>1. CASE of # NoFile
  <2> DEFINE ref == of.ref + 1
  <2>1. of' = [of EXCEPT !.ref = ref] /\ IsOpen(of)
    BY <1>1, SomeFileIsOpen DEF OpenServer
  <2> HIDE DEF ref
  <2>2. Alike(of', of)
    BY <1>1, <2>1 DEF Alike, IsOpen, OfFields, NoFile
  <2> QED BY <1>0, <1>1, <2>2, OpenAgainRight
<1>2. CASE of = NoFile
  <2> DEFINE mir == tab.mir
  <2>1. of' = psync_fs_create_file(0, FALSE, Len(mir), mir, 0)
    BY <1>2 DEF OpenServer
  <2>2. EntryRow = NoRow /\ EntryData = NoData /\ rel = <<>> /\ \A x \in Procs : proc'[x].pc # "flushed"
    BY <1>2, TabIs, NobodyHas DEF EntryRow, EntryData, Row, Data
  <2>3. mir = ghost.last /\ mir \in Contents /\ Len(mir) \in Nat
    BY <2>2 DEF CInv, Filing, Versions, Contents
  <2> HIDE DEF mir
  <2>4. /\ DOMAIN of' = OfFields /\ of'.id = 0 /\ of'.newfile = FALSE /\ of'.modified = FALSE /\ of'.hash = mir
        /\ of'.size = Len(mir) /\ of'.initial = Len(mir) /\ of'.local = {} /\ of'.writeid = 0
    <3> DEFINE zero == 0
               n == Len(mir)
               no == FALSE
               o == of'
    <3>1. o = psync_fs_create_file(zero, no, n, mir, zero) /\ zero \in Nat /\ zero = 0
      BY <2>1
    <3> HIDE DEF zero, n, no, o
    <3>2. Makes(o, zero, no, n, mir, zero)
      BY <3>1, Created
    <3>3. /\ DOMAIN o = OfFields /\ o.id = zero /\ o.newfile = no /\ o.hash = mir
          /\ o.size = n /\ o.initial = n /\ o.local = {} /\ o.writeid = zero /\ o.modified = FALSE
      BY <3>1, <3>2 DEF Makes
    <3> QED BY <3>3 DEF zero, n, no, o
  <2>5. of' # NoFile /\ OpenTyped(of')
    <3>1. of' # NoFile
      BY <2>4 DEF NoFile
    <3>2. of'.newfile \in BOOLEAN /\ of'.modified \in BOOLEAN
      BY <2>4
    <3>3. of'.local \subseteq Int /\ of'.size \in Nat /\ of'.initial \in Nat /\ of'.writeid \in Nat
      BY <2>3, <2>4
    <3> QED BY <2>3, <2>4, <3>1, <3>2, <3>3 DEF OpenTyped
  <2>6. Entry' = Entry /\ EntryRow' = EntryRow /\ EntryData' = EntryData
    BY <1>0, EntryKept DEF EntryRow, EntryData
  <2>7. Typed' /\ OneName(tab')
    BY <1>0, <2>5, TabIs DEF CInv, Typed, OneName
  <2>8. Naming(Entry, tab.rows, of', upl)
    BY <2>4, TabIs DEF Naming
  <2>9. Filing(EntryRow, EntryData, of', "none", ghost.last, tab.mir, srv.now)
    BY <2>2 DEF CInv, Filing
  <2>10. OpenShows(EntryRow, EntryData, of', "none", ghost.last)
    BY <2>3, <2>4 DEF OpenShows
  <2>11. Numbered(of', "none", proc', rel', ghost.rows) /\ Settles(EntryRow, of', proc', rel', ghost.rows)
    BY <2>2, <2>4 DEF Numbered, Settles
  <2>12. ~Sending(upl) /\ ~SendingLarge(big)
    BY <2>2 DEF CInv, Small, LargeOne
  <2>13. /\ Small(Entry, EntryRow, EntryData, of', "none", upl, srv.now)
         /\ LargeOne(Entry, EntryRow, EntryData, of', "none", upl, big, srv.now)
    BY <2>12 DEF Small, LargeOne
  <2> QED BY <1>0, <2>6, <2>7, <2>8, <2>9, <2>10, <2>11, <2>13 DEF CInv
<1> QED BY <1>1, <1>2

\* What psync_fs_open does to the revision of a file that waits to be uploaded.
LEMMA EmptiedRight ==
  ASSUME NEW r, r.type \in Types, r.base \in Contents, NEW f, f = [d |-> <<>>, i |-> {}]
  PROVE  DataFits(f) /\ Right(r, f, <<>>)
<1>1. <<>> \in Contents /\ Len(<<>>) = 0 /\ f.d = <<>> /\ f.i = {} /\ DataFits(f)
  BY DEF Contents, DataFits
<1>2. Covers(r.base, f, <<>>) /\ Sound(r.type, r.base, f)
  BY <1>1 DEF Covers, Sound
<1> QED BY <1>1, <1>2, RightIs DEF Types

\* Nothing but the empty content has an empty data file.
LEMMA EmptyContent ==
  ASSUME NEW r, r.type \in Types, r.base \in Contents, NEW f, DataFits(f), NEW c \in Contents,
         Right(r, f, c), Len(f.d) = 0
  PROVE  c = <<>>
<1>1. f.d = c \/ Len(c) = Len(f.d)
  BY RightIs DEF Types, Covers
<1>2. Len(c) = 0
  BY <1>1
<1> QED BY <1>2 DEF Contents

\* The write id grows and the file is cut to nothing, as by ftruncate.
LEMMA TruncatedRight ==
  ASSUME IInv, CInv, UNCHANGED <<srv, rel, upl>>, of # NoFile, NEW t, t = Entry, t \in DOMAIN tab.rows,
         Stage(proc) = "none", Stage(proc') = "none", Single(proc'), Busy(proc'),
         \A x \in Procs : proc'[x].pc = "flushed" => proc'[x] = proc[x],
         NEW o, Alike(o, of), IsOpen(o), OpenTyped(o), NEW released \in BOOLEAN,
         NEW s, s = psync_fs_ftruncate_of_locked([o |-> psync_fs_inc_writeid_locked(o), f |-> file[t]], 0),
         of' = s.o, file' = [file EXCEPT ![t] = s.f],
         IF released
         THEN /\ big' = IF big.current = t THEN [big EXCEPT !.stop = TRUE] ELSE big
              /\ tab' = [tab EXCEPT !.rows = WithStatus(@, t, 1)]
         ELSE UNCHANGED <<tab, big>>,
         ghost'.last = <<>>, ghost'.rows = ghost.rows, ghost'.versions = ghost.versions \cup {ghost'.last}
  PROVE  CInv'
<1> DEFINE i == psync_fs_inc_writeid_locked(o)
           f == file[t]
           c == [op |-> "size", at |-> 0, v |-> 0]
           a == s.o
           g == s.f
           rows == IF released THEN WithStatus(tab.rows, t, 1) ELSE tab.rows
<1>1. s = Applied([o |-> i, f |-> f], c) /\ c \in Operations /\ c.op = "size" /\ c.at = 0
  BY DEF Applied, Operations
<1>2. After(c, ghost.last) = <<>>
  <2>1. After(c, ghost.last) = Resize(ghost.last, 0) /\ ghost.last \in Contents
    BY <1>1 DEF After, CInv, Versions
  <2>2. Resize(ghost.last, 0) \in Contents /\ Len(Resize(ghost.last, 0)) = 0
    BY <2>1, Resized
  <2> QED BY <2>1, <2>2 DEF Contents
<1> HIDE DEF c
<1>3. /\ IsOpen(i) /\ i # NoFile /\ OpenTyped(i) /\ i.writeid = o.writeid + 1 /\ i.id = o.id
      /\ i.newfile = o.newfile /\ i.modified = o.modified /\ i.hash = o.hash
      /\ i.initial = o.initial /\ i.size = o.size /\ i.local = o.local
  BY WriteIdGrows
<1> HIDE DEF i
<1>4. Sized(i)
  BY <1>3 DEF Sized, IsOpen, OpenTyped
<1>5. of.id = t /\ t # 0
  BY TabIs DEF Naming
<1>6. t \in DOMAIN file /\ Serves(i, f, EntryRow, ghost.last)
  BY <1>3, <1>4, <1>5, OpenServes DEF Alike
<1> HIDE DEF f
<1>7. Served(s, i, EntryRow, After(c, ghost.last))
  BY <1>1, <1>6, AppliedRight
<1>8. Leaves(s, i)
  BY <1>1, <1>3, AppliedLeaves DEF IsOpen
<1>9. Serves(a, g, EntryRow, <<>>) /\ Keeps(a, i) /\ Same(a, i)
  BY <1>2, <1>7, <1>8 DEF Served, Leaves
<1> HIDE DEF a, g
<1>10. IsOpen(a) /\ a # NoFile /\ OpenTyped(a) /\ a.writeid = i.writeid /\ a.id = i.id
  BY <1>3, <1>9, WrittenTyped DEF Serves
<1>11. /\ DOMAIN rows = DOMAIN tab.rows /\ RowsTyped(rows) /\ RowsKept(rows, tab.rows, t)
       /\ rows[t].type = tab.rows[t].type /\ rows[t].base = tab.rows[t].base
       /\ rows[t].int1 = tab.rows[t].int1 /\ rows[t].status \in {1, tab.rows[t].status}
  <2>1. CASE released
    <3>1. rows = WithStatus(tab.rows, t, 1) /\ RowsFit(tab.rows, ghost.rows) /\ RowsTyped(tab.rows)
      BY <2>1, TabIs
    <3> HIDE DEF rows
    <3> QED BY <3>1, RowsMarked
  <2>2. CASE ~released
    BY <2>2, TabIs DEF RowsKept
  <2> QED BY <2>1, <2>2
<1>12. tab'.rows = rows /\ RowsAlone(tab', tab)
  <2>1. CASE released
    <3>1. tab' = [tab EXCEPT !.rows = rows]
      BY <2>1
    <3> HIDE DEF rows
    <3> QED BY <3>1, TabIs DEF TabFields, RowsAlone
  <2>2. CASE ~released
    BY <2>2 DEF RowsAlone
  <2> QED BY <2>1, <2>2
<1> HIDE DEF rows
<1>13. big' \in {big, [big EXCEPT !.stop = TRUE]}
  OBVIOUS
<1>14. of.modified /\ of.writeid \in Nat
  BY <1>5, TabIs DEF CInv, OpenShows, OpenTyped
<1>15. /\ a.writeid > of.writeid /\ a.writeid >= of.writeid /\ a.modified /\ a.newfile = of.newfile
       /\ a.hash = of.hash
  BY <1>3, <1>9, <1>10, <1>14 DEF Keeps, Alike
<1>16. Right(EntryRow, g, ghost'.last) /\ Matches(a, g) /\ DataFits(g) /\ ghost'.last \in Contents
  BY <1>9 DEF Serves
<1>17. of' = a /\ file' = [file EXCEPT ![t] = g] /\ of'.id = t
  BY <1>3, <1>5, <1>10 DEF a, g, Alike
<1>18. /\ TRUE \in BOOLEAN /\ OpenTyped(of') /\ of' # NoFile /\ of'.modified
       /\ of'.newfile = of.newfile /\ of'.hash = of.hash /\ of'.writeid >= of.writeid
       /\ of'.writeid > of.writeid /\ Matches(of', g) /\ Stage(proc) \in {"none", "fill"}
       /\ UNCHANGED <<rel, srv, upl>>
  BY <1>10, <1>15, <1>16, <1>17
<1> QED BY ZenonT(60), <1>5, <1>6, <1>10, <1>11, <1>12, <1>13, <1>15, <1>16, <1>17, <1>18, WriteRight

\* A file that waits to be uploaded is opened, and maybe emptied.
LEMMA OpenTaskRight ==
  ASSUME IInv, CInv, ~Damaged', NEW p \in Procs, Call(p).op \in {"open", "trunc"},
         Entry \in DOMAIN tab.rows, OpenTask(p, Entry), UNCHANGED <<srv, rel, upl>>,
         Stage(proc) = "none", Stage(proc') = "none", Single(proc'), Busy(proc'),
         \A x \in Procs : proc'[x].pc = "flushed" => proc'[x] = proc[x]
  PROVE  CInv'
<1> DEFINE t == Entry
           c == Call(p)
           trunc == c.op = "trunc"
           row == tab.rows[t]
           empty == [d |-> <<>>, i |-> {}]
           f == IF trunc THEN empty ELSE DataOf(t)
           loses == trunc /\ of = NoFile /\ f # DataOf(t) /\ InFlight(t)
           flags == (IF loses THEN {"truncated"} ELSE {}) \cup (IF Forgets(t) THEN {"forgotten"} ELSE {})
           g == IF trunc THEN Expected(c) ELSE ghost
           released == row.status # 1
           o == [OpenFile(t) EXCEPT !.released = released]
<1>1. ghost' = Noting(g, flags)
  BY DEF OpenTask
<1>2. /\ DOMAIN g = GhostFields /\ g.known = ghost.known /\ g.rows = ghost.rows
      /\ trunc => g.last = <<>> /\ g.versions = ghost.versions \cup {g.last}
      /\ ~trunc => g = ghost
  <2>1. CASE trunc
    <3> HIDE DEF c
    <3>1. g = Expected(c) /\ c.op \in {"write", "size", "trunc"} /\ After(c, ghost.last) = <<>>
      BY <2>1 DEF After
    <3> HIDE DEF g
    <3> QED BY <2>1, <3>1, ExpectedIs
  <2>2. CASE ~trunc
    BY <2>2 DEF IInv, TabFits
  <2> QED BY <2>1, <2>2
<1> HIDE DEF g
<1>3. ~loses
  <2> SUFFICES ASSUME loses PROVE FALSE
    OBVIOUS
  <2>1. "truncated" \in flags
    OBVIOUS
  <2> HIDE DEF flags
  <2>2. flags \cap Damages = {}
    BY <1>1, <1>2, Undamaged
  <2> QED BY <2>1, <2>2 DEF Damages
<1> HIDE DEF flags
<1>4. /\ ghost'.last = g.last /\ ghost'.rows = ghost.rows /\ ghost'.versions = g.versions
  BY <1>1, <1>2 DEF Noting, GhostFields
<1>5. /\ ghost.last \in Contents /\ ghost'.last \in Contents /\ ghost.last \in ghost.versions
      /\ ghost'.versions = ghost.versions \cup {ghost'.last}
      /\ trunc => ghost'.last = <<>>
      /\ ~trunc => ghost'.last = ghost.last
  <2>1. ghost.last \in Contents /\ ghost.last \in ghost.versions /\ <<>> \in Contents
    BY DEF CInv, Versions, Contents
  <2> QED BY <1>2, <1>4, <2>1
<1>6. /\ t \in Nat \ {0} /\ EntryRow # NoRow /\ EntryRow.type \in Types /\ EntryRow.base \in Contents
      /\ EntryRow.int1 \in Nat /\ EntryRow.type = row.type /\ EntryRow.base = row.base
      /\ EntryRow.int1 = row.int1 /\ row \in {row}
  <2>1. t \in Nat \ {0}
    BY EntryWriteId
  <2> QED BY <2>1, TabIs, RowView DEF EntryRow, RowsTyped
<1>7. CASE of = NoFile
  <2> DEFINE creat == row.type = "creat"
             zero == 0
             base == row.base
             w == row.int1
             made == psync_fs_create_file(t, creat, zero, base, w)
  <2>1. /\ o = [made EXCEPT !.released = released]
    BY <1>7 DEF OpenFile
  <2>2. /\ file' = Extended(file, t, f) /\ UNCHANGED <<tab, big>>
        /\ of' = [o EXCEPT !.size = Len(f.d), !.local = f.i,
                           !.initial = IF trunc \/ o.newfile THEN 0 ELSE Len(o.hash)]
    BY <1>7 DEF OpenTask
  <2>3. Makes(made, t, creat, zero, base, w)
    <3> DEFINE z == made
    <3>1. z = psync_fs_create_file(t, creat, zero, base, w) /\ t \in Nat
      BY <1>6
    <3> HIDE DEF z, t, creat, zero, base, w
    <3>2. Makes(z, t, creat, zero, base, w)
      BY <3>1, Created
    <3> QED BY <3>2 DEF z, t, creat, zero, base, w
  <2>4. /\ DataFits(f) /\ Len(f.d) \in Nat /\ f.i \subseteq Int
    <3>1. DataFits(empty)
      BY DEF DataFits, Contents
    <3>2. DataFits(DataOf(t))
      BY <3>1, TabIs DEF DataOf, FilesTyped
    <3> QED BY <3>1, <3>2 DEF DataFits, Contents
  <2>5. Right(EntryRow, f, ghost'.last)
    <3>1. CASE trunc
      BY <1>5, <1>6, <3>1, EmptiedRight
    <3>2. CASE ~trunc /\ t \in DOMAIN file
      <4>1. EntryData # NoData /\ EntryData = file[t] /\ f = file[t]
        BY <3>2, EntryHasData DEF DataOf
      <4>2. Written(EntryRow, EntryData, "none", ghost.last)
        BY DEF CInv
      <4> QED BY <1>5, <1>6, <3>2, <4>1, <4>2 DEF Written
    <3>3. CASE ~trunc /\ t \notin DOMAIN file
      <4>1. EntryData = NoData /\ f = empty
        BY <3>3 DEF EntryData, Data, DataOf
      <4>2. ghost.last = <<>>
        BY <1>6, <1>7, <4>1 DEF CInv, Filing
      <4> QED BY <1>5, <1>6, <3>3, <4>1, <4>2, EmptiedRight
    <3> QED BY <3>1, <3>2, <3>3
  <2>6. (EntryData # NoData => f = EntryData) \/ (~Sending(upl) /\ ~SendingLarge(big))
    <3>1. CASE f = DataOf(t)
      <4>1. EntryData # NoData => t \in DOMAIN file
        BY DEF EntryData, Data
      <4> QED BY <3>1, <4>1, EntryHasData DEF DataOf
    <3>2. CASE ~InFlight(t)
      <4>1. ~Sending(upl)
        BY <3>2, SmallIs DEF InFlight, Sending
      <4>2. ~SendingLarge(big)
        BY <3>2, LargeIs DEF InFlight, SendingLarge
      <4> QED BY <4>1, <4>2
    <3> QED BY <1>3, <1>7, <3>1, <3>2
  <2> DEFINE n == Len(f.d)
             i == f.i
             initial == IF trunc \/ o.newfile THEN 0 ELSE Len(o.hash)
  <2>7. initial \in Nat
    <3>1. o.hash = base /\ base \in Contents
      BY <1>6, <2>1, <2>3 DEF Makes, OfFields
    <3> QED BY <3>1 DEF Contents
  <2>8. of' = [o EXCEPT !.size = n, !.local = i, !.initial = initial]
    BY <2>2
  <2> HIDE DEF n, i, initial, f, made, released
  <2>9. /\ DOMAIN of' = OfFields /\ of'.id = t /\ of'.newfile = creat /\ of'.modified = TRUE
        /\ of'.hash = base /\ of'.writeid = w /\ of'.size = n /\ of'.local = i /\ of'.initial = initial
    BY <1>6, <2>1, <2>3, <2>8 DEF Makes, OfFields
  <2>10. of' # NoFile /\ OpenTyped(of') /\ Matches(of', f)
    <3>1. of' # NoFile
      BY <2>9 DEF NoFile, OfFields
    <3>2. n \in Nat /\ i \subseteq Int /\ creat \in BOOLEAN /\ TRUE \in BOOLEAN /\ base \in Contents /\ w \in Nat
      BY <1>6, <2>4 DEF n, i
    <3> QED BY <2>7, <2>9, <3>1, <3>2 DEF OpenTyped, Matches, n, i
  <2>11. /\ of'.modified /\ (of'.newfile <=> EntryRow.type = "creat") /\ of'.hash = EntryRow.base
         /\ of'.writeid = EntryRow.int1 /\ UNCHANGED <<tab, srv, upl, rel, big>>
    BY <1>6, <2>2, <2>9
  <2> HIDE DEF t
  <2>12. t = Entry /\ t \in DOMAIN tab.rows /\ file' = Extended(file, t, f) /\ of'.id = t
    BY <2>2, <2>9 DEF t
  <2> QED BY <1>4, <1>5, <1>7, <2>4, <2>5, <2>6, <2>10, <2>11, <2>12, OpenRowRight
<1>8. CASE of # NoFile
  <2>1. IsOpen(of) /\ of.ref \in Nat /\ OpenTyped(of)
    BY <1>8, SomeFileIsOpen, TabIs DEF IsOpen
  <2> DEFINE ref == of.ref + 1
             one == [of EXCEPT !.ref = ref]
  <2>2. o = [one EXCEPT !.released = released]
    BY <1>8 DEF OpenFile
  <2>3. released \in BOOLEAN /\ ref \in Nat
    BY <2>1
  <2>4. IsOpen(o) /\ Alike(o, of) /\ OpenTyped(o) /\ o.released = released
    <3> HIDE DEF ref, released
    <3>1. /\ DOMAIN o = OfFields /\ o.id = of.id /\ o.ref = ref /\ o.timer = of.timer /\ o.writeid = of.writeid
          /\ o.newfile = of.newfile /\ o.modified = of.modified /\ o.hash = of.hash
          /\ o.initial = of.initial /\ o.size = of.size /\ o.local = of.local /\ o.released = released
      BY <2>1, <2>2 DEF IsOpen, OfFields
    <3> HIDE DEF o
    <3>2. IsOpen(o) /\ o # NoFile
      BY <2>1, <2>3, <3>1, OpenIsSomeFile DEF IsOpen
    <3> QED BY <1>8, <2>1, <3>1, <3>2 DEF OpenTyped, Alike
  <2>5. CASE trunc /\ o.size > 0
    <3> DEFINE s == psync_fs_ftruncate_of_locked([o |-> psync_fs_inc_writeid_locked(o), f |-> file[t]], 0)
    <3>1. /\ of' = s.o /\ file' = [file EXCEPT ![t] = s.f]
          /\ IF released
             THEN /\ big' = IF big.current = t THEN [big EXCEPT !.stop = TRUE] ELSE big
                  /\ tab' = [tab EXCEPT !.rows = WithStatus(@, t, 1)]
             ELSE UNCHANGED <<tab, big>>
      BY <1>8, <2>4, <2>5 DEF OpenTask
    <3>2. /\ ghost'.last = <<>> /\ ghost'.rows = ghost.rows /\ ghost'.versions = ghost.versions \cup {ghost'.last}
      BY <1>4, <1>5, <2>5
    <3>3. t = Entry /\ s = psync_fs_ftruncate_of_locked([o |-> psync_fs_inc_writeid_locked(o), f |-> file[t]], 0)
          /\ t \in DOMAIN tab.rows /\ released \in BOOLEAN
      BY <2>3
    <3> HIDE DEF s, o, t, released
    <3> QED BY <1>8, <2>4, <3>1, <3>2, <3>3, TruncatedRight
  <2>6. CASE ~(trunc /\ o.size > 0)
    <3>1. of' = o /\ UNCHANGED <<file, tab, big>>
      BY <1>8, <2>6 DEF OpenTask
    <3>2. ghost'.last = ghost.last
      <4>1. CASE ~trunc
        BY <1>5, <4>1
      <4>2. CASE trunc
        <5>1. of.size = 0 /\ of.id = t
          BY <1>8, <2>1, <2>4, <2>6, <4>2, TabIs DEF Alike, OpenTyped, Naming
        <5>2. EntryData # NoData /\ Len(EntryData.d) = 0 /\ DataFits(EntryData)
          <6>1. EntryData # NoData /\ of.size = Len(EntryData.d)
            BY <1>6, <1>8, <5>1 DEF CInv, OpenShows
          <6> QED BY <5>1, <6>1, EntryHasData
        <5>3. Right(EntryRow, EntryData, ghost.last)
          BY <1>6, <5>2 DEF CInv, Written
        <5> QED BY <1>5, <1>6, <4>2, <5>2, <5>3, EmptyContent
      <4> QED BY <4>1, <4>2
    <3>3. ghost'.versions = ghost.versions
      BY <1>5, <3>2
    <3> HIDE DEF o
    <3> QED BY <1>4, <1>8, <2>4, <3>1, <3>2, <3>3, OpenAgainRight
  <2> QED BY <2>5, <2>6
<1> QED BY <1>7, <1>8

\* The server's file is opened with O_TRUNC: an empty one takes its place.
LEMMA RecreateRight ==
  ASSUME IInv, CInv, NEW p \in Procs, Call(p).op = "trunc", Entry = 0, Recreate(p),
         UNCHANGED <<srv, upl, rel>>, Stage(proc') = "none", Single(proc'), Busy(proc'),
         \A x \in Procs : proc'[x].pc = "flushed" => proc'[x] = proc[x]
  PROVE  CInv'
<1> DEFINE c == Call(p)
           x == Expected(c)
           t == NewId
           hash == <<>>
           row == NewRow("creat", hash)
           rows == Extended(tab.rows, t, row)
           empty == [d |-> <<>>, i |-> {}]
           f == Extended(file, t, empty)
           entries == <<t>>
           zero == 0
           yes == TRUE
           e == psync_fs_create_file(t, yes, zero, hash, zero)
           made == ghost.rows + 1
           g == [x EXCEPT !.rows = x.rows + 1]
<1>0. /\ of = NoFile /\ FreshId /\ tab' = psync_fstask_add_creat(hash) /\ of' = e /\ file' = f
      /\ ghost' = g /\ big' = big
  BY DEF Recreate
<1>1. /\ t \in Nat \ {0} /\ t \notin DOMAIN tab.rows /\ tab.entries = <<>> /\ t \notin DOMAIN file
  BY NewIdNew, TabIs, EntryIs DEF CInv
<1>2. row.type = "creat" /\ row.type \in Types /\ row.base = hash /\ row.status = 1 /\ row.int1 = 0
  BY DEF NewRow, Types
<1>3. hash \in Contents /\ Len(hash) = 0
  BY DEF Contents
<1>4. tab' = [tab EXCEPT !.rows = rows, !.entries = entries, !.lost = FALSE]
  BY <1>0, <1>1 DEF psync_fstask_add_creat
<1>5. /\ ghost'.last = hash /\ ghost'.rows = ghost.rows + 1 /\ ghost'.versions = ghost.versions \cup {hash}
  <2>1. After(c, ghost.last) = hash /\ c.op \in {"write", "size", "trunc"}
    BY DEF After
  <2> HIDE DEF c
  <2>2. /\ DOMAIN x = GhostFields /\ x.last = hash /\ x.rows = ghost.rows
        /\ x.versions = ghost.versions \cup {hash}
    BY <2>1, ExpectedIs
  <2> HIDE DEF x, hash
  <2> QED BY <1>0, <2>2 DEF GhostFields
<1> HIDE DEF row, g
<1>6. Makes(e, t, yes, zero, hash, zero)
  <2> DEFINE o == e
  <2>1. o = psync_fs_create_file(t, yes, zero, hash, zero) /\ t \in Nat
    BY <1>1
  <2> HIDE DEF o, t, yes, zero, hash
  <2>2. Makes(o, t, yes, zero, hash, zero)
    BY <2>1, Created
  <2> QED BY <2>2 DEF o
<1> HIDE DEF e
<1>7. /\ DOMAIN of' = OfFields /\ of'.id = t /\ of'.newfile = TRUE /\ of'.modified = TRUE /\ of'.hash = hash
      /\ of'.size = 0 /\ of'.initial = 0 /\ of'.local = {} /\ of'.writeid = 0
  BY <1>0, <1>1, <1>6 DEF Makes
<1>8. of' # NoFile /\ OpenTyped(of')
  <2>1. of' # NoFile
    BY <1>7 DEF NoFile, OfFields
  <2>2. of'.newfile \in BOOLEAN /\ of'.modified \in BOOLEAN
    BY <1>7
  <2>3. of'.hash \in Contents /\ of'.local \subseteq Int
    BY <1>3, <1>7
  <2>4. of'.size \in Nat /\ of'.initial \in Nat /\ of'.writeid \in Nat
    BY <1>7
  <2> QED BY <2>1, <2>2, <2>3, <2>4 DEF OpenTyped
<1>9. DataFits(empty) /\ Right(row, empty, hash)
  <2>1. row.type \in Types /\ row.base \in Contents
    BY <1>2, <1>3
  <2> QED BY <2>1, EmptiedRight
<1>10. /\ DOMAIN f = DOMAIN file \cup {t} /\ f[t] = empty /\ FilesTyped(f)
       /\ \A y \in DOMAIN file : f[y] = file[y]
  BY <1>1, <1>9, TabIs DEF Extended, FilesTyped
<1> HIDE DEF f, empty
<1> DEFINE q == Row(rows, t)
           o == of'
<1>11. Appears(row, rows, t, o, hash, f)
  <2>1. DOMAIN f \ {t} = DOMAIN file /\ \A y \in DOMAIN file : f[y] = file[y]
    BY <1>1, <1>10
  <2>2. o # NoFile /\ o.id = t /\ rows = Extended(tab.rows, t, row) /\ t = NewId
    BY <1>7, <1>8
  <2>3. row.base \in Contents /\ FreshId
    BY <1>0, <1>2, <1>3
  <2> HIDE DEF o, rows, t, hash
  <2> QED BY <1>2, <2>1, <2>2, <2>3, RowAppears
<1>12. /\ DOMAIN f \subseteq DOMAIN rows
       /\ DOMAIN rows = DOMAIN tab.rows \cup {t} /\ RowsTyped(rows) /\ Naming(t, rows, o, upl)
       /\ Entered(q, rows, f, upl, hash)
       /\ Handed(rows, f, tab.cache, tab.caching)
       /\ ~Sending(upl) /\ ~SendingLarge(big)
       /\ q # NoRow /\ q.type = row.type /\ q.base = row.base
       /\ q.status = 1 /\ q.int1 = 0
  BY <1>11 DEF Appears
<1>13. /\ tab'.rows = rows /\ tab'.entries = entries /\ tab'.lost = FALSE /\ tab'.mir = tab.mir
       /\ tab'.cache = tab.cache /\ tab'.caching = tab.caching /\ tab'.pages = tab.pages
  <2> HIDE DEF rows, entries
  <2> QED BY <1>4, TabIs DEF TabFields
<1>14. Entry' = t /\ OneName(tab')
  <2> HIDE DEF t
  <2>1. entries # <<>> /\ Head(entries) = t /\ entries = <<entries[1]>> /\ entries[1] = t
    BY DEF entries
  <2> QED BY <1>1, <1>13, <2>1 DEF Entry, OneName
<1> DEFINE data == Data(f, t)
<1>15. EntryRow' = q /\ EntryData' = data /\ data = empty /\ data # NoData
  <2>1. data = empty
    BY <1>10 DEF Data
  <2>2. empty # NoData
    BY <1>9 DEF DataFits, NoData
  <2> QED BY <1>0, <1>13, <1>14, <2>1, <2>2 DEF EntryRow, EntryData
<1>16. data.d = <<>> /\ data.i = {} /\ Len(data.d) = 0
  BY <1>15 DEF empty
<1> HIDE DEF rows, t, q, data, entries
<1>17. Typed'
  BY <1>0, <1>8, <1>10, <1>12, <1>13, TabIs DEF Typed
<1>18. Filing(q, data, of', "none", hash, tab.mir, srv.now)
  BY <1>12, <1>15 DEF Filing
<1>19. OpenShows(q, data, of', "none", hash)
  BY <1>1, <1>2, <1>7, <1>12, <1>15, <1>16 DEF OpenShows
<1>20. Written(q, data, "none", hash)
  <2>1. Right(q, data, hash) <=> Right(row, empty, hash)
    BY <1>12, <1>15 DEF Right
  <2> QED BY <1>9, <2>1 DEF Written
<1>21. rel = <<>> /\ \A y \in Procs : proc'[y].pc # "flushed"
  BY <1>0, NobodyHas
<1>22. Numbered(of', "none", proc', rel', ghost'.rows)
  BY <1>21 DEF Numbered
<1>23. Settles(q, of', proc', rel', ghost'.rows)
  BY <1>7, <1>12 DEF Settles
<1>24. /\ Small(t, q, data, of', "none", upl, srv.now)
       /\ LargeOne(t, q, data, of', "none", upl, big, srv.now)
  BY <1>12 DEF Small, LargeOne
<1>25. TruePages(tab'.pages) /\ Versions(ghost', srv'.saved) /\ ghost'.last = hash
  <2>1. TruePages(tab.pages) /\ Versions(ghost, srv.saved)
    BY DEF CInv
  <2> QED BY <1>3, <1>5, <1>13, <2>1 DEF Versions
<1> HIDE DEF hash
<1> QED BY <1>0, <1>12, <1>13, <1>14, <1>15, <1>17, <1>18, <1>19, <1>20, <1>22, <1>23, <1>24, <1>25
        DEF CInv

LEMMA EverythingStays ==
  ASSUME CInv, UNCHANGED <<proc, of, file, tab, srv, rel, upl, big, ghost>>
  PROVE  CInv'
<1>1. Entry' = Entry
  BY DEF Entry
<1>2. EntryRow' = EntryRow /\ EntryData' = EntryData
  BY <1>1 DEF EntryRow, EntryData
<1>3. Typed'
  BY DEF CInv, Typed
<1> QED BY <1>1, <1>2, <1>3 DEF CInv

\* psync_fs_open.
LEMMA OpenRight ==
  ASSUME IInv, CInv, ~Damaged', NEW p \in Procs, Open(p)
  PROVE  CInv'
<1>0. /\ proc[p].pc = "idle" /\ ~Locked /\ Call(p).op \in {"open", "trunc"} /\ UNCHANGED <<srv, rel, upl>>
  BY DEF Open, Idle
<1>1. CASE Entry # 0 /\ (tab.lost \/ Entry \notin DOMAIN tab.rows)
  <2>1. UNCHANGED <<proc, of, file, tab, big, ghost>>
    BY <1>1 DEF Open
  <2> QED BY <1>0, <2>1, EverythingStays
<1>2. CASE ~(Entry # 0 /\ (tab.lost \/ Entry \notin DOMAIN tab.rows))
  <2> DEFINE c == [proc[p] EXCEPT !.open = TRUE]
  <2>1. proc' = [proc EXCEPT ![p] = c] /\ (of = NoFile \/ of.id = Entry)
    BY <1>2 DEF Open
  <2>2. c = [proc[p] EXCEPT !.open = TRUE]
    OBVIOUS
  <2> HIDE DEF c
  <2>3. /\ Stage(proc) = "none" /\ Stage(proc') = "none" /\ Single(proc') /\ Busy(proc')
        /\ \A x \in Procs : proc'[x].pc = "flushed" => proc'[x] = proc[x]
    BY <1>0, <2>1, <2>2, OpensRight
  <2>4. CASE Entry # 0
    <3>1. OpenTask(p, Entry) /\ Entry \in DOMAIN tab.rows
      BY <1>2, <2>4 DEF Open
    <3> QED BY <1>0, <2>3, <3>1, OpenTaskRight
  <2>5. CASE Entry = 0 /\ Call(p).op = "trunc"
    <3>1. Recreate(p)
      BY <1>2, <2>5 DEF Open
    <3> QED BY <1>0, <2>3, <2>5, <3>1, RecreateRight
  <2>6. CASE Entry = 0 /\ Call(p).op # "trunc"
    <3>1. OpenServer
      BY <1>2, <2>6 DEF Open
    <3>2. UNCHANGED <<srv, upl, rel>> /\ (of = NoFile \/ of.id = 0)
      BY <1>0, <2>1, <2>6
    <3> QED BY <2>3, <2>6, <3>1, <3>2, OpenServerRight
  <2> QED BY <2>4, <2>5, <2>6
<1> QED BY <1>1, <1>2

----------------------------------------------------------------------------
(* The rest of the calls.                                                  *)

\* The data file of a new row is created.
LEMMA CreateFilesRight ==
  ASSUME IInv, CInv, NEW p \in Procs, CreateFiles(p)
  PROVE  CInv'
<1> DEFINE t == of.id
           k == [proc[p] EXCEPT !.pc = "fill"]
           f == DataOf(t)
           g == Extended(file, t, f)
<1>0. /\ proc[p].pc = "create" /\ proc' = [proc EXCEPT ![p] = k] /\ file' = g
      /\ UNCHANGED <<of, tab, srv, rel, upl, big, ghost>>
  BY DEF CreateFiles
<1>1. /\ proc \in [Procs -> ProcStates] /\ proc[p] \in ProcStates /\ proc[p].open /\ Single(proc)
  BY <1>0, OnlyOpenCalls DEF IInv, CInv
<1>2. k.pc = "fill" /\ k.open
  BY <1>1 DEF ProcStates
<1> HIDE DEF k
<1>3. proc'[p] = k /\ \A x \in Procs : x # p => proc'[x] = proc[x]
  BY <1>0, <1>1, OthersStay
<1>4. \A x \in Procs : x # p => proc[x].pc \notin {"create", "fill"}
  BY <1>0, <1>1 DEF Single
<1>5. Stage(proc) = "create" /\ Stage(proc') = "fill" /\ Single(proc') /\ Busy(proc')
  BY <1>0, <1>2, <1>3, <1>4 DEF Stage, Single, Busy
<1>6. of # NoFile /\ t # 0
  BY <1>5, HeldHasFile
<1>7. t = Entry /\ t \in DOMAIN tab.rows /\ t \in Live(tab.rows) /\ EntryRow # NoRow
  BY <1>6, TabIs, RowView DEF Naming, EntryRow
<1>8. EntryData = NoData /\ t \notin DOMAIN file
  <2>1. EntryData = NoData
    BY <1>5 DEF CInv, Filing
  <2> QED BY <1>7, <2>1, TabIs, DataView DEF EntryData
<1>9. f = [d |-> <<>>, i |-> {}] /\ f.d = <<>> /\ f.i = {} /\ DataFits(f)
  BY <1>8 DEF DataOf, DataFits, Contents
<1> HIDE DEF f
<1>10. /\ DOMAIN g = DOMAIN file \cup {t} /\ g[t] = f /\ FilesTyped(g)
       /\ \A x \in DOMAIN file : g[x] = file[x]
  BY <1>8, <1>9, TabIs DEF Extended, FilesTyped
<1> HIDE DEF g
<1>11. Entry' = Entry /\ EntryRow' = EntryRow
  BY <1>0, EntryKept DEF EntryRow
<1>12. EntryData' = f /\ f # NoData
  BY <1>0, <1>7, <1>9, <1>10, <1>11 DEF EntryData, Data, NoData
<1>13. Typed' /\ OneName(tab') /\ DOMAIN file' \subseteq DOMAIN tab'.rows
  BY <1>0, <1>7, <1>10, TabIs DEF CInv, Typed, OneName
<1>14. Naming(Entry, tab.rows, of, upl)
  BY TabIs
<1>15. Filing(EntryRow, f, of, "fill", ghost.last, tab.mir, srv.now)
  BY <1>7, <1>9, <1>12 DEF Filing
<1>16. Entered(EntryRow, tab.rows, g, upl, ghost.last)
  <2>1. Entered(EntryRow, tab.rows, file, upl, ghost.last)
    BY DEF CInv
  <2>2. upl.pc \in {"cache", "del"} => upl.t # t
    BY <1>7, TabIs DEF Naming, Entering
  <2> QED BY <1>10, <2>1, <2>2 DEF Entered
<1>17. Handed(tab.rows, g, tab.cache, tab.caching)
  <2>1. Handed(tab.rows, file, tab.cache, tab.caching)
    BY DEF CInv
  <2>2. tab.caching = "del" => 1 \in DOMAIN tab.cache
    <3> DEFINE S == [t : Nat, type : Types, hash : Contents, old : Contents]
    <3>1. tab.cache \in Seq(S)
      BY TabIs DEF CacheTyped
    <3> HIDE DEF S
    <3>2. tab.cache # <<>> => 1 \in DOMAIN tab.cache
      BY <3>1
    <3> QED BY <2>1, <3>2 DEF Handed
  <2> QED BY <1>7, <1>10, <2>1, <2>2 DEF Handed
<1>18. OpenShows(EntryRow, f, of, "fill", ghost.last)
  <2>1. OpenShows(EntryRow, EntryData, of, "create", ghost.last)
    BY <1>5 DEF CInv
  <2> QED BY <1>6, <2>1 DEF OpenShows
<1>19. Written(EntryRow, f, "fill", ghost.last)
  BY DEF Written
<1>20. Numbered(of, "fill", proc', rel, ghost.rows)
  <2>1. Numbered(of, "create", proc, rel, ghost.rows)
    BY <1>5 DEF CInv
  <2>2. ASSUME NEW w, NEW n, Fresh(w, n, of, "create", ghost.rows)
        PROVE  Fresh(w, n, of, "fill", ghost.rows)
    BY <2>2 DEF Fresh
  <2>3. \A x \in Procs : proc'[x].pc = "flushed" => proc'[x] = proc[x]
    BY <1>2, <1>3
  <2> QED BY <2>1, <2>2, <2>3 DEF Numbered
<1>21. Settles(EntryRow, of, proc', rel, ghost.rows)
  BY <1>5 DEF CInv, Settles
<1>22. ~Sending(upl) /\ ~SendingLarge(big)
  BY <1>5 DEF CInv, Small, LargeOne
<1>23. /\ Small(Entry, EntryRow, f, of, "fill", upl, srv.now)
       /\ LargeOne(Entry, EntryRow, f, of, "fill", upl, big, srv.now)
  BY <1>22 DEF Small, LargeOne
<1>24. TruePages(tab.pages) /\ Versions(ghost, srv.saved)
  BY DEF CInv
<1> HIDE DEF t
<1> QED BY <1>0, <1>5, <1>11, <1>12, <1>13, <1>14, <1>15, <1>16, <1>17, <1>18, <1>19, <1>20, <1>21, <1>23, <1>24
        DEF CInv

LEMMA CallsRight ==
  ASSUME IInv, IInv', CInv, ~Damaged', NEW p \in Procs, Calls(p)
  PROVE  CInv'
<1>1. CASE Change(p)
  <2>1. CASE of.modified \/ (Call(p).op = "size" /\ of.size = Call(p).at)
    BY <1>1, <2>1, ChangeRight
  <2>2. CASE ~of.modified /\ ~(Call(p).op = "size" /\ of.size = Call(p).at)
    <3>1. /\ proc[p].open /\ proc[p].pc = "idle" /\ ~Locked /\ UNCHANGED <<srv, rel, upl>>
          /\ psync_fs_reopen_file_for_writing(p)
      BY <1>1, <2>2 DEF Change, Idle
    <3> QED BY <2>2, <3>1, ReopenRight
  <2> QED BY <2>1, <2>2
<1> QED BY <1>1, OpenRight, CreateFilesRight, FillRight, FlushRight, FlushedRight, CloseRight DEF Calls

----------------------------------------------------------------------------
(* The program is killed and starts again.                                 *)

\* The overlay that is made of no row, or of one.
LEMMA EntriesOfOne ==
  ASSUME NEW rows, NEW e, Live(rows) \in {{}, {e}}
  PROVE  EntriesOf(rows) = IF Live(rows) = {} THEN <<>> ELSE <<e>>
<1> DEFINE L == Live(rows)
           n == Cardinality(L)
           good(s) == s \in [1..n -> L] /\ \A i, j \in DOMAIN s : i < j => s[i] < s[j]
<1>1. CASE L = {}
  <2>1. n = 0
    BY <1>1, FS_EmptySet
  <2>2. \A s : good(s) <=> s = <<>>
    <3>1. [1..0 -> {}] = {<<>>}
      <4>1. ASSUME NEW x \in [1..0 -> {}] PROVE x = <<>>
        <5>1. x \in Seq({}) /\ Len(x) = 0
          OBVIOUS
        <5> QED BY <5>1
      <4>2. <<>> \in [1..0 -> {}]
        OBVIOUS
      <4> QED BY <4>1, <4>2
    <3> QED BY <1>1, <2>1, <3>1
  <2> QED BY <1>1, <2>2 DEF EntriesOf
<1>2. CASE L = {e}
  <2>1. n = 1
    BY <1>2, FS_Singleton
  <2>2. ASSUME NEW s PROVE good(s) <=> s = <<e>>
    <3>1. [1..1 -> {e}] = {<<e>>}
      <4>1. ASSUME NEW x \in [1..1 -> {e}] PROVE x = <<e>>
        OBVIOUS
      <4>2. <<e>> \in [1..1 -> {e}]
        OBVIOUS
      <4> QED BY <4>1, <4>2
    <3>2. \A i, j \in DOMAIN <<e>> : ~(i < j)
      OBVIOUS
    <3> QED BY <1>2, <2>1, <3>1, <3>2
  <2>3. L # {}
    BY <1>2
  <2> QED BY <2>2, <2>3 DEF EntriesOf
<1> QED BY <1>1, <1>2

\* Nothing runs after a restart; the overlay has the row that was left, if any.
LEMMA RestartLeaves ==
  ASSUME IInv, CInv, of' = NoFile, rel' = <<>>, file' = file, big' = NoUpload,
         upl' = [NoBatch EXCEPT !.pc = "start"], srv' = [srv EXCEPT !.diff = <<>>],
         proc' = [p \in Procs |-> [pc |-> "idle", w |-> 0, n |-> 0, open |-> FALSE]],
         ghost'.last = ghost.last, ghost'.rows = ghost.rows, ghost'.versions = ghost.versions,
         NEW rows, tab'.rows = rows, tab'.mir = tab.mir, tab'.cache = tab.cache, tab'.caching = "idle",
         tab'.pages \in {tab.pages, {}}, OneName(tab'),
         DOMAIN rows = DOMAIN tab.rows, Live(rows) = Live(tab.rows), RowsTyped(rows),
         \A t \in DOMAIN rows : rows[t].status # 2, NEW e, Entry' = e,
         \/ /\ e = 0 /\ Live(rows) = {} /\ tab.mir = ghost.last /\ srv.now = ghost.last
         \/ /\ e \in Nat \ {0} /\ e \in DOMAIN rows /\ Live(rows) = {e}
            /\ e \in DOMAIN file => Right(Row(rows, e), file[e], ghost.last)
            /\ e \notin DOMAIN file =>
                 /\ Row(rows, e).type = "creat" /\ ghost.last = <<>>
                 /\ tab.mir = ghost.last /\ srv.now = ghost.last
  PROVE  CInv'
<1> DEFINE row == Row(rows, e)
           data == Data(file, e)
           last == ghost.last
<1>1. EntryRow' = row /\ EntryData' = data
  BY DEF EntryRow, EntryData
<1>2. /\ row # NoRow <=> e \in DOMAIN rows
      /\ data # NoData <=> e \in DOMAIN file
      /\ e \in DOMAIN file => data = file[e]
      /\ DOMAIN file \subseteq DOMAIN rows /\ 0 \notin DOMAIN rows
  BY RowView, DataView, TabIs
<1> HIDE DEF row, data
<1>3. \A p \in Procs : proc'[p].pc = "idle"
  OBVIOUS
<1>4. Stage(proc') = "none" /\ Single(proc')
  BY <1>3 DEF Stage, Single
<1>5. upl'.pc = "start" /\ SmallTyped(upl') /\ big'.pc = "off" /\ LargeTyped(big')
  BY DEF NoBatch, NoUpload, SmallTyped, LargeTyped, Contents, Types
<1>6. ~Sending(upl') /\ ~SendingLarge(big') /\ Entering(upl') = {}
  BY <1>5 DEF Sending, SendingLarge, Entering
<1>7. SrvTyped(srv') /\ srv'.now = srv.now /\ srv'.saved = srv.saved
  BY TabIs DEF SrvTyped
<1>8. Typed'
  BY <1>5, <1>7, TabIs DEF Typed, OpenTyped
<1>9. Naming(e, rows, of', upl')
  BY <1>2, <1>6 DEF Naming
<1>10. Filing(row, data, of', "none", last, tab.mir, srv.now)
  BY <1>2 DEF Filing, row
<1>11. Entered(row, rows, file, upl', last)
  BY <1>5 DEF Entered
<1>12. Handed(rows, file, tab.cache, tab'.caching)
  BY DEF CInv, Handed
<1>13. OpenShows(row, data, of', "none", last)
  BY DEF OpenShows
<1>14. Written(row, data, "none", last)
  BY <1>2 DEF Written, row
<1>15. Numbered(of', "none", proc', rel', ghost.rows)
  BY <1>3 DEF Numbered
<1>16. Settles(row, of', proc', rel', ghost.rows)
  BY DEF Settles
<1>17. /\ Small(e, row, data, of', "none", upl', srv.now)
       /\ LargeOne(e, row, data, of', "none", upl', big', srv.now)
  BY <1>6 DEF Small, LargeOne
<1>18. TruePages(tab'.pages) /\ Versions(ghost', srv'.saved)
  BY <1>7 DEF CInv, TruePages, Versions
<1> QED BY <1>1, <1>2, <1>4, <1>7, <1>8, <1>9, <1>10, <1>11, <1>12, <1>13, <1>14, <1>15, <1>16, <1>17, <1>18
        DEF CInv

\* At most one row is to be uploaded; its data file is what was written last.
LEMMA RestartRight ==
  ASSUME IInv, CInv, ~Damaged', Restart
  PROVE  CInv'
<1> DEFINE rows == [t \in DOMAIN tab.rows |->
                      [tab.rows[t] EXCEPT !.status = IF @ \in {1, 2} THEN 0 ELSE @]]
           entries == EntriesOf(rows)
           again == upl.pc \in {"cache", "del"} /\ upl.t \in DOMAIN rows
                    /\ (upl.t \notin DOMAIN file \/ Live(rows) # {upl.t})
           half == Locked /\ of.initial > 0
           flags(lost) == (IF lost THEN {"noname"} ELSE {}) \cup (IF again THEN {"again"} ELSE {}) \cup
                          (IF half THEN {"halfcopied"} ELSE {})
           live == Live(tab.rows)
           last == ghost.last
<1>1. PICK lost \in BOOLEAN, pages \in {tab.pages, {}} :
        /\ tab' = [tab EXCEPT !.rows = rows, !.lost = lost, !.pages = pages,
                              !.caching = "idle", !.entries = entries]
        /\ ghost' = Noting(ghost, flags(lost))
  BY DEF Restart
<1>2. /\ of' = NoFile /\ rel' = <<>> /\ file' = file /\ big' = NoUpload
      /\ upl' = [NoBatch EXCEPT !.pc = "start"] /\ srv' = [srv EXCEPT !.diff = <<>>]
      /\ proc' = [p \in Procs |-> [pc |-> "idle", w |-> 0, n |-> 0, open |-> FALSE]]
  BY DEF Restart
<1>3. ~lost /\ ~again /\ ~half
  <2> DEFINE all == flags(lost)
             g == ghost
  <2>1. ghost' = Noting(ghost, all) /\ DOMAIN g = GhostFields /\ g.known = ghost.known
    BY <1>1 DEF IInv, TabFits
  <2>2. (lost => "noname" \in all) /\ (again => "again" \in all) /\ (half => "halfcopied" \in all)
    OBVIOUS
  <2> HIDE DEF all, g, again, half
  <2>3. all \cap Damages = {}
    <3>1. ghost' = Noting(g, all)
      BY <2>1 DEF g
    <3> QED BY <2>1, <3>1, Undamaged
  <2> QED BY <2>2, <2>3 DEF Damages
<1>4. ghost'.last = last /\ ghost'.rows = ghost.rows /\ ghost'.versions = ghost.versions
  <2> DEFINE all == flags(lost)
  <2>1. ghost' = Noting(ghost, all)
    BY <1>1
  <2> HIDE DEF all
  <2> QED BY <2>1 DEF Noting, IInv, TabFits, GhostFields
<1> HIDE DEF flags
<1>5. /\ DOMAIN rows = DOMAIN tab.rows /\ Live(rows) = live /\ RowsTyped(rows)
      /\ \A t \in DOMAIN rows :
           /\ rows[t].type = tab.rows[t].type /\ rows[t].base = tab.rows[t].base
           /\ rows[t].int1 = tab.rows[t].int1 /\ rows[t].status # 2
           /\ tab.rows[t].status = 0 => rows[t].status = 0
  <2>1. RowsFit(tab.rows, ghost.rows) /\ RowsTyped(tab.rows)
    BY TabIs
  <2>2. ASSUME NEW t \in DOMAIN tab.rows
        PROVE  /\ rows[t].type = tab.rows[t].type /\ rows[t].base = tab.rows[t].base
               /\ rows[t].int1 = tab.rows[t].int1 /\ rows[t].status # 2
               /\ (rows[t].status = 3 <=> tab.rows[t].status = 3)
               /\ tab.rows[t].status = 0 => rows[t].status = 0
    <3> DEFINE status == IF tab.rows[t].status \in {1, 2} THEN 0 ELSE tab.rows[t].status
               r == tab.rows[t]
    <3>1. DOMAIN r = RowFields /\ rows[t] = [r EXCEPT !.status = status]
      BY <2>1 DEF RowsFit
    <3>2. status # 2 /\ (status = 3 <=> r.status = 3) /\ (r.status = 0 => status = 0)
      OBVIOUS
    <3> HIDE DEF status, rows
    <3> QED BY <3>1, <3>2 DEF RowFields
  <2>3. DOMAIN rows = DOMAIN tab.rows
    OBVIOUS
  <2> HIDE DEF rows
  <2> QED BY <2>1, <2>2, <2>3 DEF Live, RowsTyped
<1> HIDE DEF rows
<1>6. /\ tab'.rows = rows /\ tab'.entries = entries /\ tab'.lost = FALSE /\ tab'.mir = tab.mir
      /\ tab'.cache = tab.cache /\ tab'.caching = "idle" /\ tab'.pages \in {tab.pages, {}}
  <2> HIDE DEF entries
  <2> QED BY <1>1, <1>3, TabIs DEF TabFields
<1>7. /\ Naming(Entry, tab.rows, of, upl) /\ 0 \notin DOMAIN tab.rows
      /\ Entered(EntryRow, tab.rows, file, upl, last)
      /\ Filing(EntryRow, EntryData, of, Stage(proc), last, tab.mir, srv.now)
      /\ Written(EntryRow, EntryData, Stage(proc), last)
      /\ OpenShows(EntryRow, EntryData, of, Stage(proc), last)
      /\ last \in Contents
  BY TabIs DEF CInv, Versions
\* What a row that is left stands for.
<1> DEFINE Left(e) ==
      /\ e \in Nat \ {0} /\ e \in DOMAIN rows /\ live = {e}
      /\ e \in DOMAIN file => Right(Row(rows, e), file[e], last)
      /\ e \notin DOMAIN file => Row(rows, e).type = "creat" /\ last = <<>> /\ tab.mir = last /\ srv.now = last
<1>8. CASE live # {}
  <2>1. \E e : Left(e)
    <3>1. CASE Entering(upl) # {}
      <4>1. upl.pc \in {"cache", "del"} /\ upl.t \in DOMAIN tab.rows /\ tab.rows[upl.t].type = "creat"
        BY <1>7, <3>1 DEF Entering, Entered
      <4>2. upl.t \in DOMAIN file /\ live = {upl.t}
        BY <1>3, <1>5, <4>1
      <4>3. upl.pc = "cache" /\ file[upl.t].d = upl.data
        BY <1>7, <4>1, <4>2 DEF Entered
      <4>4. EntryRow = NoRow
        BY <1>7, <4>1, <4>2, RowView DEF Naming, Entering, EntryRow
      <4>5. upl.data = last
        BY <1>7, <4>1, <4>4 DEF Entered
      <4>6. DataFits(file[upl.t]) /\ RowsTyped(rows)
        BY <1>5, <4>2, TabIs DEF FilesTyped
      <4>7. Row(rows, upl.t).type = "creat" /\ Row(rows, upl.t).type \in Types /\ Row(rows, upl.t).base \in Contents
        BY <1>5, <4>1, <4>6, RowView DEF RowsTyped
      <4>8. Right(Row(rows, upl.t), file[upl.t], last)
        BY <1>7, <4>3, <4>5, <4>6, <4>7, RightIs
      <4>9. upl.t \in Nat \ {0}
        BY <1>7, <4>1, TabIs DEF SmallTyped
      <4> QED BY <1>5, <4>1, <4>2, <4>8, <4>9
    <3>2. CASE Entering(upl) = {}
      <4>1. live = {Entry} /\ Entry \in DOMAIN tab.rows
        BY <1>7, <1>8, <3>2 DEF Naming, Live
      <4>2. /\ EntryRow # NoRow /\ Entry \in Nat \ {0} /\ EntryRow.type \in Types /\ EntryRow.base \in Contents
        BY <4>1, EntryWriteId
      <4>3. Row(rows, Entry).type = EntryRow.type /\ Row(rows, Entry).base = EntryRow.base
        BY <1>5, <4>1, RowView DEF EntryRow
      <4>4. CASE Stage(proc) = "none"
        <5>1. ASSUME Entry \in DOMAIN file PROVE Right(Row(rows, Entry), file[Entry], last)
          <6>1. EntryData # NoData /\ EntryData = file[Entry]
            BY <5>1, EntryHasData
          <6>2. Right(EntryRow, file[Entry], last)
            BY <1>7, <4>2, <4>4, <6>1 DEF Written
          <6> QED BY <4>3, <6>2 DEF Right
        <5>2. ASSUME Entry \notin DOMAIN file
              PROVE  Row(rows, Entry).type = "creat" /\ last = <<>> /\ tab.mir = last /\ srv.now = last
          <6>1. EntryData = NoData
            BY <5>2 DEF EntryData, Data
          <6>2. EntryRow.type = "creat" /\ last = <<>> /\ tab.mir = last /\ srv.now = last
            BY <1>7, <4>2, <4>4, <6>1 DEF Filing
          <6> QED BY <4>3, <6>2
        <5> QED BY <1>5, <4>1, <4>2, <5>1, <5>2
      <4>5. CASE Stage(proc) # "none"
        <5>1. of # NoFile /\ of.id = Entry /\ Locked
          BY <1>7, <4>5, HeldHasFile, Unlocked DEF Naming
        <5>2. of.initial = Len(of.hash) /\ of.hash = last
          BY <1>7, <4>5, <5>1 DEF OpenShows
        <5>3. ~(Len(last) > 0) /\ Len(last) \in Nat
          BY <1>3, <1>7, <5>1, <5>2 DEF Contents
        <5>4. last = <<>>
          BY <1>7, <5>3 DEF Contents
        <5>5. EntryRow.type = "creat"
          <6>1. ~of.newfile => of.initial > 0
            BY <1>7, <4>5, <5>1 DEF OpenShows
          <6>2. of.newfile <=> EntryRow.type = "creat"
            BY <1>7, <4>2, <5>1 DEF OpenShows
          <6> QED BY <5>2, <5>3, <6>1, <6>2
        <5>6. CASE EntryData = NoData
          <6>1. Entry \notin DOMAIN file
            BY <5>6, TabIs, DataView DEF EntryData
          <6>2. tab.mir = last /\ srv.now = last
            BY <1>7, <5>6 DEF Filing
          <6> QED BY <1>5, <4>1, <4>2, <4>3, <5>4, <5>5, <6>1, <6>2
        <5>7. CASE EntryData # NoData
          <6>1. Entry \in DOMAIN file /\ EntryData = file[Entry] /\ DataFits(EntryData)
            BY <5>7, EntryHasData
          <6>2. EntryData.d = <<>>
            BY <1>7, <4>5, <5>7 DEF Filing, Stage
          <6>3. Right(Row(rows, Entry), file[Entry], last)
            BY <1>7, <4>2, <4>3, <5>4, <5>5, <6>1, <6>2, RightIs
          <6> QED BY <1>5, <4>1, <4>2, <6>1, <6>3
        <5> QED BY <5>6, <5>7
      <4> QED BY <4>4, <4>5
    <3> QED BY <3>1, <3>2
  <2>2. PICK e : Left(e)
    BY <2>1
  <2>3. entries = <<e>> /\ entries # <<>> /\ Head(entries) = e /\ entries[1] = e
    <3>1. entries = <<e>>
      <4>1. Live(rows) \in {{}, {e}} /\ Live(rows) # {}
        BY <1>5, <2>2
      <4> HIDE DEF live, last, again, half, Left
      <4>2. EntriesOf(rows) = IF Live(rows) = {} THEN <<>> ELSE <<e>>
        BY <4>1, EntriesOfOne
      <4> QED BY <4>1, <4>2
    <3> HIDE DEF entries
    <3> QED BY <3>1
  <2>4. Entry' = e
    BY <1>6, <2>3 DEF Entry
  <2>5. OneName(tab')
    BY <1>6, <2>2, <2>3 DEF OneName
  <2> QED BY <1>2, <1>4, <1>5, <1>6, <1>7, <2>2, <2>4, <2>5, RestartLeaves
<1>9. CASE live = {}
  <2>1. entries = <<>>
    BY <1>5, <1>9, EntriesOfOne
  <2>2. Entry' = 0 /\ OneName(tab')
    BY <1>6, <2>1 DEF Entry, OneName
  <2>3. tab.mir = last /\ srv.now = last
    <3>1. EntryRow = NoRow
      BY <1>7, <1>9, RowView DEF Naming, EntryRow
    <3> QED BY <1>7, <3>1 DEF Filing
  <2> QED BY <1>2, <1>4, <1>5, <1>6, <1>7, <1>9, <2>2, <2>3, RestartLeaves
<1> QED BY <1>8, <1>9

----------------------------------------------------------------------------
(* The whole program.                                                      *)

\* What was damaged stays so.
LEMMA NotingKnows ==
  ASSUME NEW g, DOMAIN g = GhostFields, NEW flags
  PROVE  g.known \subseteq Noting(g, flags).known
BY DEF Noting, GhostFields

LEMMA ExpectedKnows ==
  ASSUME DOMAIN ghost = GhostFields, NEW c
  PROVE  /\ DOMAIN Expected(c) = GhostFields /\ Expected(c).known = ghost.known
         /\ [Expected(c) EXCEPT !.rows = @ + 1].known = ghost.known
<1> DEFINE new == CASE c.op = "write" -> Put(ghost.last, c.at, c.v)
                    [] c.op = "size" -> Resize(ghost.last, c.at)
                    [] c.op = "trunc" -> <<>>
           g == Expected(c)
<1>1. g = [ghost EXCEPT !.last = new, !.versions = @ \cup {new}]
  BY DEF Expected
<1> HIDE DEF new, g
<1>2. DOMAIN g = GhostFields /\ g.known = ghost.known
  BY <1>1 DEF GhostFields
<1>3. [g EXCEPT !.rows = @ + 1].known = ghost.known
  BY <1>2 DEF GhostFields
<1> QED BY <1>2, <1>3 DEF g

LEMMA ReleaseKnows ==
  ASSUME DOMAIN ghost = GhostFields, NEW w, NEW n, Release(w, n)
  PROVE  ghost.known \subseteq ghost'.known
<1> DEFINE flags == {"otherrow"}
<1>1. ghost' = ghost \/ ghost' = Noting(ghost, flags)
  BY DEF Release
<1> HIDE DEF flags
<1> QED BY <1>1, NotingKnows

LEMMA CallsKnow ==
  ASSUME DOMAIN ghost = GhostFields, NEW p \in Procs, Calls(p)
  PROVE  ghost.known \subseteq ghost'.known
<1>1. CASE Open(p)
  <2>1. CASE ghost' = ghost
    BY <2>1
  <2>2. ASSUME NEW t, OpenTask(p, t) PROVE ghost.known \subseteq ghost'.known
    <3> DEFINE g == IF Call(p).op = "trunc" THEN Expected(Call(p)) ELSE ghost
               row == tab.rows[t]
               f == IF Call(p).op = "trunc" THEN [d |-> <<>>, i |-> {}] ELSE DataOf(t)
               loses == Call(p).op = "trunc" /\ of = NoFile /\ f # DataOf(t) /\ InFlight(t)
               flags == (IF loses THEN {"truncated"} ELSE {}) \cup (IF Forgets(t) THEN {"forgotten"} ELSE {})
    <3>1. ghost' = Noting(g, flags)
      BY <2>2 DEF OpenTask
    <3>2. DOMAIN g = GhostFields /\ g.known = ghost.known
      BY ExpectedKnows
    <3> HIDE DEF g, flags
    <3> QED BY <3>1, <3>2, NotingKnows
  <2>3. CASE Recreate(p)
    BY <2>3, ExpectedKnows DEF Recreate
  <2> QED BY <1>1, <2>1, <2>2, <2>3 DEF Open, OpenServer
<1>2. CASE Change(p)
  <2>1. CASE ghost' = ghost \/ ghost' = Expected(Call(p))
    BY <2>1, ExpectedKnows
  <2>2. CASE psync_fs_reopen_file_for_writing(p)
    <3> DEFINE g == [ghost EXCEPT !.rows = @ + 1]
               flags == IF of.local = {} THEN {} ELSE {"stalelocal"}
    <3>1. ghost' = g \/ ghost' = Noting(g, flags)
      BY <2>2 DEF psync_fs_reopen_file_for_writing
    <3>2. DOMAIN g = GhostFields /\ g.known = ghost.known
      BY DEF GhostFields
    <3> HIDE DEF g, flags
    <3> QED BY <3>1, <3>2, NotingKnows
  <2> QED BY <1>2, <2>1, <2>2 DEF Change
<1>3. CASE Fill(p)
  <2> DEFINE flags == {"uncopied"}
  <2>1. ghost' = Noting(ghost, flags) \/ ghost' = Expected(Call(p))
    BY <1>3 DEF Fill
  <2> HIDE DEF flags
  <2> QED BY <2>1, ExpectedKnows, NotingKnows
<1>4. CASE Flushed(p)
  BY <1>4, ReleaseKnows DEF Flushed
<1> QED BY <1>1, <1>2, <1>3, <1>4 DEF Calls, CreateFiles, Flush, Close

LEMMA KnownGrows ==
  ASSUME IInv, [Next]_vars
  PROVE  ghost.known \subseteq ghost'.known
<1>0. DOMAIN ghost = GhostFields
  BY DEF IInv, TabFits
<1>1. ASSUME NEW p \in Procs, Calls(p) PROVE ghost.known \subseteq ghost'.known
  BY <1>0, <1>1, CallsKnow
<1>2. CASE Releasing
  BY <1>0, <1>2, ReleaseKnows
     DEF Releasing, TimerDue, psync_fs_write_timer, psync_fs_upload_release_timer, ReleaseEnds
<1>3. CASE Uploading
  <2> DEFINE flags == {"skipped"}
  <2>1. ghost' = ghost \/ ghost' = Noting(ghost, flags)
    BY <1>3 DEF Uploading, clean_stuck_tasks, psync_fsupload_check_tasks,
         psync_send_task_creat, psync_send_task_creat_upload_small, SendSmall, LostSmall,
         psync_process_task_creat, CacheSmall, pr_del_task, psync_sent_task_creat_upload_large
  <2> HIDE DEF flags
  <2> QED BY <1>0, <2>1, NotingKnows
<1>4. CASE UploadingLarge
  <2> DEFINE flags == {"shrunk"}
  <2>1. ghost' = ghost \/ ghost' = Noting(ghost, flags)
    BY <1>4 DEF UploadingLarge, Pick, psync_get_local_file_checksum, large_upload_creat,
         LoadIndex, LoadSize, upload_modify, upload_modify_send_local,
         large_upload_save, LostLarge, save_meta
  <2> HIDE DEF flags
  <2> QED BY <1>0, <2>1, NotingKnows
<1>5. CASE Caching
  BY <1>5 DEF Caching, CacheUploaded, CacheEnds
<1>6. CASE DiffAsks \/ process_modifyfile
  <2> DEFINE flags == {"regressed"}
  <2>1. ghost' = ghost \/ ghost' = Noting(ghost, flags)
    BY <1>6 DEF DiffAsks, process_modifyfile
  <2> HIDE DEF flags
  <2> QED BY <1>0, <2>1, NotingKnows
<1>7. CASE Restart
  <2> DEFINE rows == [t \in DOMAIN tab.rows |->
                        [tab.rows[t] EXCEPT !.status = IF @ \in {1, 2} THEN 0 ELSE @]]
             again == upl.pc \in {"cache", "del"} /\ upl.t \in DOMAIN rows
                      /\ (upl.t \notin DOMAIN file \/ Live(rows) # {upl.t})
             flags(lost) == (IF lost THEN {"noname"} ELSE {}) \cup (IF again THEN {"again"} ELSE {}) \cup
                            (IF Locked /\ of.initial > 0 THEN {"halfcopied"} ELSE {})
  <2>1. \E lost : ghost' = Noting(ghost, flags(lost))
    BY <1>7 DEF Restart
  <2> HIDE DEF flags
  <2> QED BY <1>0, <2>1, NotingKnows
<1>8. CASE UNCHANGED vars
  BY <1>8 DEF vars
<1> QED BY <1>1, <1>2, <1>3, <1>4, <1>5, <1>6, <1>7, <1>8 DEF Next

LEMMA DamageStays ==
  ASSUME IInv, [Next]_vars, ~Damaged'
  PROVE  ~Damaged
BY KnownGrows DEF Damaged, Known

LEMMA InitRight ==
  ASSUME Init, IInv
  PROVE  CInv
<1> DEFINE c == user.content
<1>1. /\ proc = [p \in Procs |-> [pc |-> "idle", w |-> 0, n |-> 0, open |-> FALSE]]
      /\ of = NoFile /\ file = <<>> /\ rel = <<>> /\ upl = NoBatch /\ big = NoUpload
      /\ tab.rows = <<>> /\ tab.entries = <<>> /\ tab.lost = FALSE /\ tab.mir = c
      /\ tab.pages \subseteq PagesOf(c) /\ tab.cache = <<>> /\ tab.caching = "idle"
      /\ DOMAIN srv = {"now", "saved", "diff"} /\ srv.now = c /\ srv.saved = {}
      /\ ghost.last = c /\ ghost.versions = {c} /\ ghost.rows = 0
  <2> HIDE DEF c
  <2> QED BY DEF Init, c
<1>2. c \in Contents
  BY WorkloadsAssumption DEF Init, Contents
<1> HIDE DEF c
<1>3. Entry = 0 /\ EntryRow = NoRow /\ EntryData = NoData
  BY <1>1 DEF Entry, EntryRow, EntryData, Row, Data
<1>4. \A p \in Procs : proc[p].pc = "idle"
  BY <1>1
<1>5. Stage(proc) = "none" /\ Single(proc)
  BY <1>4 DEF Stage, Single
<1>6. SmallTyped(upl) /\ upl.pc = "idle" /\ LargeTyped(big) /\ big.pc = "off"
  BY <1>1 DEF SmallTyped, LargeTyped, NoBatch, NoUpload, Contents, Types
<1>7. /\ RowsTyped(tab.rows) /\ FilesTyped(file) /\ OpenTyped(of) /\ SrvTyped(srv)
  BY <1>1, <1>2 DEF RowsTyped, FilesTyped, OpenTyped, SrvTyped
<1>8. CacheTyped(tab.cache)
  BY <1>1 DEF CacheTyped
<1>9. Naming(Entry, tab.rows, of, upl) /\ OneName(tab) /\ DOMAIN file \subseteq DOMAIN tab.rows
  BY <1>1, <1>6 DEF Naming, Live, Entering, OneName
<1>10. Filing(EntryRow, EntryData, of, "none", ghost.last, tab.mir, srv.now)
  BY <1>1, <1>3 DEF Filing
<1>11. /\ Entered(EntryRow, tab.rows, file, upl, ghost.last)
       /\ Handed(tab.rows, file, tab.cache, tab.caching)
  BY <1>1, <1>6 DEF Entered, Handed
<1>12. /\ OpenShows(EntryRow, EntryData, of, "none", ghost.last)
       /\ Written(EntryRow, EntryData, "none", ghost.last)
       /\ Settles(EntryRow, of, proc, rel, ghost.rows)
  BY <1>1, <1>3 DEF OpenShows, Written, Settles
<1>13. Numbered(of, "none", proc, rel, ghost.rows)
  BY <1>1, <1>4 DEF Numbered
<1>14. /\ Small(Entry, EntryRow, EntryData, of, "none", upl, srv.now)
       /\ LargeOne(Entry, EntryRow, EntryData, of, "none", upl, big, srv.now)
  BY <1>6 DEF Small, LargeOne, Sending, SendingLarge
<1>15. TruePages(tab.pages)
  <2>1. TruePages(PagesOf(c))
    BY <1>2, PagesMade DEF PagesOf
  <2> QED BY <1>1, <2>1 DEF TruePages
<1>16. Versions(ghost, srv.saved)
  BY <1>1, <1>2 DEF Versions
<1> QED BY <1>5, <1>6, <1>7, <1>8, <1>9, <1>10, <1>11, <1>12, <1>13, <1>14, <1>15, <1>16 DEF CInv, Typed

LEMMA StepRight ==
  ASSUME IInv, IInv', ContentsRight, [Next]_vars
  PROVE  ContentsRight'
<1> SUFFICES ASSUME ~Damaged' PROVE CInv'
  BY DEF ContentsRight
<1>0. ~Damaged /\ CInv
  BY DamageStays DEF ContentsRight
<1>1. ASSUME NEW p \in Procs, Calls(p) PROVE CInv'
  BY <1>0, <1>1, CallsRight
<1>2. CASE Releasing
  BY <1>0, <1>2, TimerDueRight, WriteTimerRight, ReleaseTimerRight, ReleaseEndsRight DEF Releasing
<1>3. CASE Uploading
  BY <1>0, <1>3, CleanStuckRight, CheckTasksRight, SendCreatGivesUp, UploadSmallRight, SendSmallRight,
     LostSmallRight, ProcessCreatRight, CacheSmallRight, DelTaskRight, DeferRight DEF Uploading
<1>4. CASE UploadingLarge
  BY <1>0, <1>4, PickRight, ChecksumRight, LargeCreatRight, LoadIndexRight, LoadSizeRight,
     UploadModifyRight, SendLocalRight, LargeSaveRight, LostLargeRight, SaveMetaRight DEF UploadingLarge
<1>5. CASE Caching
  BY <1>0, <1>5, CacheUploadedRight, CacheEndsRight DEF Caching
<1>6. CASE DiffAsks \/ process_modifyfile
  BY <1>0, <1>6, DiffAsksRight, ModifyFileRight
<1>7. CASE Restart
  BY <1>0, <1>7, RestartRight
<1>8. CASE UNCHANGED vars
  BY <1>0, <1>8, EverythingStays DEF vars
<1> QED BY <1>1, <1>2, <1>3, <1>4, <1>5, <1>6, <1>7, <1>8 DEF Next

\* What is shown is what was written last.
LEMMA SeenIsLast ==
  ASSUME IInv, CInv, ~Locked
  PROVE  Seen = ghost.last
<1>0. /\ Stage(proc) = "none" /\ ghost.last \in Contents
      /\ OpenShows(EntryRow, EntryData, of, "none", ghost.last)
      /\ Written(EntryRow, EntryData, "none", ghost.last)
      /\ Filing(EntryRow, EntryData, of, "none", ghost.last, tab.mir, srv.now)
  BY Unlocked DEF CInv, Versions
<1>1. CASE of # NoFile /\ of.id = 0
  <2>1. /\ ~of.modified /\ ~of.newfile /\ of.hash = ghost.last /\ of.size = Len(of.hash)
    BY <1>0, <1>1 DEF OpenShows
  <2>2. Seen = [k \in 1..of.size |-> At(of.hash, k)]
    BY <1>1, <2>1 DEF Seen, Shown
  <2>3. [k \in 1..of.size |-> At(of.hash, k)] = of.hash
    <3> DEFINE h == of.hash
    <3>1. h \in Contents /\ of.size = Len(h)
      BY <1>0, <2>1
    <3> HIDE DEF h
    <3>2. [k \in 1..Len(h) |-> At(h, k)] = h
      BY <3>1 DEF At, Contents
    <3> QED BY <3>1, <3>2 DEF h
  <2> QED BY <2>1, <2>2, <2>3
<1>2. CASE of # NoFile /\ of.id # 0
  <2> DEFINE f == file[Entry]
  <2>1. /\ of.id = Entry /\ Entry \in DOMAIN tab.rows /\ EntryRow # NoRow
        /\ EntryRow.type \in Types /\ EntryRow.base \in Contents
    BY <1>2, TabIs, RowView DEF Naming, EntryRow, RowsTyped
  <2>2. /\ (of.newfile <=> EntryRow.type = "creat") /\ EntryRow.base = of.hash /\ of.modified
        /\ EntryData # NoData /\ of.size = Len(EntryData.d) /\ (~of.newfile => of.local = EntryData.i)
    BY <1>0, <1>2 DEF OpenShows
  <2>3. Entry \in DOMAIN file /\ EntryData = f /\ DataFits(f)
    BY <2>2, EntryHasData
  <2>4. Content(EntryRow.type, EntryRow.base, f) = ghost.last
    BY <1>0, <2>1, <2>2, <2>3 DEF Written, Right
  <2>5. Seen = Shown(of.newfile, of.modified, f, of.local, of.size, of.hash)
    BY <1>2, <2>1, <2>3 DEF Seen, DataOf
  <2>6. of.newfile \in BOOLEAN /\ of.modified = TRUE
    BY <1>2, <2>2, TabIs DEF OpenTyped
  <2>7. Seen = Content(EntryRow.type, EntryRow.base, f)
    <3>1. CASE of.newfile
      BY <2>2, <2>3, <2>5, <3>1 DEF Shown, Content
    <3>2. CASE ~of.newfile
      BY <2>2, <2>3, <2>5, <2>6, <3>2 DEF Shown, Content
    <3> QED BY <3>1, <3>2
  <2> QED BY <2>4, <2>7
<1>3. CASE of = NoFile
  <2>1. OneName(tab)
    BY DEF CInv
  <2>2. CASE Entry \in DOMAIN tab.rows /\ Entry \in DOMAIN file
    <3>1. EntryData = file[Entry] /\ EntryData # NoData
      BY <2>2, EntryHasData
    <3>2. EntryRow # NoRow /\ EntryRow.type = tab.rows[Entry].type /\ EntryRow.base = tab.rows[Entry].base
      BY <2>2, RowView DEF EntryRow
    <3>3. Content(EntryRow.type, EntryRow.base, file[Entry]) = ghost.last
      BY <1>0, <3>1, <3>2 DEF Written, Right
    <3> QED BY <1>3, <2>1, <2>2, <3>2, <3>3 DEF Seen, OneName, Content
  <2>3. CASE ~(Entry \in DOMAIN tab.rows /\ Entry \in DOMAIN file)
    <3>1. EntryData = NoData
      BY <2>3, TabIs, DataView DEF EntryData
    <3>2. tab.mir = ghost.last
      BY <1>0, <3>1 DEF Filing
    <3> QED BY <1>3, <2>1, <2>3, <3>2 DEF Seen, OneName
  <2> QED BY <2>2, <2>3
<1> QED BY <1>1, <1>2, <1>3

\* As long as nothing that damages a file has happened, the data file, its index,
\* the row, the open file, what an upload has read, the server's file, the folder
\* and the page cache agree on what was written last.
THEOREM ContentsAreRight == Spec => []ContentsRight
<1>1. Init /\ IInv => ContentsRight
  BY InitRight DEF ContentsRight
<1>2. IInv /\ IInv' /\ ContentsRight /\ [Next]_vars => ContentsRight'
  BY StepRight
<1> QED BY <1>1, <1>2, WriteInvariant, PTL DEF Spec

\* Whatever programs write and however calls, uploads, answers, late diffs and
\* restarts follow each other: psync_fs_read returns what was written last.
THEOREM ReadsAreRight == Spec => []ReadsLastWritten
<1>1. IInv /\ ContentsRight => ReadsLastWritten
  BY SeenIsLast DEF ContentsRight, ReadsLastWritten
<1> QED BY <1>1, ContentsAreRight, WriteInvariant, PTL

\* Whatever is written while it is read for an upload: the server saves nothing
\* that was not, at one time, the whole content of the file.
THEOREM ServerIsRight == Spec => []ServerHasVersions
<1>1. ContentsRight => ServerHasVersions
  BY DEF ContentsRight, CInv, Versions, ServerHasVersions
<1> QED BY <1>1, ContentsAreRight, PTL

\* Every page of the cache is one of the revision it is filed under.
THEOREM PagesAreRight == Spec => [](Damaged \/ PagesAreTrue)
<1>1. ContentsRight => Damaged \/ PagesAreTrue
  <2>1. ASSUME TruePages(tab.pages) PROVE PagesAreTrue
    BY <2>1 DEF TruePages, PagesAreTrue
  <2> QED BY <2>1 DEF ContentsRight, CInv
<1> QED BY <1>1, ContentsAreRight, PTL

----------------------------------------------------------------------------
(* What is uploaded in the end: as long as no release of a file has been   *)
(* lost in one of the ways that FsWrite names, a row that waits to be      *)
(* uploaded is always looked at by somebody, so what was written last is   *)
(* on the server when there is nothing left to do.                         *)

----------------------------------------------------------------------------
(* The arrows of rows.                                                     *)

LEMMA AfterLess ==
  ASSUME NEW rows, NEW made, RowsFit(rows, made), NEW t, NEW r, r = WithoutRow(rows, t)
  PROVE  \A i \in DOMAIN r : i \in DOMAIN rows /\ r[i].after = rows[i].after \ {t}
<1> DEFINE q == Without(rows, {t})
<1>1. DOMAIN q = DOMAIN rows \ {t} /\ \A i \in DOMAIN q : q[i] = rows[i] /\ DOMAIN q[i] = RowFields
  BY DEF Without, Restrict, RowsFit
<1> HIDE DEF q
<1>2. r = [i \in DOMAIN q |-> [q[i] EXCEPT !.after = @ \ {t}]]
  BY DEF WithoutRow, WithoutArrows, q
<1> QED BY <1>1, <1>2 DEF RowFields

LEMMA AfterMarked ==
  ASSUME NEW rows, NEW made, RowsFit(rows, made), NEW t, NEW s, NEW r, r = WithStatus(rows, t, s)
  PROVE  DOMAIN r = DOMAIN rows /\ \A i \in DOMAIN r : r[i].after = rows[i].after
BY DEF WithStatus, RowsFit, RowFields

\* The uploader's threads go on, with the rows as they are.
LEMMA ThreadsLook ==
  ASSUME UInv, UNCHANGED <<of, proc, rel>>, tab'.rows = tab.rows, tab'.entries = tab.entries,
         ghost'.rows = ghost.rows,
         Entering(upl') = Entering(upl) \/ (Entering(upl) = {} /\ Entering(upl') = {}),
         Looked(EntryRow, of, upl', big'), Sent(EntryRow, of, upl'), Deferred(EntryRow, big'),
         Runs(big')
  PROVE  UInv'
<1>1. Entry' = Entry
  BY EntryKept
<1>2. EntryRow' = EntryRow
  BY <1>1 DEF EntryRow
<1>3. Arrows(Entry', tab'.rows, upl')
  BY <1>1 DEF UInv, Arrows
<1> QED BY <1>1, <1>2, <1>3 DEF UInv

\* The open file and who will release its row change, and nothing else.
LEMMA FileLooks ==
  ASSUME UInv, UNCHANGED <<upl, big>>, tab'.rows = tab.rows, tab'.entries = tab.entries,
         EntryRow # NoRow => WriteId(of', EntryRow) = WriteId(of, EntryRow),
         Sending(upl) => EntryRow # NoRow,
         Knows(EntryRow, of'), Asked(of', proc', rel', ghost'.rows)
  PROVE  UInv'
<1>1. Entry' = Entry
  BY EntryKept
<1>2. EntryRow' = EntryRow
  BY <1>1 DEF EntryRow
<1>3. Arrows(Entry', tab'.rows, upl')
  BY <1>1 DEF UInv, Arrows
<1>4. Looked(EntryRow, of', upl, big) /\ Sent(EntryRow, of', upl)
  BY DEF UInv, Looked, Sent
<1> QED BY <1>2, <1>3, <1>4 DEF UInv

\* The entry has no row any more.
LEMMA NothingWaits ==
  ASSUME EntryRow' = NoRow, Entry' \notin DOMAIN tab'.rows, ~Sending(upl'),
         \A t \in Entering(upl') : tab'.rows[t].after = {},
         Asked(of', proc', rel', ghost'.rows), Runs(big')
  PROVE  UInv'
BY DEF UInv, Arrows, Looked, Sent, Deferred, Knows

----------------------------------------------------------------------------
(* The thread of small uploads.                                            *)

LEMMA AsleepOrNot ==
  /\ NoBatch.pc = "idle" /\ NoBatch.wake = TRUE /\ Entering(NoBatch) = {} /\ ~Sending(NoBatch)
  /\ \A w : LET b == [NoBatch EXCEPT !.wake = w]
            IN b.pc = "idle" /\ b.wake = w /\ Entering(b) = {} /\ ~Sending(b)
BY DEF NoBatch, Entering, Sending

LEMMA CheckTasksLooks ==
  ASSUME IInv, CInv, UInv, psync_fsupload_check_tasks, ~Known({"skipped"})'
  PROVE  UInv'
<1>0. /\ upl.pc = "idle" /\ upl.wake /\ UNCHANGED <<tab, file, of, proc, rel, srv, big>> /\ ghost'.rows = ghost.rows
  BY DEF psync_fsupload_check_tasks, IInv, TabFits, GhostFields, Noting
<1>1. /\ Naming(Entry, tab.rows, of, upl) /\ Live(tab.rows) \subseteq {Entry} /\ Entering(upl) = {}
      /\ LargeOne(Entry, EntryRow, EntryData, of, Stage(proc), upl, big, srv.now)
  BY <1>0 DEF CInv, Naming, Entering
<1>2. Deferred(EntryRow, big') /\ Runs(big') /\ Runs(big)
  BY <1>0 DEF UInv
<1>3. CASE Ready = {}
  <2>1. upl' = [NoBatch EXCEPT !.wake = FALSE]
    BY <1>3 DEF psync_fsupload_check_tasks
  <2>2. Entering(upl') = {} /\ ~Sending(upl')
    BY <2>1, AsleepOrNot
  <2>3. ASSUME EntryRow # NoRow, EntryRow.status = 0 PROVE SendingLarge(big)
    <3>1. Entry \in DOMAIN tab.rows /\ tab.rows[Entry].status = 0
      BY <2>3, RowView DEF EntryRow
    <3>2. tab.rows[Entry].after = {}
      BY <1>1, <3>1 DEF UInv, Arrows
    <3>3. Entry \in Waiting /\ Entry = big.current
      BY <1>3, <3>1, <3>2 DEF Ready, Waiting
    <3>4. big.pc # "pick"
      <4>1. ASSUME big.pc = "pick" PROVE FALSE
        <5>1. ghost' = Noting(ghost, {"skipped"})
          BY <3>3, <4>1 DEF psync_fsupload_check_tasks
        <5>2. "skipped" \in ghost'.known
          BY <5>1 DEF Noting, IInv, TabFits, GhostFields
        <5> QED BY <5>2 DEF Known
      <4> QED BY <4>1
    <3>5. Entry # 0
      BY <3>1, TabIs
    <3> QED BY <1>2, <3>3, <3>4, <3>5 DEF Runs
  <2>4. Looked(EntryRow, of, upl', big') /\ Sent(EntryRow, of, upl')
    BY <1>0, <2>2, <2>3 DEF Looked, Sent
  <2> QED BY <1>0, <1>1, <1>2, <2>2, <2>4, ThreadsLook
<1>4. CASE Ready # {}
  <2> DEFINE t == Min(Ready)
             row == tab.rows[t]
             pc == IF row.type = "creat" THEN "send" ELSE "defer"
             w == row.int1
  <2>1. upl' = [NoBatch EXCEPT !.wake = FALSE, !.t = t, !.w = w, !.pc = pc]
    BY <1>4 DEF psync_fsupload_check_tasks
  <2>2. t \in Ready
    <3>1. Ready \subseteq Nat
      BY DEF Ready, Waiting, IInv, TabFits, RowsFit
    <3> QED BY <1>4, <3>1, LeastOfIds
  <2>3. pc \in {"send", "defer"}
    OBVIOUS
  <2> HIDE DEF t
  <2>4. t \in DOMAIN tab.rows /\ row.status = 0 /\ t = Entry
    BY <1>1, <2>2 DEF Ready, Waiting, Live
  <2>5. EntryRow.status = 0 /\ EntryRow.int1 = w /\ w \in Nat
    BY <2>4, RowView, EntryWriteId DEF EntryRow
  <2> HIDE DEF w, pc
  <2>6. upl'.pc = pc /\ upl'.w = w
    BY <2>1 DEF NoBatch
  <2>7. Entering(upl') = {} /\ Looked(EntryRow, of, upl', big') /\ Sent(EntryRow, of, upl')
    BY <2>3, <2>5, <2>6 DEF Entering, Looked, Sent
  <2> QED BY <1>0, <1>1, <1>2, <2>7, ThreadsLook
<1> QED BY <1>3, <1>4

\* A small upload goes on, or gives its row back.
LEMMA SmallGoesOn ==
  ASSUME IInv, CInv, UInv, UNCHANGED <<tab, file, of, proc, rel, big, ghost>>, Sending(upl),
         Sending(upl'), upl'.w = upl.w, upl'.pc = "answer" => WriteId(of, EntryRow) = upl.w
  PROVE  UInv'
<1>1. Entering(upl) = {} /\ Entering(upl') = {}
  BY DEF Sending, Entering
<1>2. Looked(EntryRow, of, upl', big')
  BY DEF Looked, Sending
<1>3. Sent(EntryRow, of, upl')
  BY DEF UInv, Sent
<1>4. Deferred(EntryRow, big') /\ Runs(big')
  BY DEF UInv
<1> QED BY <1>1, <1>2, <1>3, <1>4, ThreadsLook

LEMMA SmallGivesUp ==
  ASSUME IInv, CInv, UInv, UNCHANGED <<tab, file, of, proc, rel, big, ghost>>, Entering(upl) = {},
         upl'.pc = "idle", EntryRow # NoRow /\ EntryRow.status = 0 => upl'.wake \/ SendingLarge(big)
  PROVE  UInv'
<1>1. Entering(upl') = {} /\ ~Sending(upl')
  BY DEF Sending, Entering
<1>2. Looked(EntryRow, of, upl', big')
  BY DEF Looked
<1>3. Sent(EntryRow, of, upl')
  BY <1>1 DEF Sent
<1>4. Deferred(EntryRow, big') /\ Runs(big')
  BY DEF UInv
<1> QED BY <1>1, <1>2, <1>3, <1>4, ThreadsLook

\* A row of the entry's without a data file is given up.
LEMMA GiveUpLooks ==
  ASSUME IInv, CInv, UInv, UNCHANGED <<of, proc, rel>>, ghost'.rows = ghost.rows, perm_fail_upload_task(Entry),
         Entering(upl) = {}, upl'.pc = "idle", Runs(big')
  PROVE  UInv'
<1> DEFINE t == Entry
           rows == WithoutRow(tab.rows, t)
<1>1. t \notin DOMAIN rows
  <2>1. RowsFit(tab.rows, ghost.rows) /\ RowsTyped(tab.rows) /\ rows = WithoutRow(tab.rows, t)
    BY TabIs
  <2> HIDE DEF rows, t
  <2>2. DOMAIN rows = DOMAIN tab.rows \ {t}
    BY <2>1, RowsLess
  <2> QED BY <2>2
<1>2. tab' = [tab EXCEPT !.rows = rows]
  BY DEF perm_fail_upload_task
<1> HIDE DEF rows
<1>3. tab'.entries = tab.entries /\ tab'.rows = rows
  BY <1>2, TabIs DEF TabFields
<1>4. Entry' = Entry
  BY <1>3, EntryKept
<1>5. EntryRow' = NoRow /\ Entry' \notin DOMAIN tab'.rows
  BY <1>1, <1>3, <1>4, RowView DEF EntryRow
<1>6. ~Sending(upl') /\ Entering(upl') = {}
  BY DEF Sending, Entering
<1>7. Asked(of', proc', rel', ghost'.rows)
  BY DEF UInv
<1> QED BY <1>5, <1>6, <1>7, NothingWaits

LEMMA SendCreatLooks ==
  ASSUME IInv, CInv, UInv, psync_send_task_creat
  PROVE  UInv'
<1>0. /\ upl.pc = "send" /\ Sending(upl) /\ Entering(upl) = {} /\ UNCHANGED <<file, of, proc, rel, srv, big, ghost>>
  BY DEF psync_send_task_creat, Sending, Entering
<1>1. upl.t = Entry /\ SmallTyped(upl)
  BY <1>0, SmallIs
<1>2. CASE upl.t \notin DOMAIN file
  <2>1. perm_fail_upload_task(Entry) /\ upl' = NoBatch
    BY <1>1, <1>2 DEF psync_send_task_creat
  <2>2. upl'.pc = "idle" /\ Runs(big')
    BY <1>0, <2>1, AsleepOrNot DEF UInv
  <2> QED BY <1>0, <2>1, <2>2, GiveUpLooks
<1>3. CASE upl.t \in DOMAIN file
  <2> DEFINE n == Len(file[upl.t].d)
             piece == SubSeq(file[upl.t].d, 1, Smaller(1, n))
  <2>1. /\ tab' = tab
        /\ upl' = [upl EXCEPT !.pc = "defer"] \/ upl' = [upl EXCEPT !.pc = "rest", !.size = n, !.data = piece]
    BY <1>3 DEF psync_send_task_creat
  <2> HIDE DEF n, piece
  <2>2. upl'.pc \in {"defer", "rest"} /\ upl'.w = upl.w
    BY <1>1, <2>1 DEF SmallTyped
  <2>3. Sending(upl') /\ upl'.pc # "answer"
    BY <2>2 DEF Sending
  <2> QED BY <1>0, <2>1, <2>2, <2>3, SmallGoesOn
<1> QED BY <1>2, <1>3

LEMMA UploadSmallLooks ==
  ASSUME IInv, CInv, UInv, psync_send_task_creat_upload_small
  PROVE  UInv'
<1>0. /\ upl.pc = "rest" /\ Sending(upl) /\ Entering(upl) = {} /\ UNCHANGED <<tab, file, of, proc, rel, srv, big, ghost>>
  BY DEF psync_send_task_creat_upload_small, Sending, Entering
<1>1. SmallTyped(upl)
  BY <1>0, SmallIs
<1>2. CASE upl' = NoBatch
  BY <1>0, <1>2, AsleepOrNot, SmallGivesUp
<1>3. CASE upl' # NoBatch
  <2> DEFINE all == upl.data \o SubSeq(file[upl.t].d, 2, upl.size)
  <2>1. upl' = [upl EXCEPT !.pc = "check", !.data = all]
    BY <1>3 DEF psync_send_task_creat_upload_small
  <2> HIDE DEF all
  <2>2. upl'.pc = "check" /\ upl'.w = upl.w
    BY <1>1, <2>1 DEF SmallTyped
  <2>3. Sending(upl') /\ upl'.pc # "answer"
    BY <2>2 DEF Sending
  <2> QED BY <1>0, <2>2, <2>3, SmallGoesOn
<1> QED BY <1>2, <1>3

LEMMA SendSmallLooks ==
  ASSUME IInv, CInv, UInv, SendSmall
  PROVE  UInv'
<1>0. /\ upl.pc = "check" /\ Sending(upl) /\ Entering(upl) = {} /\ UNCHANGED <<tab, file, of, proc, rel, big, ghost>>
  BY DEF SendSmall, Sending, Entering
<1>1. SmallTyped(upl) /\ get_file_writeid(upl.t) = WriteId(of, EntryRow)
  BY <1>0, SmallIs
<1>2. CASE get_file_writeid(upl.t) # upl.w
  <2>1. upl' = NoBatch
    BY <1>2 DEF SendSmall
  <2> QED BY <1>0, <2>1, AsleepOrNot, SmallGivesUp
<1>3. CASE get_file_writeid(upl.t) = upl.w
  <2>1. upl' = [upl EXCEPT !.pc = "answer"]
    BY <1>3 DEF SendSmall
  <2>2. upl'.pc = "answer" /\ upl'.w = upl.w
    BY <1>1, <2>1 DEF SmallTyped
  <2>3. Sending(upl')
    BY <2>2 DEF Sending
  <2> QED BY <1>0, <1>1, <1>3, <2>2, <2>3, SmallGoesOn
<1> QED BY <1>2, <1>3

LEMMA LostSmallLooks ==
  ASSUME IInv, CInv, UInv, LostSmall
  PROVE  UInv'
<1>0. /\ Entering(upl) = {} /\ UNCHANGED <<tab, file, of, proc, rel, srv, big, ghost>> /\ upl' = NoBatch
  BY DEF LostSmall, Entering
<1> QED BY <1>0, AsleepOrNot, SmallGivesUp

\* The overlay has no name any more.
LEMMA NameEntered ==
  ASSUME IInv, CInv, Entry \in DOMAIN tab.rows, tab'.entries = WithoutEntry(Entry)
  PROVE  Entry' = 0
<1>1. Entry \in Nat \ {0} /\ tab.entries = <<Entry>>
  <2>1. Entry # 0
    BY TabIs
  <2> QED BY <2>1, EntryIs DEF CInv
<1> DEFINE e == Entry
<1> HIDE DEF e
<1>2. tab.entries = <<e>>
  BY <1>1 DEF e
<1>3. WithoutEntry(e) = RemoveAt(tab.entries, CHOOSE k \in DOMAIN tab.entries : tab.entries[k] = e)
  BY <1>2 DEF WithoutEntry
<1>4. (CHOOSE k \in DOMAIN tab.entries : tab.entries[k] = e) = 1
  BY <1>2
<1>5. RemoveAt(tab.entries, 1) = <<>>
  BY <1>2 DEF RemoveAt
<1>6. tab'.entries = <<>>
  BY <1>3, <1>4, <1>5 DEF e
<1> QED BY <1>6 DEF Entry

\* An answer is entered: there is no row of the entry's, and no open file has it.
LEMMA AnswerLooks ==
  ASSUME IInv, CInv, Entry \in DOMAIN tab.rows, NEW hash, psync_fs_update_openfile(Entry, hash),
         tab'.entries = WithoutEntry(Entry), 0 \notin DOMAIN tab'.rows, ~Sending(upl'),
         \A t \in Entering(upl') : tab'.rows[t].after = {}, Runs(big')
  PROVE  UInv'
<1>1. Entry' = 0
  BY NameEntered
<1>2. EntryRow' = NoRow
  BY <1>1, RowView DEF EntryRow
<1>3. of' = NoFile \/ of'.id = 0
  <2>1. CASE of = NoFile
    BY <2>1 DEF psync_fs_update_openfile
  <2>2. CASE of # NoFile
    <3>1. of.id = Entry
      BY <2>2, TabIs DEF Naming
    <3> DEFINE m == Len(hash)
    <3>2. of' = [of EXCEPT !.id = 0, !.hash = hash, !.modified = FALSE, !.newfile = FALSE,
                           !.size = m, !.initial = m, !.released = FALSE]
      BY <2>2, <3>1 DEF psync_fs_update_openfile
    <3>3. DOMAIN of = OfFields
      BY <2>2 DEF IInv, Referenced, IsOpen
    <3> HIDE DEF m
    <3> QED BY <3>2, <3>3 DEF OfFields
  <2> QED BY <2>1, <2>2
<1>4. Asked(of', proc', rel', ghost'.rows)
  BY <1>3 DEF Asked, Asks
<1> QED BY <1>1, <1>2, <1>4, NothingWaits

LEMMA ProcessCreatLooks ==
  ASSUME IInv, CInv, UInv, psync_process_task_creat
  PROVE  UInv'
<1>0. /\ upl.pc = "answer" /\ Sending(upl) /\ Entering(upl) = {} /\ UNCHANGED <<proc, file, srv, rel, big, ghost>>
  BY DEF psync_process_task_creat, Sending, Entering
<1>1. /\ SmallTyped(upl) /\ get_file_writeid(upl.t) = WriteId(of, EntryRow) /\ upl.t = Entry
      /\ Entry \in DOMAIN tab.rows
  BY <1>0, SmallIs
<1>2. CASE get_file_writeid(upl.t) # upl.w
  <2>1. upl' = [NoBatch EXCEPT !.wake = upl.wake] /\ tab' = tab /\ of' = of
    BY <1>2 DEF psync_process_task_creat
  <2>2. EntryRow # NoRow /\ EntryRow.status = 0 => upl.wake \/ SendingLarge(big)
    BY <1>0, <1>1, <1>2 DEF UInv, Looked
  <2>3. upl'.pc = "idle" /\ upl'.wake = upl.wake
    BY <2>1, AsleepOrNot
  <2> QED BY <1>0, <2>1, <2>2, <2>3, SmallGivesUp
<1>3. CASE get_file_writeid(upl.t) = upl.w
  <2> DEFINE hash == upl.data
             entries == WithoutEntry(Entry)
  <2>1. /\ psync_fs_update_openfile(Entry, hash) /\ upl' = [upl EXCEPT !.pc = "cache"]
        /\ tab' = [tab EXCEPT !.mir = hash, !.entries = entries]
    BY <1>1, <1>3 DEF psync_process_task_creat
  <2> HIDE DEF hash, entries
  <2>2. tab'.entries = entries /\ tab'.rows = tab.rows
    BY <2>1, TabIs DEF TabFields
  <2>3. upl'.pc = "cache" /\ upl'.t = Entry
    BY <1>1, <2>1 DEF SmallTyped
  <2>4. ~Sending(upl') /\ Entering(upl') = {Entry}
    BY <2>3 DEF Sending, Entering
  <2>5. tab.rows[Entry].after = {}
    BY <1>0, <1>1 DEF UInv, Arrows
  <2>6. 0 \notin DOMAIN tab'.rows /\ Runs(big')
    BY <1>0, <2>2, TabIs DEF UInv
  <2>7. tab'.entries = WithoutEntry(Entry)
    BY <2>2 DEF entries
  <2>8. \A t \in Entering(upl') : tab'.rows[t].after = {}
    BY <2>2, <2>4, <2>5
  <2> QED BY <1>1, <2>1, <2>4, <2>6, <2>7, <2>8, AnswerLooks
<1> QED BY <1>2, <1>3

\* Rows change, the entry's does not but for its arrows.
LEMMA BehindLooks ==
  ASSUME UInv, UNCHANGED <<of, proc, rel, ghost>>, tab'.entries = tab.entries,
         Row(tab'.rows, Entry) = EntryRow, Arrows(Entry, tab'.rows, upl'),
         Looked(EntryRow, of, upl', big'), Sent(EntryRow, of, upl'), Deferred(EntryRow, big'), Runs(big')
  PROVE  UInv'
<1>1. Entry' = Entry
  BY EntryKept
<1>2. EntryRow' = EntryRow
  BY <1>1 DEF EntryRow
<1> QED BY <1>1, <1>2 DEF UInv

LEMMA CacheSmallLooks ==
  ASSUME IInv, CInv, UInv, CacheSmall
  PROVE  UInv'
<1> DEFINE pages == Cached(upl.t, upl.data)
<1>0. /\ upl.pc = "cache" /\ UNCHANGED <<proc, of, srv, rel, big, ghost>>
      /\ tab' = [tab EXCEPT !.pages = pages] /\ upl' = [upl EXCEPT !.pc = "del"]
  BY DEF CacheSmall
<1> HIDE DEF pages
<1>1. tab'.rows = tab.rows /\ tab'.entries = tab.entries
  BY <1>0, TabIs DEF TabFields
<1>2. upl'.pc = "del" /\ upl'.t = upl.t
  BY <1>0, TabIs DEF SmallTyped
<1>3. Entering(upl') = Entering(upl)
  BY <1>0, <1>2 DEF Entering
<1>4. Looked(EntryRow, of, upl', big') /\ Sent(EntryRow, of, upl')
  BY <1>2 DEF Looked, Sent, Sending
<1>5. Deferred(EntryRow, big') /\ Runs(big')
  BY <1>0 DEF UInv
<1> QED BY <1>0, <1>1, <1>3, <1>4, <1>5, ThreadsLook

\* The entry's row waited for this one, and is looked at now.
LEMMA DelTaskLooks ==
  ASSUME IInv, CInv, UInv, pr_del_task
  PROVE  UInv'
<1> DEFINE t == upl.t
           rows == WithoutRow(tab.rows, t)
           wake == upl.wake \/ HasArrows(tab.rows, t)
<1>0. /\ upl.pc = "del" /\ UNCHANGED <<proc, of, srv, rel, big, ghost, file>>
      /\ tab' = [tab EXCEPT !.rows = rows] /\ upl' = [NoBatch EXCEPT !.wake = wake]
  BY DEF pr_del_task
<1>1. Entering(upl) = {t} /\ t # Entry
  BY <1>0, TabIs DEF Naming, Entering
<1>2. /\ Row(rows, Entry) = EntryRow
      /\ Entry \in DOMAIN rows => Entry \in DOMAIN tab.rows /\ rows[Entry].after = tab.rows[Entry].after \ {t}
  <2>1. /\ RowsFit(tab.rows, ghost.rows) /\ RowsTyped(tab.rows) /\ rows = WithoutRow(tab.rows, t)
        /\ Entry # t
    BY <1>1, TabIs
  <2> HIDE DEF rows, t
  <2>2. DOMAIN rows = DOMAIN tab.rows \ {t} /\ RowsKept(rows, tab.rows, t)
    BY <2>1, RowsLess
  <2>3. Row(rows, Entry) = Row(tab.rows, Entry)
    <3>1. DOMAIN rows \cup {t} = DOMAIN tab.rows \cup {t}
      BY <2>2
    <3> QED BY <2>1, <2>2, <3>1, RowKept
  <2>4. \A i \in DOMAIN rows : i \in DOMAIN tab.rows /\ rows[i].after = tab.rows[i].after \ {t}
    BY <2>1, AfterLess
  <2> QED BY <2>3, <2>4 DEF EntryRow
<1> HIDE DEF rows
<1>3. tab'.rows = rows /\ tab'.entries = tab.entries
  BY <1>0, TabIs DEF TabFields
<1>4. EntryRow # NoRow => wake
  <2>1. ASSUME EntryRow # NoRow PROVE t \in tab.rows[Entry].after /\ Entry \in DOMAIN tab.rows
    BY <1>1, <2>1, RowView DEF UInv, Arrows, EntryRow
  <2> QED BY <2>1 DEF HasArrows
<1> HIDE DEF wake
<1>5. upl'.pc = "idle" /\ upl'.wake = wake /\ Entering(upl') = {} /\ ~Sending(upl')
  BY <1>0, AsleepOrNot
<1>6. Arrows(Entry, rows, upl')
  <2>1. Entry \in DOMAIN rows => rows[Entry].after = {}
    BY <1>1, <1>2 DEF UInv, Arrows
  <2> QED BY <1>5, <2>1 DEF Arrows
<1>7. Looked(EntryRow, of, upl', big') /\ Sent(EntryRow, of, upl')
  BY <1>4, <1>5 DEF Looked, Sent
<1>8. Deferred(EntryRow, big') /\ Runs(big')
  BY <1>0 DEF UInv
<1> QED BY <1>0, <1>2, <1>3, <1>6, <1>7, <1>8, BehindLooks

LEMMA CleanStuckLooks ==
  ASSUME IInv, CInv, UInv, clean_stuck_tasks
  PROVE  UInv'
<1> DEFINE stuck == DOMAIN tab.rows \ Live(tab.rows)
           q == Without(tab.rows, stuck)
           rows == [i \in DOMAIN q |-> [q[i] EXCEPT !.after = @ \ stuck]]
<1>0. /\ upl.pc = "start" /\ UNCHANGED <<proc, of, srv, rel, big, ghost>>
      /\ tab' = [tab EXCEPT !.rows = rows] /\ upl' = NoBatch
  BY DEF clean_stuck_tasks
<1>1. Entry \in DOMAIN tab.rows => Entry \in Live(tab.rows)
  BY TabIs DEF Naming
<1>2. /\ DOMAIN rows = Live(tab.rows) /\ DOMAIN rows \subseteq DOMAIN tab.rows
      /\ \A i \in DOMAIN rows : /\ rows[i].status = tab.rows[i].status /\ rows[i].type = tab.rows[i].type
                                /\ rows[i].base = tab.rows[i].base /\ rows[i].int1 = tab.rows[i].int1
                                /\ rows[i].after = tab.rows[i].after \ stuck
  <2>1. /\ DOMAIN q = Live(tab.rows)
        /\ \A i \in DOMAIN q : q[i] = tab.rows[i] /\ DOMAIN q[i] = RowFields /\ i \in DOMAIN tab.rows
    BY TabIs DEF Without, Restrict, RowsFit, Live
  <2> HIDE DEF q, stuck
  <2> QED BY <2>1 DEF RowFields
<1> HIDE DEF rows
<1>4. Row(rows, Entry) = EntryRow
  <2>1. Entry \in DOMAIN rows <=> Entry \in DOMAIN tab.rows
    BY <1>1, <1>2
  <2> QED BY <1>2, <2>1, RowsSame DEF EntryRow
<1>5. tab'.rows = rows /\ tab'.entries = tab.entries
  BY <1>0, TabIs DEF TabFields
<1>6. upl'.pc = "idle" /\ upl'.wake = TRUE /\ Entering(upl') = {} /\ ~Sending(upl') /\ Entering(upl) = {}
  BY <1>0, AsleepOrNot DEF Entering
<1>7. Arrows(Entry, rows, upl')
  <2>1. Entry \in DOMAIN rows => rows[Entry].after = {}
    BY <1>2, <1>6 DEF UInv, Arrows
  <2> QED BY <1>6, <2>1 DEF Arrows
<1>8. Looked(EntryRow, of, upl', big') /\ Sent(EntryRow, of, upl')
  BY <1>6 DEF Looked, Sent
<1>9. Deferred(EntryRow, big') /\ Runs(big')
  BY <1>0 DEF UInv
<1> QED BY <1>0, <1>4, <1>5, <1>7, <1>8, <1>9, BehindLooks

LEMMA DeferLooks ==
  ASSUME IInv, CInv, UInv, psync_sent_task_creat_upload_large
  PROVE  UInv'
<1>0. /\ upl.pc = "defer" /\ Sending(upl) /\ Entering(upl) = {} /\ UNCHANGED <<proc, of, file, srv, rel, ghost>>
      /\ upl' = [NoBatch EXCEPT !.wake = upl.wake]
      /\ big' = IF big.pc = "off" THEN [big EXCEPT !.pc = "pick"] ELSE big
      /\ tab' = IF upl.t \in DOMAIN tab.rows /\ tab.rows[upl.t].status = 0
                THEN [tab EXCEPT !.rows = WithStatus(@, upl.t, 2)] ELSE tab
  BY DEF psync_sent_task_creat_upload_large, Sending, Entering
<1>1. /\ upl.t = Entry /\ Entry \in DOMAIN tab.rows /\ EntryRow # NoRow
      /\ EntryRow.status = tab.rows[Entry].status /\ EntryRow.status \in {0, 1}
  BY <1>0, SmallIs, RowView DEF EntryRow
<1>2. upl'.pc = "idle" /\ Entering(upl') = {} /\ ~Sending(upl')
  BY <1>0, AsleepOrNot
<1>3. big'.pc # "off" /\ Runs(big')
  BY <1>0, TabIs DEF LargeTyped, Runs, SendingLarge, UInv
<1>4. CASE tab.rows[Entry].status # 0
  <2>1. tab' = tab
    BY <1>0, <1>1, <1>4
  <2>2. Looked(EntryRow, of, upl', big') /\ Sent(EntryRow, of, upl') /\ Deferred(EntryRow, big')
    BY <1>1, <1>2, <1>3, <1>4 DEF Looked, Sent, Deferred
  <2> QED BY <1>0, <1>2, <1>3, <2>1, <2>2, ThreadsLook
<1>5. CASE tab.rows[Entry].status = 0
  <2> DEFINE t == Entry
             rows == WithStatus(tab.rows, t, 2)
  <2>1. tab' = [tab EXCEPT !.rows = rows]
    BY <1>0, <1>1, <1>5
  <2>2. /\ DOMAIN rows = DOMAIN tab.rows /\ rows[t].status = 2 /\ rows[t].after = tab.rows[t].after
    <3>1. rows = WithStatus(tab.rows, t, 2) /\ RowsFit(tab.rows, ghost.rows) /\ RowsTyped(tab.rows)
          /\ t \in DOMAIN tab.rows
      BY <1>1, TabIs
    <3> HIDE DEF rows, t
    <3> QED BY <3>1, RowsMarked, AfterMarked
  <2> HIDE DEF rows
  <2>3. tab'.rows = rows /\ tab'.entries = tab.entries
    BY <2>1, TabIs DEF TabFields
  <2>4. Entry' = Entry
    BY <2>3, EntryKept
  <2>5. EntryRow' # NoRow /\ EntryRow'.status = 2
    BY <1>1, <2>2, <2>3, <2>4, RowView DEF EntryRow
  <2>6. Arrows(Entry', tab'.rows, upl')
    BY <1>0, <1>2, <2>2, <2>3, <2>4 DEF UInv, Arrows
  <2>7. Knows(EntryRow', of') /\ Asked(of', proc', rel', ghost'.rows)
    BY <1>0, <2>5 DEF UInv, Knows
  <2>8. Looked(EntryRow', of', upl', big') /\ Sent(EntryRow', of', upl') /\ Deferred(EntryRow', big')
    BY <1>2, <1>3, <2>5 DEF Looked, Sent, Deferred
  <2> QED BY <1>3, <2>6, <2>7, <2>8 DEF UInv
<1> QED BY <1>4, <1>5

----------------------------------------------------------------------------
(* The thread of large uploads, the cache, and the diff thread.            *)

LEMMA LargeGoesOn ==
  ASSUME IInv, CInv, UInv, UNCHANGED <<tab, of, proc, rel, upl>>, ghost'.rows = ghost.rows, SendingLarge(big),
         SendingLarge(big')
  PROVE  UInv'
<1>1. Looked(EntryRow, of, upl', big') /\ Deferred(EntryRow, big') /\ Runs(big')
  BY DEF Looked, Deferred, Runs, SendingLarge
<1>2. Sent(EntryRow, of, upl')
  BY DEF UInv
<1> QED BY <1>1, <1>2, ThreadsLook

LEMMA FailsLooks ==
  ASSUME IInv, CInv, UInv, UNCHANGED <<tab, of, proc, rel>>, ghost'.rows = ghost.rows, SendingLarge(big), Fails
  PROVE  UInv'
<1>1. upl.pc = "idle" /\ LargeTyped(big) /\ SmallTyped(upl) /\ Entering(upl) = {}
  BY LargeIs
<1>2. upl' = [upl EXCEPT !.wake = upl.wake \/ TRUE] /\ big' = [big EXCEPT !.pc = "pick", !.current = 0]
  BY DEF Fails, Woken, Step
<1>3. upl'.pc = "idle" /\ upl'.wake = TRUE /\ big'.pc = "pick"
  BY <1>1, <1>2 DEF SmallTyped, LargeTyped
<1>4. ~Sending(upl') /\ Entering(upl') = {} /\ Runs(big')
  BY <1>3 DEF Sending, Entering, Runs
<1>5. Looked(EntryRow, of, upl', big') /\ Sent(EntryRow, of, upl') /\ Deferred(EntryRow, big')
  BY <1>3, <1>4 DEF Looked, Sent, Deferred
<1> QED BY <1>1, <1>4, <1>5, ThreadsLook

LEMMA GivesLooks ==
  ASSUME IInv, CInv, UInv, UNCHANGED <<of, proc, rel>>, ghost'.rows = ghost.rows, SendingLarge(big), Gives
  PROVE  UInv'
<1>1. upl.pc = "idle" /\ LargeTyped(big) /\ SmallTyped(upl) /\ Entering(upl) = {} /\ big.t = Entry
  BY LargeIs
<1>2. upl'.pc = "idle"
  BY <1>1, WokenTyped DEF Gives
<1>3. Runs(big')
  BY <1>1 DEF Gives, Step, LargeTyped, Runs
<1>4. perm_fail_upload_task(Entry)
  BY <1>1 DEF Gives
<1> QED BY <1>1, <1>2, <1>3, <1>4, GiveUpLooks

LEMMA PickLooks ==
  ASSUME IInv, CInv, UInv, Pick
  PROVE  UInv'
<1>0. big.pc = "pick" /\ UNCHANGED <<tab, file, of, proc, rel, srv, ghost, upl>>
  BY DEF Pick
<1>1. Looked(EntryRow, of, upl, big') /\ Sent(EntryRow, of, upl)
  BY <1>0 DEF UInv, Looked, SendingLarge
<1>2. CASE Large = {}
  <2>1. big' = NoUpload
    BY <1>2 DEF Pick
  <2>2. Runs(big')
    BY <2>1 DEF NoUpload, Runs
  <2>3. Deferred(EntryRow, big')
    <3>1. EntryRow # NoRow => EntryRow.status # 2
      BY <1>2, RowView DEF EntryRow, Large
    <3> QED BY <3>1 DEF Deferred
  <2> QED BY <1>0, <1>1, <2>2, <2>3, ThreadsLook
<1>3. CASE Large # {}
  <2> DEFINE t == Min(Large)
             type == tab.rows[t].type
             base == tab.rows[t].base
             w == tab.rows[t].int1
             pc == IF type = "creat" THEN "sum" ELSE "index"
  <2>1. big' = [NoUpload EXCEPT !.pc = pc, !.current = t, !.t = t, !.w = w, !.type = type, !.base = base]
    BY <1>3 DEF Pick
  <2>2. pc \in {"sum", "index"}
    OBVIOUS
  <2> HIDE DEF t, type, base, w, pc
  <2>3. big'.pc = pc
    BY <2>1 DEF NoUpload
  <2>4. Runs(big') /\ Deferred(EntryRow, big')
    BY <2>2, <2>3 DEF Runs, SendingLarge, Deferred
  <2> QED BY <1>0, <1>1, <2>4, ThreadsLook
<1> QED BY <1>2, <1>3

\* Every step of a large upload goes on, fails, or gives the row up.
LEMMA LargeLooks ==
  ASSUME IInv, CInv, UInv,
         \/ psync_get_local_file_checksum \/ large_upload_creat \/ LoadIndex \/ LoadSize
         \/ upload_modify \/ upload_modify_send_local \/ large_upload_save \/ LostLarge
  PROVE  UInv'
<1> DEFINE GoesOn == \/ UNCHANGED <<tab, upl>> /\ SendingLarge(big')
                     \/ Fails /\ UNCHANGED tab
                     \/ Gives
<1>0. SendingLarge(big) /\ UNCHANGED <<of, proc, rel>> /\ ghost'.rows = ghost.rows
  BY DEF psync_get_local_file_checksum, large_upload_creat, LoadIndex, LoadSize, upload_modify,
         upload_modify_send_local, large_upload_save, LostLarge, SendingLarge, IInv, TabFits, GhostFields, Noting
<1>1. LargeTyped(big)
  BY TabIs
<1>2. ASSUME psync_get_local_file_checksum PROVE GoesOn
  <2> DEFINE d == file[big.t].d
             b == [big EXCEPT !.pc = "parts", !.sum = d]
  <2>1. Gives \/ (big' = b /\ UNCHANGED <<tab, upl>>)
    BY <1>2 DEF psync_get_local_file_checksum, Step
  <2> HIDE DEF d
  <2>2. SendingLarge(b)
    BY <1>0, <1>1 DEF LargeTyped, SendingLarge
  <2> HIDE DEF b
  <2> QED BY <2>1, <2>2
<1>3. ASSUME large_upload_creat PROVE GoesOn
  <2> DEFINE b == [big EXCEPT !.pc = "check"]
             x == Append(big.data, file[big.t].d[Len(big.data) + 1])
             b2 == [big EXCEPT !.data = x]
  <2>1. (Fails /\ UNCHANGED tab) \/ (big' = b /\ UNCHANGED <<tab, upl>>) \/ (big' = b2 /\ UNCHANGED <<tab, upl>>)
    BY <1>3 DEF large_upload_creat, Step
  <2> HIDE DEF x
  <2>2. SendingLarge(b) /\ SendingLarge(b2)
    BY <1>0, <1>1 DEF LargeTyped, SendingLarge
  <2> HIDE DEF b, b2
  <2> QED BY <2>1, <2>2
<1>4. ASSUME LoadIndex PROVE GoesOn
  <2> DEFINE d == file[big.t].i
             b == [big EXCEPT !.pc = "size", !.ints = d]
  <2>1. Gives \/ (big' = b /\ UNCHANGED <<tab, upl>>)
    BY <1>4 DEF LoadIndex, Step
  <2> HIDE DEF d
  <2>2. SendingLarge(b)
    BY <1>0, <1>1 DEF LargeTyped, SendingLarge
  <2> HIDE DEF b
  <2> QED BY <2>1, <2>2
<1>5. ASSUME LoadSize PROVE GoesOn
  <2> DEFINE d == Len(file[big.t].d)
             b == [big EXCEPT !.pc = "modify", !.size = d]
  <2>1. Gives \/ (big' = b /\ UNCHANGED <<tab, upl>>)
    BY <1>5 DEF LoadSize, Step
  <2> HIDE DEF d
  <2>2. SendingLarge(b)
    BY <1>0, <1>1 DEF LargeTyped, SendingLarge
  <2> HIDE DEF b
  <2> QED BY <2>1, <2>2
<1>6. ASSUME upload_modify PROVE GoesOn
  <2> DEFINE b == [big EXCEPT !.pc = "check"]
             b2 == [big EXCEPT !.pc = "read"]
             y == Append(big.data, IF Len(big.data) + 1 <= Len(big.base) THEN big.base[Len(big.data) + 1] ELSE 0)
             b3 == [big EXCEPT !.data = y]
  <2>1. (Fails /\ UNCHANGED tab) \/ (big' = b /\ UNCHANGED <<tab, upl>>) \/ (big' = b2 /\ UNCHANGED <<tab, upl>>) \/ (big' = b3 /\ UNCHANGED <<tab, upl>>)
    BY <1>6 DEF upload_modify, Step
  <2> HIDE DEF y
  <2>2. SendingLarge(b) /\ SendingLarge(b2) /\ SendingLarge(b3)
    BY <1>0, <1>1 DEF LargeTyped, SendingLarge
  <2> HIDE DEF b, b2, b3
  <2> QED BY <2>1, <2>2
<1>7. ASSUME upload_modify_send_local PROVE GoesOn
  <2> DEFINE d == Append(big.data, file[big.t].d[Len(big.data) + 1])
             b == [big EXCEPT !.pc = "modify", !.data = d]
  <2>1. Gives \/ (big' = b /\ UNCHANGED <<tab, upl>>)
    BY <1>7 DEF upload_modify_send_local, Step
  <2> HIDE DEF d
  <2>2. SendingLarge(b)
    BY <1>0, <1>1 DEF LargeTyped, SendingLarge
  <2> HIDE DEF b
  <2> QED BY <2>1, <2>2
<1>8. ASSUME large_upload_save PROVE GoesOn
  <2> DEFINE b == [big EXCEPT !.pc = "meta"]
  <2>1. (Fails /\ UNCHANGED tab) \/ (big' = b /\ UNCHANGED <<tab, upl>>)
    BY <1>8 DEF large_upload_save, Step
  <2>2. SendingLarge(b)
    BY <1>0, <1>1 DEF LargeTyped, SendingLarge
  <2> HIDE DEF b
  <2> QED BY <2>1, <2>2
<1>9. ASSUME LostLarge PROVE GoesOn
  BY <1>9 DEF LostLarge
<1>10. GoesOn
  BY <1>2, <1>3, <1>4, <1>5, <1>6, <1>7, <1>8, <1>9
<1> QED BY <1>0, <1>10, LargeGoesOn, FailsLooks, GivesLooks

LEMMA SaveMetaLooks ==
  ASSUME IInv, CInv, UInv, save_meta
  PROVE  UInv'
<1>0. big.pc = "meta" /\ SendingLarge(big) /\ UNCHANGED <<file, srv, rel, ghost, proc>>
  BY DEF save_meta, SendingLarge
<1>1. CASE get_file_writeid(big.t) # big.w
  BY <1>0, <1>1, FailsLooks DEF save_meta
<1>2. CASE get_file_writeid(big.t) = big.w
  <2> DEFINE t == Entry
             hash == big.data
             task == [t |-> t, type |-> big.type, hash |-> hash, old |-> big.base]
             entries == WithoutEntry(Entry)
             cache == Append(tab.cache, task)
             arrows == WithoutArrows(tab.rows, t)
             rows == WithStatus(arrows, t, 3)
  <2>1. /\ big.t = t /\ t \in DOMAIN tab.rows /\ LargeTyped(big) /\ SmallTyped(upl) /\ upl.pc = "idle"
    BY <1>0, LargeIs
  <2>2. /\ psync_fs_update_openfile(Entry, hash)
        /\ tab' = [tab EXCEPT !.mir = hash, !.entries = entries, !.cache = cache, !.rows = rows]
        /\ upl' = Woken(HasArrows(tab.rows, t))
        /\ big' = [big EXCEPT !.pc = "pick"]
    BY <1>2, <2>1 DEF save_meta, Step
  <2>3. DOMAIN rows = DOMAIN tab.rows
    BY DEF WithStatus, WithoutArrows
  <2> HIDE DEF rows, cache, entries, hash, task
  <2>4. tab'.entries = entries /\ tab'.rows = rows
    BY <2>2, TabIs DEF TabFields
  <2>5. upl'.pc = "idle" /\ big'.pc = "pick"
    BY <2>1, <2>2, WokenTyped DEF LargeTyped
  <2>6. ~Sending(upl') /\ Entering(upl') = {} /\ Runs(big')
    BY <2>5 DEF Sending, Entering, Runs
  <2>7. 0 \notin DOMAIN tab'.rows /\ tab'.entries = WithoutEntry(Entry)
    BY <2>3, <2>4, TabIs DEF entries
  <2> QED BY <2>1, <2>2, <2>6, <2>7, AnswerLooks
<1> QED BY <1>1, <1>2

LEMMA CacheUploadedLooks ==
  ASSUME IInv, CInv, UInv, CacheUploaded
  PROVE  UInv'
<1> DEFINE c == Head(tab.cache)
           pages == IF c.type = "creat" THEN Cached(c.t, c.hash)
                    ELSE IF c.t \in DOMAIN file
                    THEN psync_pagecache_modify_to_cache(file[c.t], c.hash, c.old)
                    ELSE tab.pages
<1>1. /\ tab' = [tab EXCEPT !.pages = pages, !.caching = "del"] /\ UNCHANGED <<proc, of, srv, rel, upl, big, ghost>>
  BY DEF CacheUploaded
<1> HIDE DEF pages
<1>2. tab'.rows = tab.rows /\ tab'.entries = tab.entries
  BY <1>1, TabIs DEF TabFields
<1>3. /\ Looked(EntryRow, of, upl', big') /\ Sent(EntryRow, of, upl') /\ Deferred(EntryRow, big')
      /\ Runs(big') /\ Entering(upl') = Entering(upl)
  BY <1>1 DEF UInv
<1> QED BY <1>1, <1>2, <1>3, ThreadsLook

\* Nothing that is still to be uploaded waits for what the cache has now.
LEMMA CacheEndsLooks ==
  ASSUME IInv, CInv, UInv, CacheEnds
  PROVE  UInv'
<1> DEFINE t == tab.cache[1].t
           rows == WithoutRow(tab.rows, t)
           cache == Tail(tab.cache)
           wake == upl.wake \/ HasArrows(tab.rows, t)
<1>1. tab.caching = "del" /\ tab.cache # <<>> /\ Head(tab.cache).t = t /\ t \notin Live(tab.rows)
  <2>1. tab.caching = "del" /\ tab.cache # <<>>
    BY DEF CacheEnds, CInv, Handed
  <2> QED BY <2>1, CacheHead
<1>2. /\ tab' = [tab EXCEPT !.rows = rows, !.cache = cache, !.caching = "idle"]
      /\ upl' = [upl EXCEPT !.wake = wake]
      /\ UNCHANGED <<proc, of, file, srv, rel, big, ghost>>
  BY <1>1 DEF CacheEnds, Woken
<1>3. /\ DOMAIN rows = DOMAIN tab.rows \ {t} /\ RowsKept(rows, tab.rows, t)
      /\ \A i \in DOMAIN rows : i \in DOMAIN tab.rows /\ rows[i].after = tab.rows[i].after \ {t}
  <2>1. RowsFit(tab.rows, ghost.rows) /\ RowsTyped(tab.rows) /\ rows = WithoutRow(tab.rows, t)
    BY TabIs
  <2> HIDE DEF rows, t, wake
  <2>2. DOMAIN rows = DOMAIN tab.rows \ {t} /\ RowsKept(rows, tab.rows, t)
    BY <2>1, RowsLess
  <2>3. \A i \in DOMAIN rows : i \in DOMAIN tab.rows /\ rows[i].after = tab.rows[i].after \ {t}
    BY <2>1, AfterLess
  <2> QED BY <2>2, <2>3
<1> HIDE DEF rows, t
<1>4. Entry \in DOMAIN tab.rows => Entry # t
  BY <1>1, TabIs DEF Naming
<1>5. Row(rows, Entry) = EntryRow
  <2>1. Entry \in DOMAIN rows <=> Entry \in DOMAIN tab.rows
    BY <1>3, <1>4
  <2> QED BY <1>3, <1>4, <2>1, RowsSame DEF EntryRow, RowsKept
<1> HIDE DEF cache
<1> HIDE DEF wake
<1>7. tab'.rows = rows /\ tab'.entries = tab.entries
  BY <1>2, TabIs DEF TabFields
<1>8. upl'.pc = upl.pc /\ upl'.t = upl.t /\ upl'.w = upl.w /\ upl'.wake = wake
  BY <1>2, TabIs DEF SmallTyped
<1>9. Entering(upl') = Entering(upl) /\ (\A x \in Entering(upl) : x # t /\ x \in DOMAIN tab.rows)
  <2>1. Entered(EntryRow, tab.rows, file, upl, ghost.last)
    BY DEF CInv
  <2>2. upl.pc \in {"cache", "del"} => upl.t \in DOMAIN tab.rows /\ upl.t # t
    BY <1>1, <2>1 DEF Entered, Live
  <2> QED BY <1>8, <2>2 DEF Entering
<1>10. Arrows(Entry, rows, upl')
  <2>1. Arrows(Entry, tab.rows, upl)
    BY DEF UInv
  <2>2. ASSUME NEW i \in DOMAIN rows, tab.rows[i].after \subseteq Entering(upl)
        PROVE  rows[i].after = tab.rows[i].after
    <3>1. rows[i].after = tab.rows[i].after \ {t} /\ t \notin tab.rows[i].after
      BY <1>3, <1>9, <2>2
    <3> QED BY <3>1
  <2>3. \A i \in Entering(upl) : i \in DOMAIN rows
    BY <1>3, <1>9
  <2> QED BY <1>3, <1>9, <2>1, <2>2, <2>3 DEF Arrows
<1>11. Looked(EntryRow, of, upl', big')
  <2>1. upl.wake => wake
    BY DEF wake
  <2> QED BY <1>2, <1>8, <2>1 DEF UInv, Looked
<1>12. Sent(EntryRow, of, upl')
  BY <1>8 DEF UInv, Sent, Sending
<1>13. Deferred(EntryRow, big') /\ Runs(big')
  BY <1>2 DEF UInv
<1> QED BY <1>2, <1>5, <1>7, <1>10, <1>11, <1>12, <1>13, BehindLooks

LEMMA DiffLooks ==
  ASSUME IInv, CInv, UInv, DiffAsks \/ process_modifyfile
  PROVE  UInv'
<1> DEFINE mir == Head(srv.diff)
           flags == {"regressed"}
<1>1. /\ UNCHANGED <<proc, of, rel, upl, big>>
      /\ tab' = tab \/ tab' = [tab EXCEPT !.mir = mir]
      /\ ghost' = ghost \/ ghost' = Noting(ghost, flags)
  BY DEF DiffAsks, process_modifyfile
<1> HIDE DEF mir, flags
<1>2. tab'.rows = tab.rows /\ tab'.entries = tab.entries
  BY <1>1, TabIs DEF TabFields
<1>3. ghost'.rows = ghost.rows
  BY <1>1 DEF Noting, IInv, TabFits, GhostFields
<1>4. /\ Looked(EntryRow, of, upl', big') /\ Sent(EntryRow, of, upl') /\ Deferred(EntryRow, big')
      /\ Runs(big') /\ Entering(upl') = Entering(upl)
  BY <1>1 DEF UInv
<1> QED BY <1>1, <1>2, <1>3, <1>4, ThreadsLook

\* A program that starts again looks at everything, and no row it has is unreleased.
LEMMA RestartLooks ==
  ASSUME IInv, CInv, UInv, CInv', ~Damaged', Restart
  PROVE  UInv'
<1> DEFINE rows == [t \in DOMAIN tab.rows |->
                      [tab.rows[t] EXCEPT !.status = IF @ \in {1, 2} THEN 0 ELSE @]]
           entries == EntriesOf(rows)
           again == upl.pc \in {"cache", "del"} /\ upl.t \in DOMAIN rows
                    /\ (upl.t \notin DOMAIN file \/ Live(rows) # {upl.t})
           flags(lost) == (IF lost THEN {"noname"} ELSE {}) \cup (IF again THEN {"again"} ELSE {}) \cup
                          (IF Locked /\ of.initial > 0 THEN {"halfcopied"} ELSE {})
<1>1. PICK lost \in BOOLEAN, pages \in {tab.pages, {}} :
        /\ tab' = [tab EXCEPT !.rows = rows, !.lost = lost, !.pages = pages,
                              !.caching = "idle", !.entries = entries]
        /\ ghost' = Noting(ghost, flags(lost))
  BY DEF Restart
<1>2. of' = NoFile /\ big' = NoUpload /\ upl' = [NoBatch EXCEPT !.pc = "start"]
  BY DEF Restart
<1>3. ~again
  <2> DEFINE all == flags(lost)
             g == ghost
  <2>1. ghost' = Noting(ghost, all) /\ DOMAIN g = GhostFields /\ g.known = ghost.known
    BY <1>1 DEF IInv, TabFits
  <2>2. again => "again" \in all
    OBVIOUS
  <2> HIDE DEF all, g, again
  <2>3. all \cap Damages = {}
    <3>1. ghost' = Noting(g, all)
      BY <2>1 DEF g
    <3> QED BY <2>1, <3>1, Undamaged
  <2> QED BY <2>2, <2>3 DEF Damages
<1>4. tab'.rows = rows
  <2> HIDE DEF rows, entries
  <2> QED BY <1>1, TabIs DEF TabFields
<1>5. /\ DOMAIN rows = DOMAIN tab.rows /\ Live(rows) = Live(tab.rows)
      /\ \A t \in DOMAIN rows : rows[t].after = tab.rows[t].after /\ rows[t].status \notin {1, 2}
  <2>1. RowsFit(tab.rows, ghost.rows)
    BY TabIs
  <2>2. ASSUME NEW t \in DOMAIN tab.rows
        PROVE  /\ rows[t].after = tab.rows[t].after /\ rows[t].status \notin {1, 2}
               /\ (rows[t].status = 3 <=> tab.rows[t].status = 3)
    <3> DEFINE status == IF tab.rows[t].status \in {1, 2} THEN 0 ELSE tab.rows[t].status
               r == tab.rows[t]
    <3>1. DOMAIN r = RowFields /\ rows[t] = [r EXCEPT !.status = status]
      BY <2>1 DEF RowsFit
    <3>2. status \notin {1, 2} /\ (status = 3 <=> r.status = 3)
      OBVIOUS
    <3> HIDE DEF status, rows
    <3> QED BY <3>1, <3>2 DEF RowFields
  <2>3. DOMAIN rows = DOMAIN tab.rows
    OBVIOUS
  <2> HIDE DEF rows
  <2> QED BY <2>2, <2>3 DEF Live
<1> HIDE DEF rows, flags
<1>6. upl'.pc = "start" /\ upl'.wake = TRUE /\ big'.pc = "off" /\ big'.current = 0
  BY <1>2 DEF NoBatch, NoUpload
<1>7. Entering(upl') = {} /\ ~Sending(upl') /\ Runs(big')
  BY <1>6 DEF Entering, Sending, Runs
<1>8. Entry' \in DOMAIN rows => rows[Entry'].after = {}
  <2> SUFFICES ASSUME Entry' \in DOMAIN rows PROVE rows[Entry'].after = {}
    OBVIOUS
  <2>1. Entry' \in Live(rows)
    BY <1>4 DEF CInv, Naming
  <2>2. CASE Entering(upl) = {}
    <3>1. Entry' = Entry
      BY <1>5, <2>1, <2>2, TabIs DEF Naming
    <3> QED BY <1>5, <2>2, <3>1 DEF UInv, Arrows
  <2>3. CASE Entering(upl) # {}
    <3>1. upl.pc \in {"cache", "del"} /\ Entering(upl) = {upl.t} /\ upl.t \in DOMAIN tab.rows
      BY <2>3 DEF Entering, CInv, Entered
    <3>2. Live(rows) = {upl.t}
      BY <1>3, <1>5, <3>1
    <3> QED BY <1>5, <2>1, <3>1, <3>2 DEF UInv, Arrows
  <2> QED BY <2>2, <2>3
<1>9. Arrows(Entry', tab'.rows, upl')
  BY <1>4, <1>7, <1>8 DEF Arrows
<1>10. EntryRow' # NoRow => EntryRow'.status \notin {1, 2}
  BY <1>4, <1>5, RowView DEF EntryRow
<1>11. /\ Looked(EntryRow', of', upl', big') /\ Sent(EntryRow', of', upl') /\ Deferred(EntryRow', big')
       /\ Knows(EntryRow', of')
  BY <1>2, <1>6, <1>7, <1>10 DEF Looked, Sent, Deferred, Knows
<1>12. Asked(of', proc', rel', ghost'.rows)
  BY <1>2 DEF Asked, Asks
<1> QED BY <1>7, <1>9, <1>11, <1>12 DEF UInv

----------------------------------------------------------------------------
(* Releases, and what closes a file.                                       *)

\* The open file knows what it did, and nobody new will release its row.
LEMMA SameFileLooks ==
  ASSUME IInv, CInv, UInv, UNCHANGED <<tab, upl, big>>, ghost'.rows = ghost.rows,
         Alike(of', of), of'.released = of.released,
         \A p \in Procs : proc'[p].pc = "flushed" => proc'[p] = proc[p],
         \A k \in DOMAIN rel' : rel'[k].pc = "row" => \E j \in DOMAIN rel : rel'[k] = rel[j]
  PROVE  UInv'
<1>1. EntryRow # NoRow => WriteId(of', EntryRow) = WriteId(of, EntryRow)
  BY DEF WriteId, Alike
<1>2. Sending(upl) => EntryRow # NoRow
  BY DEF CInv, Small
<1>3. Knows(EntryRow, of')
  BY DEF UInv, Knows, Alike
<1>4. \A x, y : Asks(x, y, of, ghost.rows) => Asks(x, y, of', ghost.rows)
  BY DEF Asks, Alike
<1>5. Asked(of, proc, rel, ghost.rows)
  BY DEF UInv
<1>6. Asked(of', proc', rel', ghost'.rows)
  <2>1. \A p \in Procs : proc'[p].pc = "flushed" => Asks(proc'[p].w, proc'[p].n, of', ghost'.rows)
    BY <1>4, <1>5 DEF Asked
  <2>2. \A k \in DOMAIN rel' : rel'[k].pc = "row" => Asks(rel'[k].w, rel'[k].n, of', ghost'.rows)
    BY <1>4, <1>5 DEF Asked
  <2> QED BY <2>1, <2>2 DEF Asked
<1> QED BY <1>1, <1>2, <1>3, <1>6, FileLooks

\* The open file knows that its row is going to be released.
LEMMA ReleasedLooks ==
  ASSUME IInv, CInv, UInv, UNCHANGED <<tab, upl, big>>, Alike(of', of), of'.released = TRUE
  PROVE  UInv'
<1>1. EntryRow # NoRow => WriteId(of', EntryRow) = WriteId(of, EntryRow)
  BY DEF WriteId, Alike
<1>2. Sending(upl) => EntryRow # NoRow
  BY DEF CInv, Small
<1>3. Knows(EntryRow, of')
  BY DEF Knows, Alike
<1>4. Asked(of', proc', rel', ghost'.rows)
  BY DEF Asked, Asks
<1> QED BY <1>1, <1>2, <1>3, <1>4, FileLooks

\* The file is closed: its row has been released with its write id.
LEMMA ClosedLooks ==
  ASSUME IInv, CInv, UInv, UNCHANGED <<tab, upl, big>>, of # NoFile, of' = NoFile,
         ~Pending(of.writeid, ghost.rows, proc, rel), ~Busy(proc)
  PROVE  UInv'
<1>1. EntryRow # NoRow => EntryRow.int1 = of.writeid /\ EntryRow.status # 1
  <2> SUFFICES ASSUME EntryRow # NoRow PROVE EntryRow.int1 = of.writeid /\ EntryRow.status # 1
    OBVIOUS
  <2>1. Entry \in DOMAIN tab.rows
    BY RowView DEF EntryRow
  <2>2. of.id # 0
    BY <2>1, TabIs DEF Naming
  <2> QED BY <2>2 DEF CInv, Settles
<1>2. EntryRow # NoRow => WriteId(of', EntryRow) = WriteId(of, EntryRow)
  BY <1>1 DEF WriteId
<1>3. Sending(upl) => EntryRow # NoRow
  BY DEF CInv, Small
<1>4. Knows(EntryRow, of')
  BY <1>1 DEF Knows
<1>5. Asked(of', proc', rel', ghost'.rows)
  BY DEF Asked, Asks
<1> QED BY <1>2, <1>3, <1>4, <1>5, FileLooks

\* A row is released with a write id of the open file, that of its last write only
\* when the file knows.
LEMMA ReleaseLooks ==
  ASSUME IInv, CInv, UInv, ~Damaged', NEW w, NEW n, Release(w, n), of # NoFile,
         Fresh(w, n, of, Stage(proc), ghost.rows), Asks(w, n, of, ghost.rows),
         UNCHANGED <<of, big>>, Asked(of, proc', rel', ghost.rows)
  PROVE  UInv'
<1>0. of.id = Entry /\ (Entry # 0 => Entry \in DOMAIN tab.rows)
  BY TabIs DEF Naming
<1>1. CASE Entry \notin DOMAIN tab.rows
  <2>1. UNCHANGED <<tab, upl, ghost>>
    BY <1>0, <1>1 DEF Release
  <2>2. Sending(upl) => EntryRow # NoRow
    BY DEF CInv, Small
  <2>3. Knows(EntryRow, of')
    BY DEF UInv
  <2> QED BY <2>1, <2>2, <2>3, FileLooks
<1>2. CASE Entry \in DOMAIN tab.rows
  <2> DEFINE t == Entry
             old == tab.rows[t]
             row == Released(old, w)
             rows == [tab.rows EXCEPT ![t] = row]
  <2>1. /\ tab' = [tab EXCEPT !.rows = rows]
        /\ upl' = IF old.status = 1 THEN [upl EXCEPT !.wake = TRUE] ELSE upl
        /\ ghost' = IF ghost.rows = n THEN ghost ELSE Noting(ghost, {"otherrow"})
    BY <1>0, <1>2 DEF Release
  <2>2. ghost' = ghost /\ n = ghost.rows
    <3>1. ASSUME ghost.rows # n PROVE FALSE
      <4> DEFINE flags == {"otherrow"}
                 g == ghost
      <4>1. ghost' = Noting(g, flags) /\ DOMAIN g = GhostFields
        BY <2>1, <3>1 DEF IInv, TabFits
      <4> HIDE DEF flags
      <4>2. flags \cap Damages = {}
        BY <4>1, Undamaged
      <4> QED BY <4>2 DEF flags, Damages
    <3> QED BY <2>1, <3>1
  <2>3. w \in Nat /\ w <= of.writeid /\ of.writeid \in Nat /\ of.id # 0
    BY <1>0, <1>2, <2>2, TabIs DEF Fresh, OpenTyped
  <2>4. DOMAIN old = RowFields /\ old.int1 \in Nat /\ old.status \in 0..3
    BY <1>2, TabIs DEF RowsFit, RowsTyped
  <2>5. /\ DOMAIN row = RowFields /\ row.after = old.after
        /\ row.status = (IF old.status = 1 THEN 0 ELSE old.status)
        /\ row.int1 = (IF old.status = 1 THEN w ELSE Larger(old.int1, w)) /\ row.int1 \in Nat
    BY <2>3, <2>4 DEF Released, RowFields, Larger
  <2> HIDE DEF row
  <2>6. /\ DOMAIN rows = DOMAIN tab.rows /\ rows[t] = row
        /\ \A i \in DOMAIN rows : i # t => rows[i] = tab.rows[i]
    BY <1>2
  <2> HIDE DEF rows
  <2>7. tab'.rows = rows /\ tab'.entries = tab.entries
    BY <2>1, TabIs DEF TabFields
  <2>8. /\ upl'.pc = upl.pc /\ upl'.t = upl.t /\ upl'.w = upl.w
        /\ upl'.wake = IF old.status = 1 THEN TRUE ELSE upl.wake
    BY <2>1, TabIs DEF SmallTyped
  <2>9. Entry' = Entry
    BY <2>7, EntryKept
  <2> DEFINE new == Row(rows, Entry)
  <2>10. EntryRow' = new
    BY <2>7, <2>9 DEF EntryRow
  <2>11. /\ new # NoRow /\ EntryRow # NoRow
         /\ EntryRow.status = old.status /\ EntryRow.int1 = old.int1
         /\ new.status = row.status /\ new.int1 = row.int1
    BY <1>2, <2>5, <2>6, RowView DEF EntryRow
  <2> HIDE DEF new
  <2>12. Arrows(Entry, rows, upl')
    <3>1. Arrows(Entry, tab.rows, upl) /\ Entering(upl') = Entering(upl) /\ Entry \notin Entering(upl)
      BY <2>8, TabIs DEF UInv, Entering, Naming
    <3>2. \A x \in Entering(upl) : x \in DOMAIN tab.rows
      BY TabIs DEF CInv, Entered, Entering
    <3> QED BY <1>2, <2>5, <2>6, <3>1, <3>2 DEF Arrows
  <2> HIDE DEF old
  <2>13. WriteId(of, new) = of.writeid /\ WriteId(of, EntryRow) = of.writeid
    BY DEF WriteId
  <2>14. Looked(new, of, upl', big)
    <3>1. Looked(EntryRow, of, upl, big)
      BY DEF UInv
    <3> QED BY <2>5, <2>8, <2>11, <2>13, <3>1 DEF Looked
  <2>15. Sent(new, of, upl')
    <3>1. Sent(EntryRow, of, upl) /\ (Sending(upl') <=> Sending(upl)) /\ upl.w \in Nat
      BY <2>8, TabIs DEF UInv, Sending, SmallTyped
    <3> QED BY <2>3, <2>4, <2>5, <2>8, <2>11, <2>13, <3>1 DEF Sent, Larger
  <2>16. Deferred(new, big) /\ Runs(big)
    BY <2>5, <2>11 DEF UInv, Deferred
  <2>17. Knows(new, of)
    <3>1. w = of.writeid => of.released
      BY <2>2, <2>3 DEF Asks
    <3>2. EntryRow.status = 0 => of.released \/ EntryRow.int1 < of.writeid
      BY <2>11 DEF UInv, Knows
    <3> QED BY <2>3, <2>4, <2>5, <2>11, <3>1, <3>2 DEF Knows, Larger
  <2> QED BY <2>2, <2>7, <2>9, <2>10, <2>12, <2>14, <2>15, <2>16, <2>17 DEF UInv
<1> QED BY <1>1, <1>2

\* A file that is left open knows what it did.
LEMMA StillReleased ==
  ASSUME NEW o, IsOpen(o), NEW d, d = psync_fs_dec_of_refcnt(o), d # NoFile
  PROVE  d.released = o.released
<1> DEFINE ref == o.ref - 1
<1>1. d = [o EXCEPT !.ref = ref]
  BY DEF psync_fs_dec_of_refcnt
<1> HIDE DEF ref
<1> QED BY <1>1 DEF IsOpen, OfFields

LEMMA TimerDueLooks ==
  ASSUME IInv, CInv, UInv, TimerDue
  PROVE  UInv'
<1>1. of # NoFile /\ of' = [of EXCEPT !.timer = "running"]
      /\ UNCHANGED <<proc, file, tab, srv, rel, upl, big, ghost>>
  BY DEF TimerDue
<1>2. Alike(of', of) /\ of'.released = of.released
  BY <1>1, SomeFileIsOpen DEF Alike, IsOpen, OfFields, NoFile
<1> QED BY <1>1, <1>2, SameFileLooks

LEMMA WriteTimerLooks ==
  ASSUME IInv, CInv, UInv, psync_fs_write_timer
  PROVE  UInv'
<1> DEFINE o == [of EXCEPT !.timer = "none"]
<1>0. /\ of # NoFile /\ of.timer = "running" /\ UNCHANGED <<proc, file, tab, srv, upl, big, ghost>>
  BY DEF psync_fs_write_timer
<1>1. IsOpen(of)
  BY <1>0, SomeFileIsOpen
<1>2. Alike(o, of) /\ IsOpen(o) /\ o.ref = of.ref /\ o.released = of.released
  BY <1>0, <1>1 DEF Alike, IsOpen, OfFields, NoFile
<1> HIDE DEF o
<1>3. CASE of.modified /\ ~of.released
  <2>1. of' = [o EXCEPT !.released = TRUE]
    BY <1>3 DEF psync_fs_write_timer, o
  <2>2. Alike(of', of) /\ of'.released = TRUE
    BY <1>2, <2>1 DEF Alike, IsOpen, OfFields, NoFile
  <2> QED BY <1>0, <2>2, ReleasedLooks
<1>4. CASE ~(of.modified /\ ~of.released)
  <2>1. of' = psync_fs_dec_of_refcnt(o) /\ rel' = rel
    BY <1>4 DEF psync_fs_write_timer, o
  <2>2. CASE of' = NoFile /\ of.ref = 1
    <3>1. rel = <<>> /\ \A p \in Procs : ~proc[p].open /\ proc[p].pc = "idle"
      BY <1>0, <2>2, NobodyCalls
    <3>2. ~Pending(of.writeid, ghost.rows, proc, rel) /\ ~Busy(proc)
      BY <3>1 DEF Pending, Busy
    <3> QED BY <1>0, <2>2, <3>2, ClosedLooks
  <2>3. CASE of' # NoFile /\ Alike(of', o)
    <3>1. of'.released = of.released
      BY <1>2, <2>1, <2>3, StillReleased
    <3>2. Alike(of', of)
      BY <1>2, <2>3 DEF Alike
    <3> QED BY <1>0, <2>1, <3>1, <3>2, SameFileLooks
  <2> QED BY <1>2, <2>1, <2>2, <2>3, ReferenceLeft
<1> QED BY <1>3, <1>4

LEMMA ReleaseTimerLooks ==
  ASSUME IInv, CInv, UInv, ~Damaged', NEW k \in DOMAIN rel, psync_fs_upload_release_timer(k)
  PROVE  UInv'
<1> DEFINE w == rel[k].w
           n == rel[k].n
<1>1. /\ rel[k].pc = "row" /\ Release(w, n) /\ rel' = [rel EXCEPT ![k].pc = "done"]
      /\ UNCHANGED <<proc, of, file, srv, big>>
  BY DEF psync_fs_upload_release_timer
<1>2. rel \in Seq(Releases) /\ \A j \in DOMAIN rel : DOMAIN rel[j] = {"w", "n", "pc"}
  <2>1. rel \in Seq(Releases)
    BY DEF IInv
  <2>2. \A j \in DOMAIN rel : rel[j] \in Releases
    BY <2>1
  <2> QED BY <2>1, <2>2 DEF Releases
<1>3. /\ DOMAIN rel' = DOMAIN rel /\ rel'[k].pc = "done"
      /\ \A j \in DOMAIN rel : j # k => rel'[j] = rel[j]
  BY <1>1, <1>2
<1>4. of # NoFile
  BY <1>2 DEF IInv, Referenced, IsOpen, NoFile, OfFields
<1>5. Fresh(w, n, of, Stage(proc), ghost.rows)
  BY <1>1 DEF CInv, Numbered
<1>6. Asked(of, proc, rel, ghost.rows)
  BY DEF UInv
<1>7. Asks(w, n, of, ghost.rows)
  BY <1>1, <1>6 DEF Asked
<1>8. Asked(of, proc', rel', ghost.rows)
  BY <1>1, <1>3, <1>6 DEF Asked
<1> QED BY <1>1, <1>4, <1>5, <1>7, <1>8, ReleaseLooks

LEMMA ReleaseEndsLooks ==
  ASSUME IInv, CInv, UInv, NEW k \in DOMAIN rel, ReleaseEnds(k)
  PROVE  UInv'
<1>0. /\ rel[k].pc = "done" /\ of' = psync_fs_dec_of_refcnt(of) /\ rel' = RemoveAt(rel, k)
      /\ UNCHANGED <<proc, file, tab, srv, upl, big, ghost>>
  BY DEF ReleaseEnds
<1>1. rel \in Seq(Releases) /\ k \in 1..Len(rel) /\ rel # <<>> /\ Len(rel) \in Nat
  BY DEF IInv
<1>2. of # NoFile
  BY <1>1 DEF IInv, Referenced, IsOpen, NoFile, OfFields
<1>3. /\ DOMAIN rel' = 1..Len(rel') /\ Len(rel') = Len(rel) - 1
      /\ \A j \in 1..Len(rel') : rel'[j] = IF j < k THEN rel[j] ELSE rel[j + 1]
  BY <1>0, <1>1, TakenOut
<1>4. IsOpen(of)
  BY <1>2, SomeFileIsOpen
<1>5. CASE of' = NoFile /\ of.ref = 1
  <2>1. Len(rel) = 1 /\ \A p \in Procs : ~proc[p].open /\ proc[p].pc = "idle"
    BY <1>1, <1>2, <1>5, NobodyCalls
  <2>2. \A j \in DOMAIN rel : rel[j].pc = "done"
    BY <1>0, <1>1, <2>1
  <2>3. ~Pending(of.writeid, ghost.rows, proc, rel) /\ ~Busy(proc)
    BY <2>1, <2>2 DEF Pending, Busy
  <2> QED BY <1>0, <1>2, <1>5, <2>3, ClosedLooks
<1>6. CASE of' # NoFile /\ Alike(of', of)
  <2>1. \A j \in DOMAIN rel' : \E i \in DOMAIN rel : rel'[j] = rel[i]
    BY <1>1, <1>3
  <2>2. of'.released = of.released
    BY <1>0, <1>4, <1>6, StillReleased
  <2> QED BY <1>0, <1>6, <2>1, <2>2, SameFileLooks
<1> QED BY <1>0, <1>4, <1>5, <1>6, ReferenceLeft

LEMMA FlushLooks ==
  ASSUME IInv, CInv, UInv, NEW p \in Procs, Flush(p)
  PROVE  UInv'
<1>0. /\ proc[p].pc = "idle" /\ proc[p].open /\ ~Locked /\ UNCHANGED <<file, tab, srv, rel, big, upl, ghost>>
      /\ proc \in [Procs -> ProcStates]
  BY DEF Flush, Idle, IInv
<1>1. of # NoFile /\ IsOpen(of) /\ proc[p] \in ProcStates
  BY <1>0, HandleHasFile, OpenIsSomeFile
<1>2. CASE of.modified
  <2> DEFINE o == [of EXCEPT !.released = TRUE]
  <2>1. of' = Disarmed(o)
    BY <1>2 DEF Flush
  <2>2. Alike(o, of) /\ DOMAIN o = OfFields /\ o.released = TRUE
    BY <1>1 DEF Alike, IsOpen, OfFields, NoFile
  <2> HIDE DEF o
  <2>3. Alike(of', of) /\ of'.released = TRUE
    <3>1. CASE o.timer = "armed"
      <4> DEFINE ref == o.ref - 1
      <4>1. of' = [o EXCEPT !.timer = "none", !.ref = ref]
        BY <2>1, <3>1 DEF Disarmed
      <4> HIDE DEF ref
      <4> QED BY <2>2, <4>1 DEF Alike, OfFields, NoFile
    <3>2. CASE o.timer # "armed"
      BY <2>1, <2>2, <3>2 DEF Disarmed
    <3> QED BY <3>1, <3>2
  <2> QED BY <1>0, <2>3, ReleasedLooks
<1>3. CASE ~of.modified /\ Call(p).op = "close"
  <2> DEFINE c == [proc[p] EXCEPT !.pc = "close"]
  <2>1. of' = of /\ proc' = [proc EXCEPT ![p] = c]
    BY <1>3 DEF Flush
  <2>2. c.pc = "close"
    BY <1>1 DEF ProcStates
  <2> HIDE DEF c
  <2>3. proc'[p] = c /\ \A x \in Procs : x # p => proc'[x] = proc[x]
    BY <1>0, <2>1, OthersStay
  <2>4. \A x \in Procs : proc'[x].pc = "flushed" => proc'[x] = proc[x]
    BY <2>2, <2>3
  <2>5. Alike(of', of) /\ of'.released = of.released
    BY <1>1, <2>1 DEF Alike
  <2> QED BY <1>0, <2>4, <2>5, SameFileLooks
<1>4. CASE ~of.modified /\ Call(p).op # "close"
  <2>1. of' = of /\ proc' = proc
    BY <1>4 DEF Flush
  <2>2. Alike(of', of) /\ of'.released = of.released
    BY <1>1, <2>1 DEF Alike
  <2> QED BY <1>0, <2>1, <2>2, SameFileLooks
<1> QED BY <1>2, <1>3, <1>4

LEMMA FlushedLooks ==
  ASSUME IInv, CInv, UInv, ~Damaged', NEW p \in Procs, Flushed(p)
  PROVE  UInv'
<1> DEFINE w == proc[p].w
           n == proc[p].n
           pc == IF Call(p).op = "close" THEN "close" ELSE "idle"
           c == [proc[p] EXCEPT !.pc = pc, !.w = 0, !.n = 0]
<1>1. /\ proc[p].pc = "flushed" /\ Release(w, n) /\ proc' = [proc EXCEPT ![p] = c]
      /\ UNCHANGED <<of, file, srv, rel, big>>
  BY DEF Flushed
<1>2. proc \in [Procs -> ProcStates] /\ proc[p] \in ProcStates /\ of # NoFile
  BY <1>1, OnlyOpenCalls, HandleHasFile, OpenIsSomeFile DEF IInv
<1>3. pc \in {"close", "idle"}
  OBVIOUS
<1> HIDE DEF pc
<1>4. c.pc = pc
  BY <1>2 DEF ProcStates
<1> HIDE DEF c
<1>5. proc'[p] = c /\ \A x \in Procs : x # p => proc'[x] = proc[x]
  BY <1>1, <1>2, OthersStay
<1>6. Fresh(w, n, of, Stage(proc), ghost.rows)
  BY <1>1 DEF CInv, Numbered
<1>7. Asked(of, proc, rel, ghost.rows)
  BY DEF UInv
<1>8. Asks(w, n, of, ghost.rows)
  BY <1>1, <1>7 DEF Asked
<1>9. Asked(of, proc', rel', ghost.rows)
  <2>1. \A x \in Procs : proc'[x].pc = "flushed" => proc'[x] = proc[x] /\ proc[x].pc = "flushed"
    BY <1>3, <1>4, <1>5
  <2> QED BY <1>1, <1>7, <2>1 DEF Asked
<1> QED BY <1>1, <1>2, <1>6, <1>8, <1>9, ReleaseLooks

LEMMA CloseLooks ==
  ASSUME IInv, CInv, UInv, NEW p \in Procs, Close(p)
  PROVE  UInv'
<1> DEFINE c == [proc[p] EXCEPT !.pc = "idle", !.open = FALSE]
<1>1. /\ proc[p].pc = "close" /\ of' = psync_fs_dec_of_refcnt(of)
      /\ UNCHANGED <<file, tab, srv, rel, upl, big, ghost>>
  BY DEF Close
<1>2. /\ proc \in [Procs -> ProcStates] /\ proc[p] \in ProcStates /\ of # NoFile /\ IsOpen(of) /\ proc[p].open
  BY <1>1, OnlyOpenCalls, HandleHasFile, OpenIsSomeFile DEF IInv
<1>3. c.pc = "idle"
  BY <1>2 DEF ProcStates
<1>4. proc' = [proc EXCEPT ![p] = c]
  BY <1>2 DEF Close, ProcStates
<1> HIDE DEF c
<1>5. proc'[p] = c /\ \A x \in Procs : x # p => proc'[x] = proc[x]
  BY <1>2, <1>4, OthersStay
<1>6. CASE of' = NoFile /\ of.ref = 1
  <2>1. rel = <<>> /\ \A q \in Procs : q # p => ~proc[q].open /\ proc[q].pc = "idle"
    <3>1. rel = <<>> /\ \A q \in Procs : proc[q].open => q = p
      BY <1>2, <1>6, LastReference
    <3> QED BY <3>1, OnlyOpenCalls
  <2>2. ~Pending(of.writeid, ghost.rows, proc, rel) /\ ~Busy(proc)
    BY <1>1, <2>1 DEF Pending, Busy
  <2> QED BY <1>1, <1>2, <1>6, <2>2, ClosedLooks
<1>7. CASE of' # NoFile /\ Alike(of', of)
  <2>1. of'.released = of.released
    BY <1>1, <1>2, <1>7, StillReleased
  <2>2. \A x \in Procs : proc'[x].pc = "flushed" => proc'[x] = proc[x]
    BY <1>3, <1>5
  <2> QED BY <1>1, <1>7, <2>1, <2>2, SameFileLooks
<1> QED BY <1>1, <1>2, <1>6, <1>7, ReferenceLeft

----------------------------------------------------------------------------
(* Calls that write.                                                       *)

\* A file with a row is written: its row is taken back, or its release was
\* overtaken before and is again.
LEMMA WriteLooks ==
  ASSUME IInv, CInv, UInv, of # NoFile, Entry \in DOMAIN tab.rows, Stage(proc) = "none",
         UNCHANGED <<rel, upl>>, tab'.entries = tab.entries, NEW rows, tab'.rows = rows,
         DOMAIN rows = DOMAIN tab.rows, RowsKept(rows, tab.rows, Entry),
         \A x \in DOMAIN rows : rows[x].after = tab.rows[x].after,
         rows[Entry].int1 = tab.rows[Entry].int1, rows[Entry].status \in {1, tab.rows[Entry].status},
         rows[Entry].status = 0 => ~of.released,
         NEW stop, big' \in {big, [big EXCEPT !.stop = stop]},
         of' # NoFile, of'.writeid \in Nat, of'.writeid > of.writeid, ghost'.rows = ghost.rows,
         \A p \in Procs : proc'[p].pc = "flushed" => proc'[p] = proc[p]
  PROVE  UInv'
<1>1. Entry' = Entry
  BY EntryKept
<1> DEFINE row == Row(rows, Entry)
<1>2. EntryRow' = row
  BY <1>1 DEF EntryRow
<1>3. /\ row # NoRow /\ EntryRow # NoRow /\ row.int1 = EntryRow.int1 /\ row.int1 \in Nat
      /\ row.status \in {1, EntryRow.status} /\ (row.status = 0 => ~of.released)
  BY RowView, EntryWriteId DEF EntryRow
<1> HIDE DEF row
<1>4. big'.pc = big.pc /\ big'.current = big.current
  BY TabIs DEF LargeTyped
<1>5. of.id = Entry /\ Entry # 0 /\ of.writeid \in Nat /\ upl.w \in Nat
  BY TabIs DEF Naming, OpenTyped, SmallTyped
<1>6. WriteId(of', row) = of'.writeid /\ WriteId(of, EntryRow) = of.writeid
  BY DEF WriteId
<1>7. EntryRow.int1 <= of.writeid
  BY <1>5 DEF CInv, Settles
<1>8. Sending(upl) => upl.w <= of.writeid
  BY <1>5, <1>6 DEF CInv, Small
<1>9. Arrows(Entry, rows, upl)
  <2>1. \A x \in Entering(upl) : x \in DOMAIN tab.rows
    BY DEF CInv, Entered, Entering
  <2> QED BY <2>1 DEF UInv, Arrows
<1>10. Looked(row, of', upl, big')
  <2> SUFFICES ASSUME row.status = 0, ~upl.wake, ~SendingLarge(big),
                      upl.pc \notin {"send", "rest", "check", "defer", "cache", "del"}
               PROVE  FALSE
    BY <1>4 DEF Looked, SendingLarge
  <2>1. EntryRow.status = 0 /\ ~of.released
    BY <1>3
  <2>2. upl.pc = "answer" /\ of.writeid = upl.w
    BY <1>3, <1>6, <2>1 DEF UInv, Looked
  <2>3. EntryRow.int1 < of.writeid
    BY <1>3, <2>1 DEF UInv, Knows
  <2>4. upl.w <= EntryRow.int1 \/ upl.w < of.writeid
    BY <1>6, <2>2 DEF UInv, Sent, Sending
  <2> QED BY <1>3, <1>5, <2>2, <2>3, <2>4
<1>11. Sent(row, of', upl)
  BY <1>5, <1>6, <1>8 DEF Sent
<1>12. Deferred(row, big') /\ Runs(big')
  BY <1>3, <1>4 DEF UInv, Deferred, Runs, SendingLarge
<1>13. Knows(row, of')
  BY <1>3, <1>5, <1>7 DEF Knows
<1>14. Asked(of', proc', rel', ghost'.rows)
  <2>1. Numbered(of, "none", proc, rel, ghost.rows)
    BY DEF CInv
  <2>2. ASSUME NEW w, NEW n, Fresh(w, n, of, "none", ghost.rows) PROVE Asks(w, n, of', ghost.rows)
    BY <1>5, <2>2 DEF Fresh, Asks
  <2> QED BY <2>1, <2>2 DEF Numbered, Asked
<1> QED BY <1>1, <1>2, <1>9, <1>10, <1>11, <1>12, <1>13, <1>14 DEF UInv

\* A program that may write has the file open.
LEMMA BusyHasFile ==
  ASSUME NEW o, NEW pr, NEW r, Referenced(o, pr, r), Busy(pr)
  PROVE  o # NoFile
<1> SUFFICES ASSUME o = NoFile PROVE FALSE
  OBVIOUS
<1>1. Handles(pr) = 0
  BY OpenIsSomeFile DEF Referenced
<1> QED BY <1>1 DEF Busy, Handles, Procs

\* A call that has the mutex makes a row and its data file, which nobody has
\* released.
LEMMA MakingLooks ==
  ASSUME IInv', CInv', UInv, Busy(proc'), Stage(proc') # "none", Arrows(Entry', tab'.rows, upl'), big' = big
  PROVE  UInv'
<1>1. of' # NoFile
  BY BusyHasFile DEF IInv
<1>2. EntryRow'.status = 1
  BY <1>1 DEF CInv, OpenShows
<1>3. ~Sending(upl')
  BY DEF CInv, Small
<1>4. Asked(of', proc', rel', ghost'.rows)
  <2>1. Numbered(of', Stage(proc'), proc', rel', ghost'.rows)
    BY DEF CInv
  <2>2. ASSUME NEW w, NEW n, Fresh(w, n, of', Stage(proc'), ghost'.rows) PROVE Asks(w, n, of', ghost'.rows)
    BY <2>2 DEF Fresh, Asks
  <2> QED BY <2>1, <2>2 DEF Numbered, Asked
<1>5. Looked(EntryRow', of', upl', big') /\ Sent(EntryRow', of', upl') /\ Deferred(EntryRow', big')
  BY <1>2, <1>3 DEF Looked, Sent, Deferred
<1>6. Knows(EntryRow', of')
  BY <1>1, <1>2 DEF Knows
<1>7. Runs(big')
  BY DEF UInv
<1> QED BY <1>4, <1>5, <1>6, <1>7 DEF UInv

\* A program writes to a file that it may write to, or the size stays.
LEMMA ChangeLooks ==
  ASSUME IInv, CInv, UInv, NEW p \in Procs, Change(p),
         of.modified \/ (Call(p).op = "size" /\ of.size = Call(p).at)
  PROVE  UInv'
<1>0. /\ proc[p].open /\ ~Locked /\ UNCHANGED <<srv, rel, upl>>
      /\ Call(p).op \in {"write", "size"} /\ user.scripts[p] # <<>>
  BY DEF Change, Idle
<1>1. of # NoFile /\ IsOpen(of) /\ Stage(proc) = "none" /\ OpenTyped(of)
  BY <1>0, HandleHasFile, OpenIsSomeFile, Unlocked, TabIs
<1>2. CASE Call(p).op = "size" /\ of.size = Call(p).at
  <2>1. UNCHANGED <<proc, of, file, tab, big, ghost>>
    BY <1>2 DEF Change
  <2>2. Alike(of', of)
    BY <1>1, <2>1 DEF Alike
  <2> QED BY <1>0, <2>1, <2>2, SameFileLooks
<1>3. CASE ~(Call(p).op = "size" /\ of.size = Call(p).at) /\ of.modified
  <2> DEFINE i == psync_fs_inc_writeid_locked(of)
             f == file[of.id]
             c == Call(p)
             s == Applied([o |-> i, f |-> f], c)
             t == of.id
             rows == IF of.released THEN WithStatus(tab.rows, t, 1) ELSE tab.rows
             e == Expected(c)
  <2>1. psync_fsupload_stop_upload_locked /\ of' = s.o /\ ghost' = e /\ proc' = proc
    BY <1>3 DEF Change
  <2>2. t # 0 /\ t = Entry /\ t \in DOMAIN tab.rows
    <3>1. t # 0
      BY <1>1, <1>3 DEF CInv, OpenShows, OpenTyped
    <3> QED BY <1>1, <3>1, TabIs DEF Naming
  <2>3. IsOpen(i) /\ OpenTyped(i) /\ i # NoFile /\ i.writeid = of.writeid + 1
    BY <1>1, WriteIdGrows
  <2> HIDE DEF i, f
  <2>4. Leaves(s, i)
    BY <2>3, AppliedLeaves DEF IsOpen
  <2> HIDE DEF s
  <2>5. of' # NoFile /\ of'.writeid \in Nat /\ of'.writeid > of.writeid
    <3>1. IsOpen(of')
      BY <2>1, <2>3, <2>4, SameIsOpen DEF Leaves
    <3>2. of'.writeid = of.writeid + 1 /\ of.writeid \in Nat
      BY <1>1, <2>1, <2>3, <2>4 DEF Leaves, Same, OpenTyped
    <3> QED BY <3>1, <3>2, OpenIsSomeFile
  <2>6. ghost'.rows = ghost.rows
    <3> HIDE DEF c
    <3>1. c.op \in {"write", "size", "trunc"}
      BY <1>0 DEF c
    <3> HIDE DEF e
    <3>2. ghost' = e /\ e = Expected(c)
      BY <2>1 DEF e
    <3> QED BY <3>1, <3>2, ExpectedIs
  <2>7. /\ DOMAIN rows = DOMAIN tab.rows /\ RowsKept(rows, tab.rows, t)
        /\ \A x \in DOMAIN rows : rows[x].after = tab.rows[x].after
        /\ rows[t].int1 = tab.rows[t].int1 /\ rows[t].status \in {1, tab.rows[t].status}
        /\ rows[t].status = 0 => ~of.released
    <3>1. CASE of.released
      <4>1. rows = WithStatus(tab.rows, t, 1) /\ RowsFit(tab.rows, ghost.rows) /\ RowsTyped(tab.rows)
        BY <3>1, TabIs
      <4> HIDE DEF rows, t
      <4>2. DOMAIN rows = DOMAIN tab.rows /\ \A x \in DOMAIN rows : rows[x].after = tab.rows[x].after
        BY <4>1, AfterMarked
      <4>3. /\ RowsKept(rows, tab.rows, t) /\ rows[t].status = 1 /\ rows[t].int1 = tab.rows[t].int1
        BY <2>2, <4>1, RowsMarked
      <4> QED BY <4>2, <4>3
    <3>2. CASE ~of.released
      BY <3>2 DEF RowsKept
    <3> QED BY <3>1, <3>2
  <2>8. tab'.rows = rows /\ tab'.entries = tab.entries
    <3>1. CASE of.released
      <4>1. tab' = [tab EXCEPT !.rows = rows]
        BY <2>1, <3>1 DEF psync_fsupload_stop_upload_locked
      <4> HIDE DEF rows
      <4> QED BY <4>1, TabIs DEF TabFields
    <3>2. CASE ~of.released
      BY <2>1, <3>2 DEF psync_fsupload_stop_upload_locked
    <3> QED BY <3>1, <3>2
  <2> HIDE DEF rows
  <2>9. big' \in {big, [big EXCEPT !.stop = TRUE]}
    BY <2>1 DEF psync_fsupload_stop_upload_locked
  <2> HIDE DEF t, e
  <2> QED BY <1>0, <1>1, <2>1, <2>2, <2>5, <2>6, <2>7, <2>8, <2>9, WriteLooks
<1> QED BY <1>2, <1>3

\* The data file of a new row is created, and filled.
LEMMA CreateFilesLooks ==
  ASSUME IInv, CInv, UInv, NEW p \in Procs, CreateFiles(p)
  PROVE  UInv'
<1> DEFINE k == [proc[p] EXCEPT !.pc = "fill"]
<1>0. /\ proc[p].pc = "create" /\ proc' = [proc EXCEPT ![p] = k]
      /\ UNCHANGED <<of, tab, srv, rel, upl, big, ghost>>
  BY DEF CreateFiles
<1>1. /\ proc \in [Procs -> ProcStates] /\ proc[p] \in ProcStates
  BY DEF IInv
<1>2. k.pc = "fill"
  BY <1>1 DEF ProcStates
<1> HIDE DEF k
<1>3. proc'[p] = k /\ \A x \in Procs : x # p => proc'[x] = proc[x]
  BY <1>0, <1>1, OthersStay
<1>4. of # NoFile
  BY <1>0, OnlyOpenCalls, HandleHasFile, OpenIsSomeFile
<1>5. Alike(of', of)
  BY <1>0, <1>4 DEF Alike
<1>6. \A x \in Procs : proc'[x].pc = "flushed" => proc'[x] = proc[x]
  BY <1>2, <1>3
<1> QED BY <1>0, <1>5, <1>6, SameFileLooks

LEMMA FillLooks ==
  ASSUME IInv, IInv', CInv, UInv, NEW p \in Procs, Fill(p)
  PROVE  UInv'
<1> DEFINE k == [proc[p] EXCEPT !.pc = "idle"]
<1>0. /\ proc[p].pc = "fill" /\ proc' = [proc EXCEPT ![p] = k] /\ UNCHANGED <<tab, srv, rel, upl, big>>
  BY DEF Fill
<1>1. /\ proc \in [Procs -> ProcStates] /\ proc[p] \in ProcStates /\ proc[p].open
      /\ of # NoFile /\ Call(p).op \in {"write", "size"}
  <2>1. CallFits(user.scripts[p], proc[p], of) /\ proc[p].open
    BY <1>0, OnlyOpenCalls DEF IInv
  <2> QED BY <1>0, <2>1, HandleHasFile, OpenIsSomeFile DEF IInv, CallFits, Call
<1>2. k.pc = "idle" /\ k.open
  BY <1>1 DEF ProcStates
<1> HIDE DEF k
<1>3. proc'[p] = k /\ \A x \in Procs : x # p => proc'[x] = proc[x]
  BY <1>0, <1>1, OthersStay
<1>4. of' # NoFile
  <2>1. Busy(proc')
    BY <1>2, <1>3 DEF Busy
  <2> QED BY <2>1, BusyHasFile DEF IInv
<1>5. Stage(proc) # "none"
  BY <1>0 DEF Stage
<1>6. EntryRow.status = 1 /\ ~Sending(upl)
  <2>1. EntryRow.status = 1
    BY <1>1, <1>5 DEF CInv, OpenShows
  <2>2. ~Sending(upl)
    BY <1>5 DEF CInv, Small
  <2> QED BY <2>1, <2>2
<1>7. ghost'.rows = ghost.rows
  <2> DEFINE flags == {"uncopied"}
             c == Call(p)
             e == Expected(c)
  <2>1. ghost' = Noting(ghost, flags) \/ ghost' = e
    BY DEF Fill
  <2> HIDE DEF flags, c, e
  <2>2. e = Expected(c) /\ c.op \in {"write", "size", "trunc"}
    BY <1>1 DEF e, c
  <2>3. e.rows = ghost.rows
    BY <2>2, ExpectedIs
  <2>4. Noting(ghost, flags).rows = ghost.rows
    BY DEF Noting, IInv, TabFits, GhostFields
  <2> QED BY <2>1, <2>3, <2>4
<1>8. Asked(of', proc', rel', ghost'.rows)
  <2>1. Numbered(of, Stage(proc), proc, rel, ghost.rows)
    BY DEF CInv
  <2>2. ASSUME NEW w, NEW n, Fresh(w, n, of, Stage(proc), ghost.rows) PROVE Asks(w, n, of', ghost.rows)
    BY <1>5, <2>2 DEF Fresh, Asks
  <2>3. \A x \in Procs : proc'[x].pc = "flushed" => proc'[x] = proc[x]
    BY <1>2, <1>3
  <2> QED BY <1>0, <1>7, <2>1, <2>2, <2>3 DEF Numbered, Asked
<1>9. Entry' = Entry /\ EntryRow' = EntryRow
  BY <1>0, EntryKept DEF EntryRow
<1>10. /\ Looked(EntryRow, of', upl, big) /\ Sent(EntryRow, of', upl) /\ Deferred(EntryRow, big)
       /\ Knows(EntryRow, of')
  BY <1>4, <1>6 DEF Looked, Sent, Deferred, Knows
<1> QED BY <1>0, <1>8, <1>9, <1>10 DEF UInv

----------------------------------------------------------------------------
(* Calls that make a row, and psync_fs_open.                               *)

\* The row of a name that the overlay did not have waits for the one whose answer
\* is being entered.
LEMMA NewRowLooks ==
  ASSUME IInv, CInv, UInv, Entry = 0, upl' = upl, NEW t, t = NewId, NEW row, row.after = Live(tab.rows),
         NEW entries, entries = <<t>>,
         tab'.rows = Extended(tab.rows, t, row), tab'.entries = entries
  PROVE  Entry' = t /\ EntryRow'.status = row.status /\ EntryRow' # NoRow /\ Arrows(Entry', tab'.rows, upl')
<1>1. t \notin DOMAIN tab.rows
  BY NewIdNew
<1>2. /\ DOMAIN tab'.rows = DOMAIN tab.rows \cup {t} /\ tab'.rows[t] = row
      /\ \A x \in DOMAIN tab.rows : tab'.rows[x] = tab.rows[x]
  BY <1>1 DEF Extended
<1>3. Entry' = t
  <2>1. entries # <<>> /\ Head(entries) = t
    OBVIOUS
  <2> QED BY <2>1 DEF Entry
<1>4. Live(tab.rows) = Entering(upl) /\ Entering(upl) \subseteq DOMAIN tab.rows
  <2>1. Live(tab.rows) \subseteq Entering(upl)
    BY TabIs DEF Naming, Live
  <2>2. Entering(upl) \subseteq Live(tab.rows) /\ Entering(upl) \subseteq DOMAIN tab.rows
    BY DEF CInv, Entered, Entering, Live
  <2> QED BY <2>1, <2>2
<1>5. Arrows(Entry', tab'.rows, upl')
  BY <1>2, <1>3, <1>4 DEF UInv, Arrows
<1>6. EntryRow' # NoRow /\ EntryRow'.status = row.status
  BY <1>2, <1>3, RowView DEF EntryRow
<1> QED BY <1>3, <1>5, <1>6

LEMMA ReopenLooks ==
  ASSUME IInv, IInv', CInv, CInv', UInv, NEW p \in Procs, proc[p].open, proc[p].pc = "idle", ~Locked,
         ~of.modified, UNCHANGED <<srv, rel, upl>>, psync_fs_reopen_file_for_writing(p)
  PROVE  UInv'
<1> DEFINE t == NewId
           k == [proc[p] EXCEPT !.pc = "create"]
           hash == of.hash
           plain == NewRow("creat", hash)
           arrow == [NewRow("modify", hash) EXCEPT !.after = @ \cup ({Entry} \ {0})]
           entries == <<t>>
<1>1. of # NoFile /\ proc \in [Procs -> ProcStates] /\ proc[p] \in ProcStates /\ Stage(proc) = "none"
  BY HandleHasFile, OpenIsSomeFile, Unlocked DEF CInv, IInv
<1>2. of.id = 0 /\ Entry = 0
  <2>1. OpenShows(EntryRow, EntryData, of, "none", ghost.last)
    BY <1>1 DEF CInv
  <2> QED BY <1>1, <2>1, TabIs DEF OpenShows, Naming
<1>3. proc' = [proc EXCEPT ![p] = k] /\ big' = big
  BY DEF psync_fs_reopen_file_for_writing
<1>4. k.pc = "create" /\ k.open
  BY <1>1 DEF ProcStates
<1> HIDE DEF k
<1>5. proc'[p] = k
  BY <1>1, <1>3
<1>6. Busy(proc') /\ Stage(proc') # "none"
  BY <1>4, <1>5 DEF Busy, Stage
<1>7. tab.entries = <<>>
  BY <1>2, EntryIs DEF CInv
<1>8. plain.after = Live(tab.rows) /\ arrow.after = Live(tab.rows)
  BY <1>2 DEF NewRow
<1>9. \E row \in {plain, arrow} :
        tab' = [tab EXCEPT !.rows = Extended(tab.rows, t, row), !.entries = entries, !.lost = FALSE]
  <2>1. CASE tab' = psync_fstask_add_creat(hash)
    <3>1. tab' = [tab EXCEPT !.rows = Extended(tab.rows, t, plain), !.entries = entries, !.lost = FALSE]
      BY <1>7, <2>1 DEF psync_fstask_add_creat
    <3> HIDE DEF plain, arrow
    <3> QED BY <3>1
  <2>2. CASE tab' = psync_fstask_add_modified_file(hash)
    <3>1. tab' = [tab EXCEPT !.rows = Extended(tab.rows, t, arrow), !.entries = entries, !.lost = FALSE]
      BY <1>7, <2>2 DEF psync_fstask_add_modified_file, WithoutEntry
    <3> HIDE DEF plain, arrow
    <3> QED BY <3>1
  <2>3. tab' = psync_fstask_add_creat(hash) \/ tab' = psync_fstask_add_modified_file(hash)
    BY DEF psync_fs_reopen_file_for_writing
  <2> QED BY <2>1, <2>2, <2>3
<1> HIDE DEF plain, arrow
<1>10. PICK row \in {plain, arrow} :
         tab' = [tab EXCEPT !.rows = Extended(tab.rows, t, row), !.entries = entries, !.lost = FALSE]
  BY <1>9
<1> DEFINE rows == Extended(tab.rows, t, row)
<1>11. tab'.rows = rows /\ tab'.entries = entries
  <2>1. tab' = [tab EXCEPT !.rows = rows, !.entries = entries, !.lost = FALSE]
    BY <1>10
  <2> HIDE DEF rows, entries
  <2> QED BY <2>1, TabIs DEF TabFields
<1>12. row.after = Live(tab.rows) /\ t = NewId /\ entries = <<t>> /\ tab'.rows = Extended(tab.rows, t, row)
  BY <1>8, <1>10, <1>11
<1> HIDE DEF t, rows, entries
<1>13. Arrows(Entry', tab'.rows, upl')
  BY <1>2, <1>11, <1>12, NewRowLooks
<1> QED BY <1>3, <1>6, <1>13, MakingLooks

LEMMA RecreateLooks ==
  ASSUME IInv, CInv, UInv, NEW p \in Procs, Entry = 0, Recreate(p), UNCHANGED <<srv, upl, rel>>,
         \A x \in Procs : proc'[x].pc = "flushed" => proc'[x] = proc[x]
  PROVE  UInv'
<1> DEFINE t == NewId
           hash == <<>>
           row == NewRow("creat", hash)
           rows == Extended(tab.rows, t, row)
           entries == <<t>>
           zero == 0
           yes == TRUE
           e == psync_fs_create_file(t, yes, zero, hash, zero)
<1>0. of = NoFile /\ tab' = psync_fstask_add_creat(hash) /\ of' = e /\ big' = big
  BY DEF Recreate
<1>1. tab.entries = <<>> /\ t \in Nat
  BY NewIdNew, TabIs, EntryIs DEF CInv
<1>2. row.status = 1 /\ row.after = Live(tab.rows)
  BY DEF NewRow
<1>3. tab' = [tab EXCEPT !.rows = rows, !.entries = entries, !.lost = FALSE]
  BY <1>0, <1>1 DEF psync_fstask_add_creat
<1> HIDE DEF row
<1>4. of' # NoFile
  <2> HIDE DEF t, yes, zero, hash
  <2>1. Makes(e, t, yes, zero, hash, zero)
    BY <1>1, Created
  <2> QED BY <1>0, <2>1 DEF Makes, NoFile, OfFields
<1> HIDE DEF e
<1>5. tab'.rows = rows /\ tab'.entries = entries
  <2> HIDE DEF rows, entries
  <2> QED BY <1>3, TabIs DEF TabFields
<1>6. t = NewId /\ entries = <<t>> /\ tab'.rows = Extended(tab.rows, t, row)
  BY <1>5
<1> HIDE DEF t, rows, entries, hash
<1>7. EntryRow'.status = 1 /\ EntryRow' # NoRow /\ Arrows(Entry', tab'.rows, upl')
  BY <1>2, <1>5, <1>6, NewRowLooks
<1>8. ~Sending(upl)
  <2>1. EntryRow = NoRow
    BY TabIs DEF EntryRow, Row
  <2> QED BY <2>1 DEF CInv, Small
<1>9. Asked(of', proc', rel', ghost'.rows)
  BY <1>0, NobodyHas DEF Asked
<1>10. /\ Looked(EntryRow', of', upl', big') /\ Sent(EntryRow', of', upl') /\ Deferred(EntryRow', big')
       /\ Knows(EntryRow', of')
  BY <1>4, <1>7, <1>8 DEF Looked, Sent, Deferred, Knows
<1>11. Runs(big')
  BY <1>0 DEF UInv
<1> QED BY <1>7, <1>9, <1>10, <1>11 DEF UInv

LEMMA OpenServerLooks ==
  ASSUME IInv, CInv, UInv, Entry = 0, OpenServer, UNCHANGED <<srv, upl, rel>>,
         \A x \in Procs : proc'[x].pc = "flushed" => proc'[x] = proc[x]
  PROVE  UInv'
<1>0. UNCHANGED <<file, tab, big, ghost>>
  BY DEF OpenServer
<1>1. CASE of # NoFile
  <2> DEFINE ref == of.ref + 1
  <2>1. of' = [of EXCEPT !.ref = ref] /\ IsOpen(of)
    BY <1>1, SomeFileIsOpen DEF OpenServer
  <2> HIDE DEF ref
  <2>2. Alike(of', of) /\ of'.released = of.released
    BY <1>1, <2>1 DEF Alike, IsOpen, OfFields, NoFile
  <2> QED BY <1>0, <2>2, SameFileLooks
<1>2. CASE of = NoFile
  <2>1. EntryRow = NoRow
    BY TabIs DEF EntryRow, Row
  <2>2. ~Sending(upl)
    BY <2>1 DEF CInv, Small
  <2>3. Asked(of', proc', rel', ghost'.rows)
    BY <1>2, NobodyHas DEF Asked
  <2>4. Knows(EntryRow, of')
    BY <2>1 DEF Knows
  <2> QED BY <1>0, <2>1, <2>2, <2>3, <2>4, FileLooks
<1> QED BY <1>1, <1>2

\* A file that waits to be uploaded is opened, and knows whether it was released.
LEMMA OpenTaskLooks ==
  ASSUME IInv, CInv, UInv, ~Known({"forgotten"})', NEW p \in Procs, Call(p).op \in {"open", "trunc"},
         Entry \in DOMAIN tab.rows, OpenTask(p, Entry), UNCHANGED <<srv, rel, upl>>, Stage(proc) = "none",
         \A x \in Procs : proc'[x].pc = "flushed" => proc'[x] = proc[x]
  PROVE  UInv'
<1> DEFINE t == Entry
           c == Call(p)
           trunc == c.op = "trunc"
           row == tab.rows[t]
           f == IF trunc THEN [d |-> <<>>, i |-> {}] ELSE DataOf(t)
           loses == trunc /\ of = NoFile /\ f # DataOf(t) /\ InFlight(t)
           flags == (IF loses THEN {"truncated"} ELSE {}) \cup (IF Forgets(t) THEN {"forgotten"} ELSE {})
           g == IF trunc THEN Expected(c) ELSE ghost
           released == row.status # 1
           o == [OpenFile(t) EXCEPT !.released = released]
<1>1. ghost' = Noting(g, flags)
  BY DEF OpenTask
<1>2. DOMAIN g = GhostFields /\ g.rows = ghost.rows
  <2>1. CASE trunc
    <3> HIDE DEF c
    <3>1. g = Expected(c) /\ c.op \in {"write", "size", "trunc"}
      BY <2>1
    <3> HIDE DEF g
    <3> QED BY <2>1, <3>1, ExpectedIs
  <2>2. CASE ~trunc
    BY <2>2 DEF IInv, TabFits
  <2> QED BY <2>1, <2>2
<1> HIDE DEF g
<1>3. ~Forgets(t)
  <2> SUFFICES ASSUME Forgets(t) PROVE FALSE
    OBVIOUS
  <2>1. "forgotten" \in flags
    OBVIOUS
  <2> HIDE DEF flags
  <2>2. "forgotten" \in ghost'.known
    BY <1>1, <1>2, <2>1 DEF Noting, GhostFields
  <2> QED BY <2>2 DEF Known
<1> HIDE DEF flags
<1>4. ghost'.rows = ghost.rows
  BY <1>1, <1>2 DEF Noting, GhostFields
<1>5. EntryRow # NoRow /\ EntryRow.status = row.status /\ EntryRow.int1 = row.int1 /\ t \in Nat
  BY EntryWriteId, RowView DEF EntryRow
<1>6. Sending(upl) => EntryRow # NoRow
  BY <1>5
<1>7. CASE of = NoFile
  <2> DEFINE creat == row.type = "creat"
             zero == 0
             base == row.base
             w == row.int1
             made == psync_fs_create_file(t, creat, zero, base, w)
             n == Len(f.d)
             i == f.i
             initial == IF trunc \/ o.newfile THEN 0 ELSE Len(o.hash)
  <2>1. o = [made EXCEPT !.released = released]
    BY <1>7 DEF OpenFile
  <2>2. /\ UNCHANGED <<tab, big>>
        /\ of' = [o EXCEPT !.size = n, !.local = i, !.initial = initial]
    BY <1>7 DEF OpenTask
  <2>3. Makes(made, t, creat, zero, base, w)
    <3> DEFINE z == made
    <3>1. z = psync_fs_create_file(t, creat, zero, base, w) /\ t \in Nat
      BY <1>5
    <3> HIDE DEF z, t, creat, zero, base, w
    <3>2. Makes(z, t, creat, zero, base, w)
      BY <3>1, Created
    <3> QED BY <3>2 DEF z, t, creat, zero, base, w
  <2> HIDE DEF n, i, initial, f, made, released
  <2>4. DOMAIN of' = OfFields /\ of'.writeid = w /\ of'.released = released
    BY <2>1, <2>2, <2>3 DEF Makes, OfFields
  <2>5. of' # NoFile
    BY <2>4 DEF NoFile, OfFields
  <2>6. WriteId(of', EntryRow) = WriteId(of, EntryRow)
    BY <1>5, <1>7, <2>4, <2>5 DEF WriteId
  <2>7. Knows(EntryRow, of')
    <3>1. row.status = 0 => released = TRUE
      BY DEF released
    <3> HIDE DEF row, o
    <3> QED BY <1>5, <2>4, <2>5, <3>1 DEF Knows
  <2>8. Asked(of', proc', rel', ghost'.rows)
    BY <1>7, NobodyHas DEF Asked
  <2> QED BY <1>6, <2>2, <2>6, <2>7, <2>8, FileLooks
<1>8. CASE of # NoFile
  <2>1. IsOpen(of) /\ of.ref \in Nat /\ OpenTyped(of) /\ of.id = t
    BY <1>8, SomeFileIsOpen, TabIs DEF IsOpen, Naming
  <2> DEFINE ref == of.ref + 1
             one == [of EXCEPT !.ref = ref]
  <2>2. o = [one EXCEPT !.released = released]
    BY <1>8 DEF OpenFile
  <2>3. released \in BOOLEAN /\ ref \in Nat
    BY <2>1
  <2>4. IsOpen(o) /\ Alike(o, of) /\ OpenTyped(o) /\ o.released = released
    <3> HIDE DEF ref, released
    <3>1. /\ DOMAIN o = OfFields /\ o.id = of.id /\ o.ref = ref /\ o.timer = of.timer /\ o.writeid = of.writeid
          /\ o.newfile = of.newfile /\ o.modified = of.modified /\ o.hash = of.hash
          /\ o.initial = of.initial /\ o.size = of.size /\ o.local = of.local /\ o.released = released
      BY <2>1, <2>2 DEF IsOpen, OfFields
    <3> HIDE DEF o
    <3>2. IsOpen(o) /\ o # NoFile
      BY <2>1, <2>3, <3>1, OpenIsSomeFile DEF IsOpen
    <3> QED BY <1>8, <2>1, <3>1, <3>2 DEF OpenTyped, Alike
  <2>5. CASE trunc /\ o.size > 0
    <3> DEFINE j == psync_fs_inc_writeid_locked(o)
               h == file[t]
               d == [op |-> "size", at |-> 0, v |-> 0]
               s == psync_fs_ftruncate_of_locked([o |-> j, f |-> h], 0)
               rows == IF released THEN WithStatus(tab.rows, t, 1) ELSE tab.rows
    <3>1. /\ of' = s.o
          /\ IF released
             THEN /\ big' = IF big.current = t THEN [big EXCEPT !.stop = TRUE] ELSE big
                  /\ tab' = [tab EXCEPT !.rows = WithStatus(@, t, 1)]
             ELSE UNCHANGED <<tab, big>>
      BY <1>8, <2>4, <2>5 DEF OpenTask
    <3>2. s = Applied([o |-> j, f |-> h], d)
      BY DEF Applied
    <3>3. IsOpen(j) /\ j.writeid = o.writeid + 1 /\ DOMAIN j = OfFields
      <4> HIDE DEF o
      <4>1. o # NoFile
        BY <2>4 DEF Alike
      <4> QED BY <2>4, <4>1, WriteIdGrows DEF IsOpen
    <3> HIDE DEF j, h, d, s
    <3>4. Leaves(s, j)
      BY <3>2, <3>3, AppliedLeaves
    <3>5. of' # NoFile /\ of'.writeid \in Nat /\ of'.writeid > of.writeid
      <4> HIDE DEF o
      <4>1. IsOpen(of')
        BY <3>1, <3>3, <3>4, SameIsOpen DEF Leaves
      <4>2. of'.writeid = of.writeid + 1 /\ of.writeid \in Nat
        BY <1>8, <2>1, <2>4, <3>1, <3>3, <3>4 DEF Leaves, Same, OpenTyped, Alike
      <4> QED BY <4>1, <4>2, OpenIsSomeFile
    <3>6. /\ DOMAIN rows = DOMAIN tab.rows /\ RowsKept(rows, tab.rows, t)
          /\ \A x \in DOMAIN rows : rows[x].after = tab.rows[x].after
          /\ rows[t].int1 = tab.rows[t].int1 /\ rows[t].status = 1
      <4>1. CASE released
        <5>1. rows = WithStatus(tab.rows, t, 1) /\ RowsFit(tab.rows, ghost.rows) /\ RowsTyped(tab.rows)
              /\ t \in DOMAIN tab.rows
          BY <4>1, TabIs
        <5> HIDE DEF rows, t
        <5>2. DOMAIN rows = DOMAIN tab.rows /\ \A x \in DOMAIN rows : rows[x].after = tab.rows[x].after
          BY <5>1, AfterMarked
        <5>3. /\ RowsKept(rows, tab.rows, t) /\ rows[t].status = 1 /\ rows[t].int1 = tab.rows[t].int1
          BY <5>1, RowsMarked
        <5> QED BY <5>2, <5>3
      <4>2. CASE ~released
        BY <4>2 DEF RowsKept
      <4> QED BY <4>1, <4>2
    <3>7. tab'.rows = rows /\ tab'.entries = tab.entries
      <4>1. CASE released
        <5>1. tab' = [tab EXCEPT !.rows = rows]
          BY <3>1, <4>1
        <5> HIDE DEF rows
        <5> QED BY <5>1, TabIs DEF TabFields
      <4>2. CASE ~released
        BY <3>1, <4>2
      <4> QED BY <4>1, <4>2
    <3> HIDE DEF rows
    <3>8. big' \in {big, [big EXCEPT !.stop = TRUE]}
      BY <3>1
    <3>9. rows[Entry].status \in {1, tab.rows[Entry].status} /\ (rows[Entry].status = 0 => ~of.released)
      BY <3>6
    <3> HIDE DEF o, released
    <3> QED BY <1>4, <1>8, <3>5, <3>6, <3>7, <3>8, <3>9, WriteLooks
  <2>6. CASE ~(trunc /\ o.size > 0)
    <3>1. of' = o /\ UNCHANGED <<file, tab, big>>
      BY <1>8, <2>6 DEF OpenTask
    <3> HIDE DEF o
    <3>2. WriteId(of', EntryRow) = WriteId(of, EntryRow)
      BY <2>4, <3>1 DEF WriteId, Alike
    <3>3. Knows(EntryRow, of')
      <4>1. row.status = 0 => released = TRUE
        OBVIOUS
      <4> HIDE DEF row, released
      <4> QED BY <1>5, <2>4, <3>1, <4>1 DEF Knows, Alike
    <3>4. of.released => of'.released
      BY <1>3, <1>8, <2>4, <3>1 DEF Forgets
    <3>5. Asked(of', proc', rel', ghost'.rows)
      <4>1. Asked(of, proc, rel, ghost.rows)
        BY DEF UInv
      <4>2. ASSUME NEW x, NEW y, Asks(x, y, of, ghost.rows) PROVE Asks(x, y, of', ghost.rows)
        BY <2>4, <3>1, <3>4, <4>2 DEF Asks, Alike
      <4> QED BY <1>4, <4>1, <4>2 DEF Asked
    <3> QED BY <1>6, <3>1, <3>2, <3>3, <3>5, FileLooks
  <2> QED BY <2>5, <2>6
<1> QED BY <1>7, <1>8

LEMMA AllStay ==
  ASSUME UInv, UNCHANGED <<proc, of, tab, rel, upl, big, ghost>>
  PROVE  UInv'
<1>1. Entry' = Entry
  BY DEF Entry
<1>2. EntryRow' = EntryRow
  BY <1>1 DEF EntryRow
<1> QED BY <1>1, <1>2 DEF UInv

\* psync_fs_open.
LEMMA OpenLooks ==
  ASSUME IInv, CInv, UInv, ~Known({"forgotten"})', NEW p \in Procs, Open(p)
  PROVE  UInv'
<1>0. /\ proc[p].pc = "idle" /\ ~Locked /\ Call(p).op \in {"open", "trunc"} /\ UNCHANGED <<srv, rel, upl>>
  BY DEF Open, Idle
<1>1. CASE Entry # 0 /\ (tab.lost \/ Entry \notin DOMAIN tab.rows)
  <2>1. UNCHANGED <<proc, of, file, tab, big, ghost>>
    BY <1>1 DEF Open
  <2> QED BY <1>0, <2>1, AllStay
<1>2. CASE ~(Entry # 0 /\ (tab.lost \/ Entry \notin DOMAIN tab.rows))
  <2> DEFINE c == [proc[p] EXCEPT !.open = TRUE]
  <2>1. proc' = [proc EXCEPT ![p] = c]
    BY <1>2 DEF Open
  <2>2. c = [proc[p] EXCEPT !.open = TRUE]
    OBVIOUS
  <2> HIDE DEF c
  <2>3. Stage(proc) = "none" /\ \A x \in Procs : proc'[x].pc = "flushed" => proc'[x] = proc[x]
    BY <1>0, <2>1, <2>2, OpensRight
  <2>4. CASE Entry # 0
    <3>1. OpenTask(p, Entry) /\ Entry \in DOMAIN tab.rows
      BY <1>2, <2>4 DEF Open
    <3> QED BY <1>0, <2>3, <3>1, OpenTaskLooks
  <2>5. CASE Entry = 0 /\ Call(p).op = "trunc"
    <3>1. Recreate(p)
      BY <1>2, <2>5 DEF Open
    <3> QED BY <1>0, <2>3, <2>5, <3>1, RecreateLooks
  <2>6. CASE Entry = 0 /\ Call(p).op # "trunc"
    <3>1. OpenServer
      BY <1>2, <2>6 DEF Open
    <3> QED BY <1>0, <2>3, <2>6, <3>1, OpenServerLooks
  <2> QED BY <2>4, <2>5, <2>6
<1> QED BY <1>1, <1>2

----------------------------------------------------------------------------
(* All steps, and what is on the server in the end.                        *)

LEMMA CallsLook ==
  ASSUME IInv, IInv', CInv, CInv', UInv, ~Damaged', ~Known({"forgotten"})', NEW p \in Procs, Calls(p)
  PROVE  UInv'
<1>1. CASE Change(p)
  <2>1. CASE of.modified \/ (Call(p).op = "size" /\ of.size = Call(p).at)
    BY <1>1, <2>1, ChangeLooks
  <2>2. CASE ~of.modified /\ ~(Call(p).op = "size" /\ of.size = Call(p).at)
    <3>1. /\ proc[p].open /\ proc[p].pc = "idle" /\ ~Locked /\ UNCHANGED <<srv, rel, upl>>
          /\ psync_fs_reopen_file_for_writing(p)
      BY <1>1, <2>2 DEF Change, Idle
    <3> QED BY <2>2, <3>1, ReopenLooks
  <2> QED BY <2>1, <2>2
<1> QED BY <1>1, OpenLooks, CreateFilesLooks, FillLooks, FlushLooks, FlushedLooks, CloseLooks DEF Calls

LEMMA InitLooks ==
  ASSUME Init
  PROVE  UInv
<1>1. /\ proc = [p \in Procs |-> [pc |-> "idle", w |-> 0, n |-> 0, open |-> FALSE]]
      /\ of = NoFile /\ rel = <<>> /\ upl = NoBatch /\ big = NoUpload
      /\ tab.rows = <<>> /\ tab.entries = <<>>
  BY DEF Init
<1>2. Entry = 0 /\ EntryRow = NoRow
  BY <1>1 DEF Entry, EntryRow, Row
<1>3. Entering(upl) = {} /\ ~Sending(upl)
  BY <1>1, AsleepOrNot
<1>4. Arrows(Entry, tab.rows, upl)
  BY <1>1, <1>3 DEF Arrows
<1>5. Runs(big)
  BY <1>1 DEF Runs, NoUpload
<1>6. Asked(of, proc, rel, ghost.rows)
  BY <1>1 DEF Asked
<1> QED BY <1>2, <1>3, <1>4, <1>5, <1>6 DEF UInv, Looked, Sent, Deferred, Knows

LEMMA StepLooks ==
  ASSUME IInv, IInv', ContentsRight, ContentsRight', UploadsAwake, [Next]_vars
  PROVE  UploadsAwake'
<1> SUFFICES ASSUME ~Unnoticed' PROVE UInv'
  BY DEF UploadsAwake
<1>1. ~Damaged' /\ ~Known({"forgotten"})' /\ ~Known({"skipped"})'
  BY DEF Unnoticed, Known
<1>2. ~Unnoticed
  BY KnownGrows DEF Unnoticed, Damaged, Known
<1>3. ~Damaged /\ CInv /\ CInv' /\ UInv
  BY <1>1, <1>2 DEF Unnoticed, UploadsAwake, ContentsRight
<1>4. ASSUME NEW p \in Procs, Calls(p) PROVE UInv'
  BY <1>1, <1>3, <1>4, CallsLook
<1>5. CASE Releasing
  BY <1>1, <1>3, <1>5, TimerDueLooks, WriteTimerLooks, ReleaseTimerLooks, ReleaseEndsLooks DEF Releasing
<1>6. CASE Uploading
  BY <1>1, <1>3, <1>6, CleanStuckLooks, CheckTasksLooks, SendCreatLooks, UploadSmallLooks, SendSmallLooks,
     LostSmallLooks, ProcessCreatLooks, CacheSmallLooks, DelTaskLooks, DeferLooks DEF Uploading
<1>7. CASE UploadingLarge
  BY <1>3, <1>7, PickLooks, LargeLooks, SaveMetaLooks DEF UploadingLarge
<1>8. CASE Caching
  BY <1>3, <1>8, CacheUploadedLooks, CacheEndsLooks DEF Caching
<1>9. CASE DiffAsks \/ process_modifyfile
  BY <1>3, <1>9, DiffLooks
<1>10. CASE Restart
  BY <1>1, <1>3, <1>10, RestartLooks
<1>11. CASE UNCHANGED vars
  BY <1>3, <1>11, AllStay DEF vars
<1> QED BY <1>4, <1>5, <1>6, <1>7, <1>8, <1>9, <1>10, <1>11 DEF Next

\* At rest the overlay has no row for the name.
LEMMA RestHasNoRow ==
  ASSUME IInv, CInv, UInv, AtRest
  PROVE  EntryRow = NoRow
<1> SUFFICES ASSUME EntryRow # NoRow PROVE FALSE
  OBVIOUS
<1>1. of = NoFile /\ upl.pc = "idle" /\ ~upl.wake /\ big.pc = "off"
  BY DEF AtRest
<1>2. Entry \in DOMAIN tab.rows /\ EntryRow.status = tab.rows[Entry].status
  BY TabIs, RowView DEF EntryRow
<1>3. EntryRow.status \in {0, 1, 2}
  <2>1. tab.rows[Entry].status \in 0..3
    BY <1>2 DEF IInv, TabFits, RowsFit
  <2>2. Entry \in Live(tab.rows)
    BY <1>2 DEF CInv, Naming
  <2> QED BY <1>2, <2>1, <2>2 DEF Live
<1>4. EntryRow.status # 0
  BY <1>1 DEF UInv, Looked, SendingLarge
<1>5. EntryRow.status # 1
  BY <1>1 DEF UInv, Knows
<1>6. EntryRow.status # 2
  BY <1>1 DEF UInv, Deferred
<1> QED BY <1>3, <1>4, <1>5, <1>6

\* As long as no release has been lost, a row that waits to be uploaded is looked
\* at: someone is about to release it, the uploader has been woken, or has it.
THEOREM UploadsStayAwake == Spec => []UploadsAwake
<1>1. Init => UploadsAwake
  BY InitLooks DEF UploadsAwake
<1>2. IInv /\ IInv' /\ ContentsRight /\ ContentsRight' /\ UploadsAwake /\ [Next]_vars => UploadsAwake'
  BY StepLooks
<1> QED BY <1>1, <1>2, WriteInvariant, ContentsAreRight, PTL DEF Spec

\* When every file is closed and no thread has anything left to do: the server
\* has what was written last.
THEOREM UploadsAreRight == Spec => []UploadsLastWritten
<1>1. IInv /\ ContentsRight /\ UploadsAwake => UploadsLastWritten
  <2> SUFFICES ASSUME IInv, ContentsRight, UploadsAwake, AtRest, ~Unnoticed PROVE srv.now = ghost.last
    BY DEF UploadsLastWritten, Unnoticed
  <2>1. CInv /\ UInv
    BY DEF ContentsRight, UploadsAwake, Unnoticed
  <2>2. EntryRow = NoRow
    BY <2>1, RestHasNoRow
  <2> QED BY <2>1, <2>2 DEF CInv, Filing
<1> QED BY <1>1, UploadsStayAwake, ContentsAreRight, WriteInvariant, PTL
=============================================================================
