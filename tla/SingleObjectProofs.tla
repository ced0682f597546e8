-------------------------- MODULE SingleObjectProofs -------------------------
(***************************************************************************)
(* MarshalSingleObject and UnmarshalSingleObject over a stream that may    *)
(* break, for every width of a long, every magic, set of schemas and set   *)
(* of items, and any number of messages.                                   *)
(*                                                                         *)
(* The bytes on the wire begin with those of the objects sent, whole and   *)
(* one after the other, up to the first torn one behind which more was     *)
(* written.  A reader that got no further stands at the border between two *)
(* of them, or behind the header of one it refused, unless it strayed.     *)
(***************************************************************************)
EXTENDS SingleObjects, StreamProofs

\* The bytes of a message, and which messages there are.
Object(nl, m) == (Magic \o Fingerprint[m.schema]) \o Encoding(nl, m.val)

Messages(nl) == [schema : DOMAIN Fingerprint, val : IF nl THEN {<< >>} ELSE Items]

HeaderLen == Len(Magic) + FingerprintLen

LEMMA HeaderFacts ==
  /\ Magic \in Seq(Byte) /\ Len(Magic) \in Nat \ {0}
  /\ FingerprintLen \in Nat \ {0}
  /\ HeaderLen \in Nat
  /\ \A s \in DOMAIN Fingerprint :
       /\ Fingerprint[s] \in Seq(Byte) /\ Len(Fingerprint[s]) = FingerprintLen
       /\ Magic \o Fingerprint[s] \in Seq(Byte) /\ Len(Magic \o Fingerprint[s]) = HeaderLen
<1>1. Magic \in Seq(Byte) /\ Len(Magic) \in Nat \ {0}
  BY SingleObjectAssumption
<1>2. ASSUME NEW s \in DOMAIN Fingerprint
      PROVE  Fingerprint[s] \in Seq(Byte) /\ Len(Fingerprint[s]) = FingerprintLen
  BY SingleObjectAssumption
<1>3. FingerprintLen \in Nat \ {0}
  BY <1>2, SingleObjectAssumption
<1>4. ASSUME NEW s \in DOMAIN Fingerprint
      PROVE  Magic \o Fingerprint[s] \in Seq(Byte) /\ Len(Magic \o Fingerprint[s]) = HeaderLen
  BY <1>1, <1>2 DEF HeaderLen
<1> QED
  BY <1>1, <1>2, <1>3, <1>4 DEF HeaderLen

LEMMA MessageFacts ==
  ASSUME NEW nl, NEW m \in Messages(nl)
  PROVE  /\ m.schema \in DOMAIN Fingerprint
         /\ m.val \in Items /\ m.val \in Seq(Byte) /\ Len(m.val) \in Long
         /\ Encoding(nl, m.val) \in Seq(Byte)
         /\ Object(nl, m) \in Seq(Byte)
         /\ Len(Object(nl, m)) = HeaderLen + Len(Encoding(nl, m.val))
<1>1. m.schema \in DOMAIN Fingerprint /\ m.val \in Items
  BY ItemsAssumption DEF Messages
<1>2. m.val \in Seq(Byte) /\ Len(m.val) \in Long
  BY <1>1, ItemsAssumption, LengthAssumption, HalfIsPositive DEF Long
<1>3. Encoding(nl, m.val) \in Seq(Byte)
  BY <1>1, <1>2, ItemEncodes
<1>4. /\ Magic \o Fingerprint[m.schema] \in Seq(Byte)
      /\ Len(Magic \o Fingerprint[m.schema]) = HeaderLen
  BY <1>1, HeaderFacts
<1>5. \A a, b \in Seq(Byte) : a \o b \in Seq(Byte) /\ Len(a \o b) = Len(a) + Len(b)
  OBVIOUS
<1> QED
  BY <1>1, <1>2, <1>3, <1>4, <1>5 DEF Object

-----------------------------------------------------------------------------
(***************************************************************************)
(* What UnmarshalSingleObject reads at a border of the ideal stream.       *)
(***************************************************************************)

\* Where an object begins, on what the wire has of it.
LEMMA ObjectAt ==
  ASSUME StreamTypeOK, NEW t \in Seq(Byte), Begins(wire, t), NEW off \in 0 .. Len(wire),
         NEW m \in Messages(nulls), Has(t, off, Object(nulls, m))
  PROVE  LET res == UnmarshalSingleObject(off)
             named == off + Len(Magic)
             headed == off + HeaderLen
         IN  /\ ~(named <= Len(wire)) =>
                   res = Result(Len(wire), ReadFullError(end, Len(wire) - off), << >>)
             /\ (named <= Len(wire) /\ ~(headed <= Len(wire))) =>
                   res = Result(Len(wire), ReadFullError(end, Len(wire) - named), << >>)
             /\ (headed <= Len(wire) /\ Foreign(m)) => res = Result(headed, "mismatch", << >>)
             /\ (headed <= Len(wire) /\ ~Foreign(m)) => res = Unmarshal(headed)
             /\ Has(t, headed, Encoding(nulls, m.val))
<1> DEFINE res == UnmarshalSingleObject(off)
           named == off + Len(Magic)
           headed == off + HeaderLen
           print == Fingerprint[m.schema]
           magic == HeaderPart(off, Len(Magic))
           fp == HeaderPart(magic.off, FingerprintLen)
<1>1. /\ wire \in Seq(Byte) /\ Len(wire) \in Nat /\ off \in Nat
      /\ Magic \in Seq(Byte) /\ Len(Magic) \in Nat \ {0}
      /\ print \in Seq(Byte) /\ Len(print) = FingerprintLen /\ FingerprintLen \in Nat \ {0}
      /\ Magic \o print \in Seq(Byte) /\ Len(Magic \o print) = HeaderLen
      /\ Encoding(nulls, m.val) \in Seq(Byte)
  <2>1. wire \in Seq(Byte) /\ Len(wire) \in Nat /\ off \in Nat
    BY DEF StreamTypeOK
  <2>2. m.schema \in DOMAIN Fingerprint /\ Encoding(nulls, m.val) \in Seq(Byte)
    BY MessageFacts
  <2> QED
    BY <2>1, <2>2, HeaderFacts
<1>2. /\ named \in Nat /\ headed \in Nat
      /\ named + FingerprintLen = headed /\ off <= named /\ named <= headed
  BY <1>1 DEF HeaderLen
<1>3. Has(t, off, Magic) /\ Has(t, named, print) /\ Has(t, headed, Encoding(nulls, m.val))
  <2>1. Has(t, off, Magic \o print) /\ Has(t, headed, Encoding(nulls, m.val))
    BY <1>1, HasParts DEF Object
  <2> QED
    BY <1>1, <2>1, HasParts
<1>4. magic = IF named <= Len(wire)
              THEN Result(named, "none", Magic)
              ELSE Result(Len(wire), ReadFullError(end, Len(wire) - off), << >>)
  BY <1>1, <1>3, FixedAt DEF HeaderPart
<1> HIDE DEF print, fp, magic
<1>5. CASE ~(named <= Len(wire))
  <2>1. magic = Result(Len(wire), ReadFullError(end, Len(wire) - off), << >>)
    BY <1>4, <1>5
  <2>2. magic.err # "none"
    BY <2>1 DEF Result, ReadFullError
  <2>3. res = magic
    BY <2>2 DEF UnmarshalSingleObject, magic
  <2>4. ~(headed <= Len(wire))
    BY <1>1, <1>2, <1>5
  <2> HIDE DEF named, headed, res
  <2> QED
    BY <1>3, <1>5, <2>1, <2>3, <2>4 DEF res, named, headed
<1>6. CASE named <= Len(wire)
  <2>1. magic.err = "none" /\ magic.val = Magic /\ magic.off = named
    BY <1>4, <1>6 DEF Result
  <2>2. named \in 0 .. Len(wire)
    BY <1>1, <1>2, <1>6
  <2>3. fp = ReadFixed(wire, end, named, Len(print))
    BY <1>1, <2>1 DEF fp, HeaderPart
  <2>4. fp = IF headed <= Len(wire)
             THEN Result(headed, "none", print)
             ELSE Result(Len(wire), ReadFullError(end, Len(wire) - named), << >>)
    <3>1. named + Len(print) = headed
      BY <1>1, <1>2
    <3> HIDE DEF named, headed
    <3>2. wire \in Seq(Byte) /\ print \in Seq(Byte) /\ Has(t, named, print)
      BY <1>1, <1>3
    <3>3. ReadFixed(wire, end, named, Len(print)) =
            IF named + Len(print) <= Len(wire)
            THEN Result(named + Len(print), "none", print)
            ELSE Result(Len(wire), ReadFullError(end, Len(wire) - named), << >>)
      BY <2>2, <3>2, FixedAt
    <3> QED
      BY <2>3, <3>1, <3>3
  <2>5. res = IF fp.err # "none" THEN fp
              ELSE IF FingerprintMismatch(fp) THEN Result(LeftBehind(fp), "mismatch", << >>)
              ELSE Unmarshal(fp.off)
    BY <2>1 DEF UnmarshalSingleObject, magic, fp
  <2> HIDE DEF named, headed, res
  <2>6. CASE ~(headed <= Len(wire))
    <3>1. fp.err # "none"
      BY <2>4, <2>6 DEF Result, ReadFullError
    <3> QED
      BY <1>3, <1>6, <2>4, <2>5, <2>6, <3>1 DEF res, named, headed
  <2>7. CASE headed <= Len(wire)
    <3>1. fp.err = "none" /\ fp.val = print /\ fp.off = headed
      BY <2>4, <2>7 DEF Result
    <3>2. FingerprintMismatch(fp) <=> Foreign(m)
      BY <3>1 DEF FingerprintMismatch, Foreign, print
    <3> QED
      BY <1>3, <1>6, <2>5, <2>7, <3>1, <3>2 DEF LeftBehind, res, named, headed
  <2> QED
    BY <2>6, <2>7
<1> QED
  BY <1>5, <1>6

\* Where nothing is.
LEMMA NothingAt ==
  ASSUME StreamTypeOK
  PROVE  UnmarshalSingleObject(Len(wire)) = Result(Len(wire), ReadFullError(end, 0), << >>)
<1> DEFINE magic == HeaderPart(Len(wire), Len(Magic))
<1>1. Len(wire) \in Nat /\ Len(Magic) \in Nat \ {0}
  BY HeaderFacts DEF StreamTypeOK
<1>2. ~(Len(wire) + Len(Magic) <= Len(wire)) /\ Len(wire) - Len(wire) = 0
  BY <1>1
<1>3. magic = Result(Len(wire), ReadFullError(end, 0), << >>)
  BY <1>2 DEF HeaderPart, ReadFixed
<1>4. magic.err # "none"
  BY <1>3 DEF Result, ReadFullError
<1> HIDE DEF magic
<1> QED
  BY <1>3, <1>4 DEF UnmarshalSingleObject, magic

-----------------------------------------------------------------------------
(***************************************************************************)
(* Where the first n objects lie: object i ends, and object i + 1 begins,  *)
(* at the border borders[i].                                               *)
(***************************************************************************)
Laid(stream, borders, n, ms, nl) ==
  /\ stream \in Seq(Byte)
  /\ ms \in Seq(Messages(nl)) /\ n \in 0 .. Len(ms)
  /\ \A i \in 0 .. n : borders[i] \in Nat
  /\ \A i, j \in 0 .. n : i <= j => borders[i] <= borders[j]
  /\ borders[0] = 0
  /\ \A i \in 1 .. n :
       /\ Has(stream, borders[i - 1], Object(nl, ms[i]))
       /\ borders[i] = borders[i - 1] + Len(Object(nl, ms[i]))

\* All of them, and nothing else.
Placed(ideal, borders, ms, nl) ==
  Laid(ideal, borders, Len(ms), ms, nl) /\ borders[Len(ms)] = Len(ideal)

\* What the receiver got, and where it stands.
Received(borders) ==
  /\ got \in Seq([val : Seq(Byte), refused : BOOLEAN])
  /\ pos \in 0 .. Len(wire)
  /\ Whole = Len(sent) => Len(got) <= Len(sent)
  /\ \A i \in 1 .. Len(got) : i <= Whole =>
       got[i] = [val |-> sent[i].val, refused |-> Foreign(sent[i])]
  /\ (~strayed /\ rerr = "none" /\ Len(got) <= Whole) => pos = borders[Len(got)]
  /\ (~strayed /\ rerr = "mismatch" /\ Len(got) < Whole) =>
       Foreign(sent[Len(got) + 1]) /\ pos = borders[Len(got)] + HeaderLen
  /\ (~strayed /\ rerr = "mismatch" /\ Whole = Len(sent)) => Len(got) < Len(sent)

\* Nothing was refused or lost on the way.
Undisturbed == torn = 0 /\ ~disturbed

SmallItems == \A v \in Items : Len(v) < IntHalf

\* Why a call of the receiver fails on a quiet stream.
Answers ==
  (Quiet /\ rerr \notin {"none", "mismatch"} /\ SmallItems) =>
    rerr = "eof" /\ Len(got) = Len(sent) /\ end # "open"

\* The messages no failed call began.
Healthy == IF torn = 0 THEN Len(sent) ELSE torn - 1

Delivered(stream, borders) ==
  /\ Laid(stream, borders, Whole, sent, nulls)
  /\ Begins(wire, stream)
  /\ Whole = Len(sent) => borders[Whole] = Len(stream)
  /\ end = "open" => Len(wire) >= borders[Healthy]
  /\ Undisturbed => Len(wire) = Len(stream)
  /\ Received(borders) /\ Answers

SingleInv ==
  /\ StreamTypeOK
  /\ torn \in 0 .. Len(sent) /\ disturbed \in BOOLEAN /\ strayed \in BOOLEAN
  /\ end = "open" => ~disturbed
  /\ ~disturbed => end # "fault"
  /\ \E stream, borders : Delivered(stream, borders)

LEMMA HealthyIsWhole ==
  ASSUME sent \in Seq(Messages(nulls)), torn \in 0 .. Len(sent)
  PROVE  /\ Len(sent) \in Nat /\ Healthy \in Nat /\ Whole \in Nat
         /\ Healthy <= Whole /\ Whole <= Len(sent)
<1>1. Len(sent) \in Nat
  OBVIOUS
<1> QED
  BY <1>1 DEF Healthy, Whole

\* One more object.
LEMMA PlacedOn ==
  ASSUME NEW ideal, NEW borders, NEW ms, NEW nl, Placed(ideal, borders, ms, nl),
         NEW m \in Messages(nl)
  PROVE  \E bs : /\ Placed(ideal \o Object(nl, m), bs, Append(ms, m), nl)
                 /\ \A i \in 0 .. Len(ms) : bs[i] = borders[i]
<1> DEFINE n == Len(ms)
           b == Object(nl, m)
           s == ideal \o b
           ns == Append(ms, m)
           bs == [i \in 0 .. n + 1 |-> IF i <= n THEN borders[i] ELSE Len(s)]
<1>1. /\ ideal \in Seq(Byte) /\ ms \in Seq(Messages(nl)) /\ n \in Nat
      /\ \A i \in 0 .. n : borders[i] \in Nat
      /\ \A i, j \in 0 .. n : i <= j => borders[i] <= borders[j]
      /\ borders[0] = 0 /\ borders[n] = Len(ideal)
      /\ b \in Seq(Byte)
  BY MessageFacts DEF Placed, Laid
<1>2. ASSUME NEW i \in 1 .. n
      PROVE  Has(ideal, borders[i - 1], Object(nl, ms[i])) /\ Object(nl, ms[i]) \in Seq(Byte)
             /\ borders[i] = borders[i - 1] + Len(Object(nl, ms[i]))
             /\ borders[i - 1] \in Nat
  <2>1. ms[i] \in Messages(nl) /\ i - 1 \in 0 .. n
    BY <1>1
  <2> QED
    BY <1>1, <2>1, MessageFacts DEF Placed, Laid
<1> HIDE DEF b
<1>3. s \in Seq(Byte) /\ Len(s) = Len(ideal) + Len(b)
  BY <1>1
<1>4. /\ ns \in Seq(Messages(nl)) /\ Len(ns) = n + 1
      /\ \A i \in 1 .. n : ns[i] = ms[i]
      /\ ns[n + 1] = m
  BY <1>1
<1>5. Len(s) \in Nat
  BY <1>3
<1> HIDE DEF ns
<1>6. /\ \A i \in 0 .. n + 1 : bs[i] \in Nat
      /\ \A i \in 0 .. n : bs[i] = borders[i]
      /\ bs[n + 1] = Len(s)
  <2> HIDE DEF s, n
  <2> QED
    BY <1>1, <1>5
<1> HIDE DEF bs
<1>11. ASSUME NEW i \in 1 .. n PROVE i - 1 \in 0 .. n /\ i \in 0 .. n
  BY <1>1
<1>7. ASSUME NEW i \in 1 .. n + 1
      PROVE  Has(s, bs[i - 1], Object(nl, ns[i])) /\ bs[i] = bs[i - 1] + Len(Object(nl, ns[i]))
  <2>1. CASE i \in 1 .. n
    <3>1. bs[i - 1] = borders[i - 1] /\ bs[i] = borders[i] /\ ns[i] = ms[i]
      BY <1>4, <1>6, <1>11, <2>1
    <3>2. Has(s, borders[i - 1], Object(nl, ms[i]))
      BY <1>1, <1>2, <2>1, HasLater
    <3> QED
      BY <1>2, <2>1, <3>1, <3>2
  <2>2. CASE i = n + 1
    <3>0. i - 1 = n /\ n \in 0 .. n
      BY <1>1, <2>2
    <3>1. bs[i - 1] = Len(ideal) /\ bs[i] = Len(s) /\ Object(nl, ns[i]) = b
      <4> HIDE DEF s, n
      <4> QED
        BY <1>1, <1>4, <1>6, <2>2, <3>0 DEF b
    <3>2. Has(s, Len(ideal), b)
      BY <1>1, HasAppended
    <3> QED
      BY <1>3, <3>1, <3>2
  <2> QED
    BY <1>1, <2>1, <2>2
<1>8. bs[0] = 0 /\ bs[n + 1] = Len(s)
  BY <1>1, <1>6
<1> HIDE DEF s
<1>10. ASSUME NEW i \in 0 .. n + 1, NEW j \in 0 .. n + 1, i <= j
       PROVE  bs[i] <= bs[j]
  <2>1. CASE j \in 0 .. n
    <3>1. i \in 0 .. n
      BY <1>1, <1>10, <2>1
    <3>2. borders[i] <= borders[j] /\ bs[i] = borders[i] /\ bs[j] = borders[j]
      BY <1>1, <1>6, <1>10, <2>1, <3>1
    <3> QED
      BY <3>2
  <2>2. CASE j = n + 1 /\ i \in 0 .. n
    <3>1. n \in 0 .. n /\ i <= n
      BY <1>1, <2>2
    <3>2. borders[i] <= Len(ideal) /\ bs[i] = borders[i] /\ borders[i] \in Nat
      BY <1>1, <1>6, <2>2, <3>1
    <3>3. Len(ideal) \in Nat /\ Len(b) \in Nat
      BY <1>1
    <3> QED
      BY <1>3, <1>8, <2>2, <3>2, <3>3
  <2>3. CASE j = n + 1 /\ i = n + 1
    BY <1>5, <1>8, <2>3
  <2> QED
    BY <1>1, <1>10, <2>1, <2>2, <2>3
<1>9. Placed(s, bs, ns, nl)
  <2>1. n + 1 \in 0 .. n + 1
    BY <1>1
  <2> HIDE DEF n
  <2> QED
    BY <1>3, <1>4, <1>6, <1>7, <1>8, <1>10, <2>1 DEF Placed, Laid
<1> QED
  BY <1>6, <1>9 DEF s, b, ns

(***************************************************************************)
(* MarshalSingleObject writes a beginning of an object, and all of it if   *)
(* it returns nil.                                                         *)
(***************************************************************************)
LEMMA MarshalObjectParts ==
  ASSUME StreamTypeOK, NEW m \in Messages(nulls),
         NEW w \in MarshalSingleObject(m.schema, m.val)
  PROVE  Part(Writer(wire, 0), w, Object(nulls, m))
<1> DEFINE w0 == Writer(wire, 0)
           print == Fingerprint[m.schema]
<1>1. w0 \in BinaryWriters /\ w0.err = "none"
  BY DEF StreamTypeOK, Writer, BinaryWriters
<1>2. /\ Magic \in Seq(Byte) /\ print \in Seq(Byte) /\ Magic \o print \in Seq(Byte)
      /\ m.val \in Items /\ Len(m.val) \in Long /\ Encoding(nulls, m.val) \in Seq(Byte)
  <2>1. m.schema \in DOMAIN Fingerprint /\ m.val \in Items /\ Len(m.val) \in Long
        /\ Encoding(nulls, m.val) \in Seq(Byte)
    BY MessageFacts
  <2> QED
    BY <2>1, HeaderFacts
<1>3. PICK x \in Header(m.schema) : w \in IF x.err = "none" THEN Marshal(x, m.val) ELSE {x}
  BY DEF MarshalSingleObject
<1> HIDE DEF w0, print
<1>4. Part(w0, x, Magic \o print)
  <2>1. \A y \in WriteFixed(w0, Magic) : Part(w0, y, Magic)
    BY <1>1, <1>2, PartFixed
  <2>2. x \in AndThenFixed(WriteFixed(w0, Magic), print)
    BY <1>3 DEF Header, w0, print
  <2> QED
    BY <1>1, <1>2, <2>1, <2>2, PartThen
<1>5. x \in BinaryWriters
  BY <1>4 DEF Part
<1>6. x.err = "none" => Part(x, w, Encoding(nulls, m.val))
  BY <1>2, <1>3, <1>5, MarshalWrites
<1>7. x.err # "none" => w = x
  BY <1>3
<1>8. Part(w0, w, (Magic \o print) \o Encoding(nulls, m.val))
  BY <1>1, <1>2, <1>4, <1>6, <1>7, PartOn
<1> QED
  BY <1>8 DEF Object, w0, print

-----------------------------------------------------------------------------
(***************************************************************************)
(* The steps.  A stream that nothing happened to has every object whole.   *)
(***************************************************************************)
LEMMA BordersOf ==
  ASSUME NEW stream, NEW borders, NEW n, NEW ms, NEW nl, Laid(stream, borders, n, ms, nl),
         NEW i \in 0 .. n
  PROVE  /\ borders[i] \in Nat /\ n \in Nat /\ n <= Len(ms) /\ Len(ms) \in Nat
         /\ borders[i] <= Len(stream)
         /\ stream \in Seq(Byte) /\ Len(stream) \in Nat /\ ms \in Seq(Messages(nl))
<1>1. ms \in Seq(Messages(nl)) /\ stream \in Seq(Byte) /\ n \in 0 .. Len(ms) /\ borders[i] \in Nat
  BY DEF Laid
<1>2. Len(ms) \in Nat /\ Len(stream) \in Nat /\ n \in Nat /\ n <= Len(ms)
  BY <1>1
<1>3. CASE i = 0
  BY <1>1, <1>2, <1>3 DEF Laid
<1>4. CASE i # 0
  <2>1. i \in 1 .. n /\ i - 1 \in 0 .. n /\ i \in 1 .. Len(ms)
    BY <1>2, <1>4
  <2>2. Has(stream, borders[i - 1], Object(nl, ms[i]))
        /\ borders[i] = borders[i - 1] + Len(Object(nl, ms[i]))
    BY <2>1 DEF Laid
  <2> QED
    BY <1>1, <1>2, <2>2 DEF Has
<1> QED
  BY <1>3, <1>4

\* The object after a border.
LEMMA AfterBorder ==
  ASSUME NEW stream, NEW borders, NEW n, NEW ms, NEW nl, Laid(stream, borders, n, ms, nl),
         NEW i \in Nat, i < n
  PROVE  /\ ms[i + 1] \in Messages(nl)
         /\ Has(stream, borders[i], Object(nl, ms[i + 1]))
         /\ borders[i + 1] =
              (borders[i] + HeaderLen) + Len(Encoding(nl, ms[i + 1].val))
<1>1. ms \in Seq(Messages(nl)) /\ Len(ms) \in Nat /\ n \in Nat /\ n <= Len(ms)
  <2>1. ms \in Seq(Messages(nl)) /\ n \in 0 .. Len(ms)
    BY DEF Laid
  <2> QED
    BY <2>1
<1>2. i + 1 \in 1 .. n /\ (i + 1) - 1 = i /\ i \in 0 .. n /\ i + 1 \in 1 .. Len(ms)
  BY <1>1
<1>3. ms[i + 1] \in Messages(nl)
  BY <1>1, <1>2
<1>4. /\ Has(stream, borders[(i + 1) - 1], Object(nl, ms[i + 1]))
      /\ borders[i + 1] = borders[(i + 1) - 1] + Len(Object(nl, ms[i + 1]))
  BY <1>2 DEF Laid
<1>5. /\ Len(Object(nl, ms[i + 1])) = HeaderLen + Len(Encoding(nl, ms[i + 1].val))
      /\ Encoding(nl, ms[i + 1].val) \in Seq(Byte)
  BY <1>3, MessageFacts
<1>6. borders[i] \in Nat /\ HeaderLen \in Nat /\ Len(Encoding(nl, ms[i + 1].val)) \in Nat
  BY <1>2, <1>5, BordersOf, HeaderFacts
<1>7. \A a, b, c \in Nat : a + (b + c) = (a + b) + c
  OBVIOUS
<1> QED
  BY <1>2, <1>3, <1>4, <1>5, <1>6, <1>7

\* The first objects lie as well on any stream that begins with them.
LEMMA LaidElsewhere ==
  ASSUME NEW stream, NEW borders, NEW n, NEW ms, NEW nl, Laid(stream, borders, n, ms, nl),
         NEW k \in 0 .. n, NEW other \in Seq(Byte), Len(other) >= borders[k],
         \A i \in 1 .. borders[k] : other[i] = stream[i],
         NEW ns \in Seq(Messages(nl)), Len(ns) >= k, \A i \in 1 .. k : ns[i] = ms[i]
  PROVE  Laid(other, borders, k, ns, nl)
<1>1. /\ n \in Nat /\ k \in Nat /\ k <= n /\ Len(other) \in Nat /\ borders[k] \in Nat
      /\ stream \in Seq(Byte) /\ Len(ns) \in Nat /\ ms \in Seq(Messages(nl)) /\ n <= Len(ms)
  BY BordersOf
<1>2. /\ \A i \in 0 .. k : borders[i] \in Nat
      /\ \A i, j \in 0 .. k : i <= j => borders[i] <= borders[j]
      /\ borders[0] = 0
  <2>1. \A i \in 0 .. k : i \in 0 .. n
    BY <1>1
  <2> QED
    BY <2>1 DEF Laid
<1>3. ASSUME NEW i \in 1 .. k
      PROVE  /\ Has(other, borders[i - 1], Object(nl, ns[i]))
             /\ borders[i] = borders[i - 1] + Len(Object(nl, ns[i]))
  <2>1. i \in 1 .. n /\ i \in 0 .. k /\ i - 1 \in 0 .. k /\ k \in 0 .. k /\ i <= k
        /\ i \in 1 .. Len(ms)
    BY <1>1
  <2>2. ms[i] \in Messages(nl) /\ ns[i] = ms[i]
    BY <1>1, <2>1
  <2> DEFINE b == Object(nl, ms[i])
  <2>3. b \in Seq(Byte) /\ Len(b) \in Nat
    BY <2>2, MessageFacts
  <2>4. Has(stream, borders[i - 1], b) /\ borders[i] = borders[i - 1] + Len(b)
    BY <2>1 DEF Laid
  <2>5. borders[i] <= borders[k] /\ borders[i] \in Nat /\ borders[i - 1] \in Nat
    BY <1>2, <2>1
  <2> HIDE DEF b
  <2>6. ASSUME NEW l \in 1 .. Len(b)
        PROVE  other[borders[i - 1] + l] = b[l]
    <3>1. borders[i - 1] + l \in 1 .. borders[k]
      BY <1>1, <2>3, <2>4, <2>5
    <3>2. stream[borders[i - 1] + l] = b[l]
      BY <2>4 DEF Has
    <3> QED
      BY <3>1, <3>2
  <2>7. borders[i - 1] + Len(b) <= Len(other)
    BY <1>1, <2>3, <2>4, <2>5
  <2>8. Has(other, borders[i - 1], b)
    BY <2>6, <2>7 DEF Has
  <2> QED
    BY <2>2, <2>4, <2>8 DEF b
<1>4. k \in 0 .. Len(ns)
  BY <1>1
<1> QED
  BY <1>2, <1>3, <1>4 DEF Laid

\* What a call of MarshalSingleObject leaves of the stream and of the history.
LEMMA SendWrites ==
  ASSUME StreamTypeOK, sent \in Seq(Messages(nulls)), torn \in 0 .. Len(sent),
         NEW s \in DOMAIN Fingerprint, NEW v \in Values, Send(s, v)
  PROVE  \E m \in Messages(nulls) :
           /\ sent' = Append(sent, m)
           /\ wire' \in Seq(Byte) /\ Len(wire) <= Len(wire')
           /\ Begins(wire', wire \o Object(nulls, m))
           /\ torn' = torn \/ (torn = 0 /\ torn' = Len(sent'))
           /\ torn' = 0 => wire' = wire \o Object(nulls, m)
<1>1. PICK m : m = [schema |-> s, val |-> v]
  OBVIOUS
<1>2. m \in Messages(nulls) /\ m.schema = s /\ m.val = v
  BY <1>1 DEF Messages, Values
<1>3. sent' = Append(sent, m)
  BY <1>1 DEF Send
<1>4. PICK w \in MarshalSingleObject(m.schema, m.val) :
        /\ wire' = w.out
        /\ torn' = IF torn = 0 /\ w.err # "none" THEN Len(sent') ELSE torn
  BY <1>2 DEF Send
<1>5. Part(Writer(wire, 0), w, Object(nulls, m))
  BY <1>2, MarshalObjectParts
<1>6. /\ wire' \in Seq(Byte) /\ Len(wire) <= Len(wire')
      /\ Begins(wire', wire \o Object(nulls, m))
      /\ w.err = "none" => wire' = wire \o Object(nulls, m)
  BY <1>4, <1>5 DEF Part, Writer, BinaryWriters
<1>7. torn' = 0 => w.err = "none"
  <2>1. Len(sent') # 0
    BY <1>2, <1>3
  <2> QED
    BY <1>4, <2>1
<1> QED
  BY <1>2, <1>3, <1>4, <1>6, <1>7

LEMMA SendKeeps ==
  ASSUME SingleInv, NEW s \in DOMAIN Fingerprint, NEW v \in Values, Send(s, v)
  PROVE  SingleInv'
<1>1. PICK stream, borders : Delivered(stream, borders)
  BY DEF SingleInv
<1>2. /\ Laid(stream, borders, Whole, sent, nulls) /\ Begins(wire, stream)
      /\ Whole = Len(sent) => borders[Whole] = Len(stream)
      /\ end = "open" => Len(wire) >= borders[Healthy]
      /\ Received(borders) /\ Answers
  BY <1>1 DEF Delivered
<1>3. /\ end = "open" /\ ~disturbed /\ StreamTypeOK /\ torn \in 0 .. Len(sent)
      /\ UNCHANGED <<end, nulls, pos, rerr, strayed, got, disturbed>>
  BY DEF Send, SingleInv, receiverVars
<1>4. /\ wire \in Seq(Byte) /\ stream \in Seq(Byte) /\ Len(wire) \in Nat /\ Len(stream) \in Nat
      /\ sent \in Seq(Messages(nulls)) /\ Len(sent) \in Nat
      /\ Healthy \in Nat /\ Whole \in Nat /\ Healthy <= Whole /\ Whole <= Len(sent)
  <2>1. wire \in Seq(Byte) /\ stream \in Seq(Byte) /\ sent \in Seq(Messages(nulls))
    BY <1>2, <1>3 DEF StreamTypeOK, Laid
  <2> QED
    BY <1>3, <2>1, HealthyIsWhole
<1>5. PICK m \in Messages(nulls) :
        /\ sent' = Append(sent, m)
        /\ wire' \in Seq(Byte) /\ Len(wire) <= Len(wire')
        /\ Begins(wire', wire \o Object(nulls, m))
        /\ torn' = torn \/ (torn = 0 /\ torn' = Len(sent'))
        /\ torn' = 0 => wire' = wire \o Object(nulls, m)
  BY <1>3, <1>4, SendWrites
<1>6. /\ sent' \in Seq(Messages(nulls)) /\ Len(sent') = Len(sent) + 1
      /\ \A i \in 1 .. Len(sent) : sent'[i] = sent[i]
  BY <1>4, <1>5
<1>7. torn' \in 0 .. Len(sent')
  BY <1>3, <1>4, <1>5, <1>6
<1>8. StreamTypeOK'
  BY <1>3, <1>5 DEF StreamTypeOK
<1>9. /\ got \in Seq([val : Seq(Byte), refused : BOOLEAN]) /\ Len(got) \in Nat
      /\ pos \in 0 .. Len(wire') /\ Len(wire') \in Nat
  <2>1. /\ got \in Seq([val : Seq(Byte), refused : BOOLEAN])
        /\ pos \in 0 .. Len(wire) /\ Len(wire') \in Nat
    BY <1>2, <1>5 DEF Received
  <2> QED
    BY <1>4, <1>5, <2>1
<1>10. Answers'
  BY <1>2, <1>3, <1>5 DEF Answers, Quiet, SmallItems
<1>11. CASE torn = 0
  <2>1. /\ Whole = Len(sent) /\ Healthy = Len(sent) /\ Whole' = Len(sent')
        /\ Len(wire) >= Len(stream)
    BY <1>2, <1>3, <1>5, <1>11 DEF Whole, Healthy
  <2>2. wire = stream
    BY <1>2, <1>4, <2>1, BeginsWhole
  <2>3. PICK t : t = stream \o Object(nulls, m)
    OBVIOUS
  <2>4. Placed(stream, borders, sent, nulls)
    BY <1>2, <2>1 DEF Placed
  <2>5. PICK bs : /\ Placed(t, bs, sent', nulls)
                  /\ \A i \in 0 .. Len(sent) : bs[i] = borders[i]
    BY <1>5, <2>3, <2>4, PlacedOn
  <2>6. Laid(t, bs, Whole', sent', nulls) /\ bs[Whole'] = Len(t)
    BY <2>1, <2>5 DEF Placed
  <2>7. Len(got) \in 0 .. Len(sent) /\ Len(got) <= Len(sent')
    BY <1>2, <1>4, <1>6, <1>9, <2>1 DEF Received
  <2>8. Received(bs)'
    <3>1. \A i \in 1 .. Len(got) : i <= Whole' =>
            got[i] = [val |-> sent'[i].val, refused |-> Foreign(sent'[i])]
      BY <1>2, <1>4, <1>6, <2>1, <2>7 DEF Received
    <3>2. (~strayed /\ rerr = "none" /\ Len(got) <= Whole') => pos = bs[Len(got)]
      BY <1>2, <2>1, <2>5, <2>7 DEF Received
    <3>3. ASSUME ~strayed, rerr = "mismatch"
          PROVE  /\ Foreign(sent'[Len(got) + 1]) /\ pos = bs[Len(got)] + HeaderLen
                 /\ Len(got) < Len(sent')
      <4>1. Len(got) < Len(sent)
        BY <1>2, <2>1, <3>3 DEF Received
      <4>2. Foreign(sent[Len(got) + 1]) /\ pos = borders[Len(got)] + HeaderLen
        BY <1>2, <2>1, <3>3, <4>1 DEF Received
      <4>3. Len(got) + 1 \in 1 .. Len(sent)
        BY <1>4, <1>9, <4>1
      <4> QED
        BY <1>4, <1>6, <1>9, <2>5, <2>7, <4>1, <4>2, <4>3
    <3> QED
      BY <1>3, <1>9, <2>7, <3>1, <3>2, <3>3 DEF Received
  <2>9. Begins(wire', t)
    BY <1>5, <2>2, <2>3
  <2>10. torn' = 0 => Len(wire') = Len(t)
    BY <1>5, <2>2, <2>3
  <2>11. Len(wire') >= bs[Healthy']
    <3>1. CASE torn' = 0
      <4>1. Healthy' = Whole'
        BY <2>1, <3>1 DEF Healthy
      <4>2. Len(wire') = Len(t) /\ Len(wire') \in Nat
        BY <1>9, <2>10, <3>1
      <4> QED
        BY <2>6, <4>1, <4>2
    <3>2. CASE torn' # 0
      <4>1. torn' = Len(sent) + 1
        BY <1>5, <1>6, <1>11, <3>2
      <4>2. Healthy' = Len(sent)
        BY <1>4, <3>2, <4>1 DEF Healthy
      <4>3. Len(sent) \in 0 .. Len(sent)
        BY <1>4
      <4>4. bs[Healthy'] = Len(wire)
        BY <1>2, <2>1, <2>2, <2>5, <4>2, <4>3
      <4> QED
        BY <1>5, <1>4, <1>9, <4>4
    <3> QED
      BY <3>1, <3>2
  <2>12. Delivered(t, bs)'
    BY <1>3, <1>10, <2>6, <2>8, <2>9, <2>10, <2>11 DEF Delivered, Undisturbed
  <2> QED
    BY <1>3, <1>7, <1>8, <2>12 DEF SingleInv
<1>12. CASE torn # 0
  <2>1. /\ torn' = torn /\ Whole' = torn - 1 /\ Healthy = torn - 1 /\ Healthy' = torn - 1
        /\ torn - 1 \in Nat /\ torn - 1 <= Whole /\ Whole' # Len(sent')
    BY <1>3, <1>4, <1>5, <1>6, <1>12 DEF Whole, Healthy
  <2>2. \A i \in 1 .. Len(wire) : wire'[i] = wire[i] /\ wire[i] = stream[i]
    <3>1. Object(nulls, m) \in Seq(Byte)
      BY MessageFacts
    <3>2. \A i \in 1 .. Len(wire) : (wire \o Object(nulls, m))[i] = wire[i]
      BY <1>4, <3>1
    <3>3. ASSUME NEW i \in 1 .. Len(wire) PROVE wire'[i] = wire[i] /\ wire[i] = stream[i]
      <4>1. i \in 1 .. Len(wire')
        BY <1>4, <1>5, <1>9
      <4> QED
        BY <1>2, <1>5, <3>2, <4>1 DEF Begins
    <3> QED
      BY <3>3
  <2>3. torn - 1 \in 0 .. Whole /\ borders[torn - 1] \in Nat /\ Len(wire) >= borders[torn - 1]
    <3>1. torn - 1 \in 0 .. Whole
      BY <1>4, <2>1
    <3> QED
      BY <1>2, <1>3, <2>1, <3>1, BordersOf
  <2>10. PICK other, ns : other = wire' /\ ns = sent'
    OBVIOUS
  <2>4. Laid(other, borders, torn - 1, ns, nulls)
    <3>1. other \in Seq(Byte) /\ Len(other) >= borders[torn - 1]
      BY <1>4, <1>5, <1>9, <2>3, <2>10
    <3>2. \A i \in 1 .. borders[torn - 1] : other[i] = stream[i]
      BY <1>4, <2>2, <2>3, <2>10
    <3>3. /\ ns \in Seq(Messages(nulls)) /\ Len(ns) >= torn - 1
          /\ \A i \in 1 .. torn - 1 : ns[i] = sent[i]
      BY <1>3, <1>4, <1>6, <2>1, <2>10
    <3> HIDE DEF Laid
    <3> QED
      BY <1>2, <2>3, <3>1, <3>2, <3>3, LaidElsewhere
  <2>5. Received(borders)'
    <3>1. \A i \in 1 .. Len(got) : i <= Whole' =>
            got[i] = [val |-> sent'[i].val, refused |-> Foreign(sent'[i])]
      <4> SUFFICES ASSUME NEW i \in 1 .. Len(got), i <= Whole'
                   PROVE  got[i] = [val |-> sent'[i].val, refused |-> Foreign(sent'[i])]
        OBVIOUS
      <4>1. i <= Whole /\ i \in 1 .. Len(sent)
        BY <1>4, <1>9, <2>1
      <4> QED
        BY <1>2, <1>6, <4>1 DEF Received
    <3>2. (~strayed /\ rerr = "none" /\ Len(got) <= Whole') => pos = borders[Len(got)]
      BY <1>2, <1>4, <1>9, <2>1 DEF Received
    <3>3. ASSUME ~strayed, rerr = "mismatch", Len(got) < Whole'
          PROVE  Foreign(sent'[Len(got) + 1]) /\ pos = borders[Len(got)] + HeaderLen
      <4>1. Len(got) < Whole /\ Len(got) + 1 \in 1 .. Len(sent)
        BY <1>4, <1>9, <2>1, <3>3
      <4> QED
        BY <1>2, <1>6, <3>3, <4>1 DEF Received
    <3> QED
      BY <1>3, <1>9, <2>1, <3>1, <3>2, <3>3 DEF Received
  <2>6. Begins(wire', wire')
    BY <1>5, BeginsAll
  <2>7. Len(wire') >= borders[Healthy']
    BY <1>4, <1>5, <1>9, <2>1, <2>3
  <2>8. Delivered(other, borders)'
    BY <1>3, <1>10, <1>12, <2>1, <2>4, <2>5, <2>6, <2>7, <2>10 DEF Delivered, Undisturbed
  <2>9. \E all, bs : Delivered(all, bs)'
    BY <2>8
  <2> QED
    BY <1>3, <1>7, <1>8, <2>9 DEF SingleInv
<1> QED
  BY <1>11, <1>12

\* The stream ends, or loses bytes the receiver does not have yet.
LEMMA LeaveKeeps ==
  ASSUME SingleInv, Leave
  PROVE  SingleInv'
<1>1. PICK stream, borders : Delivered(stream, borders)
  BY DEF SingleInv
<1>2. /\ end = "open" /\ ~disturbed /\ end' \in {"eof", "fault"} /\ disturbed' = (end' = "fault")
      /\ UNCHANGED <<wire, nulls, sent, torn, pos, rerr, strayed, got>>
  BY DEF Leave, HangUp, SingleInv, senderVars, receiverVars
<1>3. (Quiet' => Quiet) /\ (Undisturbed' => Undisturbed) /\ Whole' = Whole
  BY <1>2 DEF Quiet, Undisturbed, Whole
<1>4. Received(borders)' /\ Answers'
  BY <1>1, <1>2, <1>3 DEF Delivered, Received, Answers, SmallItems
<1>5. Delivered(stream, borders)'
  BY <1>1, <1>2, <1>3, <1>4 DEF Delivered
<1>6. StreamTypeOK'
  BY <1>2 DEF SingleInv, StreamTypeOK, Ends
<1> QED
  BY <1>2, <1>5, <1>6 DEF SingleInv

LEMMA LoseKeeps ==
  ASSUME SingleInv, Lose
  PROVE  SingleInv'
<1>1. PICK stream, borders : Delivered(stream, borders)
  BY DEF SingleInv
<1>2. PICK n \in pos .. Len(wire) : Truncate(n)
  BY DEF Lose
<1>3. /\ end' \in {"eof", "fault"} /\ disturbed' = TRUE /\ wire' = SubSeq(wire, 1, n)
      /\ UNCHANGED <<nulls, sent, torn, pos, rerr, strayed, got>>
  BY <1>2 DEF Lose, Truncate, senderVars, receiverVars
<1>4. /\ wire \in Seq(Byte) /\ Len(wire) \in Nat /\ pos \in 0 .. Len(wire)
      /\ Begins(wire, stream)
  BY <1>1 DEF SingleInv, StreamTypeOK, Delivered, Received
<1>5. n \in Nat /\ n <= Len(wire) /\ pos \in 0 .. n
  BY <1>4
<1>6. wire' \in Seq(Byte) /\ Len(wire') = n /\ \A i \in 1 .. n : wire'[i] = wire[i]
  BY <1>3, <1>4, <1>5, SubSeqProperties
<1>7. Begins(wire', stream)
  <2>1. stream \in Seq(Byte) /\ Len(stream) \in Nat
    BY <1>1 DEF Delivered, Laid
  <2>2. Len(wire) <= Len(stream) /\ \A i \in 1 .. Len(wire) : wire[i] = stream[i]
    BY <1>4 DEF Begins
  <2>3. \A i \in 1 .. n : i \in 1 .. Len(wire)
    BY <1>4, <1>5
  <2>4. n <= Len(stream)
    BY <1>4, <1>5, <2>1, <2>2
  <2> QED
    BY <1>6, <2>2, <2>3, <2>4 DEF Begins
<1>8. ~Quiet' /\ ~Undisturbed' /\ Whole' = Whole
  BY <1>3 DEF Quiet, Undisturbed, Whole
<1>9. Received(borders)' /\ Answers'
  BY <1>1, <1>3, <1>5, <1>6, <1>8 DEF Delivered, Received, Answers
<1>10. Delivered(stream, borders)'
  BY <1>1, <1>3, <1>7, <1>8, <1>9 DEF Delivered
<1>11. StreamTypeOK'
  BY <1>3, <1>6 DEF SingleInv, StreamTypeOK, Ends
<1> QED
  BY <1>3, <1>10, <1>11 DEF SingleInv

\* An empty item, which an object of nulls is, is where nothing is too.
LEMMA ItemOf ==
  ASSUME NEW nl, nl = nulls, NEW m \in Messages(nl)
  PROVE  m.val \in Values
BY DEF Messages, Values

(***************************************************************************)
(* What a call gives that begins at a border: the next object if it is     *)
(* whole, the refusal of a foreign one, or the end of what is there.       *)
(***************************************************************************)
Outcome(res, borders) ==
  LET k == Len(got)
      rest == Len(wire) - pos
  IN  /\ res.off \in 0 .. Len(wire) /\ res.val \in Seq(Byte)
      /\ res.err = "none" =>
           /\ k < Whole /\ ~Foreign(sent[k + 1])
           /\ res.val = sent[k + 1].val /\ res.off = borders[k + 1]
      /\ res.err = "mismatch" =>
           /\ k < Whole /\ Foreign(sent[k + 1])
           /\ res.off = borders[k] + HeaderLen
      /\ (Undisturbed /\ SmallItems /\ res.err \notin {"none", "mismatch"}) =>
           k = Len(sent) /\ res.err = ReadFullError(end, 0)
      /\ rest < HeaderLen =>
           res.err = ReadFullError(end, IF rest < Len(Magic) THEN rest ELSE rest - Len(Magic))

\* When all objects have been received.
LEMMA OutcomeAtTheEnd ==
  ASSUME StreamTypeOK, NEW stream, NEW borders, Delivered(stream, borders),
         rerr = "none", ~strayed, Len(got) = Whole, Whole = Len(sent)
  PROVE  Outcome(UnmarshalSingleObject(pos), borders)
<1> DEFINE res == UnmarshalSingleObject(pos)
<1>1. /\ wire \in Seq(Byte) /\ stream \in Seq(Byte) /\ Len(wire) \in Nat /\ Len(stream) \in Nat
      /\ Len(got) \in Nat
  BY DEF Delivered, Laid, Received, StreamTypeOK
<1>2. /\ pos = borders[Whole] /\ pos = Len(stream) /\ pos \in 0 .. Len(wire)
      /\ Len(wire) <= Len(stream)
  BY <1>1 DEF Delivered, Received, Begins
<1>3. /\ pos = Len(wire) /\ Len(wire) - pos = 0 /\ Len(wire) \in 0 .. Len(wire)
  BY <1>1, <1>2
<1>4. res = Result(Len(wire), ReadFullError(end, 0), << >>)
  BY <1>3, NothingAt
<1> HIDE DEF res
<1>5. /\ res.off = Len(wire) /\ res.err = ReadFullError(end, 0) /\ res.val = << >>
      /\ res.err \notin {"none", "mismatch"} /\ << >> \in Seq(Byte)
  BY <1>4 DEF Result, ReadFullError
<1>6. 0 < Len(Magic)
  BY HeaderFacts
<1>7. Outcome(res, borders)
  BY <1>3, <1>5, <1>6 DEF Outcome
<1> QED
  BY <1>7 DEF res

\* When there is another.
LEMMA OutcomeBefore ==
  ASSUME StreamTypeOK, NEW ideal, NEW borders, Delivered(ideal, borders),
         rerr = "none", ~strayed, Len(got) < Whole
  PROVE  Outcome(UnmarshalSingleObject(pos), borders)
<1> DEFINE res == UnmarshalSingleObject(pos)
           k == Len(got)
           named == pos + Len(Magic)
           headed == pos + HeaderLen
           rest == Len(wire) - pos
<1>1. PICK m : m = sent[k + 1]
  OBVIOUS
<1>2. /\ Laid(ideal, borders, Whole, sent, nulls) /\ Begins(wire, ideal) /\ ideal \in Seq(Byte)
      /\ Undisturbed => Len(wire) = Len(ideal)
      /\ pos = borders[k] /\ pos \in 0 .. Len(wire) /\ k \in Nat
      /\ wire \in Seq(Byte) /\ Len(wire) \in Nat
  <2>1. Laid(ideal, borders, Whole, sent, nulls) /\ ideal \in Seq(Byte) /\ k \in Nat
    BY DEF Delivered, Laid, Received
  <2>2. Whole \in Nat
    BY <2>1, BordersOf DEF Laid
  <2> QED
    BY <2>1, <2>2 DEF Delivered, Received, StreamTypeOK
<1> HIDE DEF k
<1>3. /\ m \in Messages(nulls) /\ Has(ideal, pos, Object(nulls, m))
      /\ borders[k + 1] = headed + Len(Encoding(nulls, m.val))
  BY <1>1, <1>2, AfterBorder DEF k
<1>4. /\ ~(named <= Len(wire)) => res = Result(Len(wire), ReadFullError(end, rest), << >>)
      /\ (named <= Len(wire) /\ ~(headed <= Len(wire))) =>
            res = Result(Len(wire), ReadFullError(end, Len(wire) - named), << >>)
      /\ (headed <= Len(wire) /\ Foreign(m)) => res = Result(headed, "mismatch", << >>)
      /\ (headed <= Len(wire) /\ ~Foreign(m)) => res = Unmarshal(headed)
      /\ Has(ideal, headed, Encoding(nulls, m.val))
  BY <1>2, <1>3, ObjectAt
<1>5. /\ Len(Magic) \in Nat \ {0} /\ FingerprintLen \in Nat \ {0} /\ pos \in Nat
      /\ named \in Nat /\ headed \in Nat /\ named <= headed
      /\ Len(wire) - named = rest - Len(Magic) /\ rest \in Nat
      /\ (named <= Len(wire) <=> ~(rest < Len(Magic)))
      /\ (headed <= Len(wire) <=> ~(rest < HeaderLen))
      /\ Len(wire) \in 0 .. Len(wire)
      /\ << >> \in Seq(Byte)
  <2>1. /\ Len(Magic) \in Nat \ {0} /\ FingerprintLen \in Nat \ {0} /\ pos \in Nat
        /\ pos <= Len(wire)
    BY <1>2, HeaderFacts
  <2>2. \A a \in Nat \ {0}, b \in Nat \ {0}, p, l \in Nat : p <= l =>
          /\ p + a \in Nat /\ p + (a + b) \in Nat /\ p + a <= p + (a + b)
          /\ l - (p + a) = (l - p) - a /\ l - p \in Nat
          /\ (p + a <= l <=> ~(l - p < a))
          /\ (p + (a + b) <= l <=> ~(l - p < a + b))
          /\ l \in 0 .. l
    OBVIOUS
  <2>3. /\ named \in Nat /\ headed \in Nat /\ named <= headed
        /\ Len(wire) - named = rest - Len(Magic) /\ rest \in Nat
        /\ (named <= Len(wire) <=> ~(rest < Len(Magic)))
        /\ (headed <= Len(wire) <=> ~(rest < HeaderLen))
        /\ Len(wire) \in 0 .. Len(wire)
    BY <1>2, <2>1, <2>2 DEF HeaderLen
  <2> QED
    BY <2>1, <2>3
<1>6. /\ m.val \in Seq(Byte) /\ Len(m.val) \in Long /\ m.val \in Values /\ m.val \in Items
      /\ Encoding(nulls, m.val) \in Seq(Byte)
  BY <1>3, MessageFacts, ItemOf
<1>7. Undisturbed => headed + Len(Encoding(nulls, m.val)) <= Len(wire)
  BY <1>2, <1>4 DEF Has
<1>8. Undisturbed => headed <= Len(wire)
  <2>1. Len(Encoding(nulls, m.val)) \in Nat
    BY <1>6
  <2> HIDE DEF headed
  <2> QED
    BY <1>2, <1>5, <1>7, <2>1
<1> HIDE DEF named, headed, res, rest
<1>9. CASE ~(headed <= Len(wire))
  <2>1. PICK e : /\ e = ReadFullError(end, IF rest < Len(Magic) THEN rest ELSE rest - Len(Magic))
                 /\ res = Result(Len(wire), e, << >>)
    BY <1>4, <1>5, <1>9
  <2>2. e \notin {"none", "mismatch"}
    BY <2>1 DEF ReadFullError
  <2>3. res.off = Len(wire) /\ res.err = e /\ res.val = << >>
    BY <2>1 DEF Result
  <2>4. Outcome(res, borders)
    BY <1>5, <1>8, <1>9, <2>1, <2>2, <2>3 DEF Outcome, rest
  <2> QED
    BY <2>4 DEF res
<1>10. CASE headed <= Len(wire) /\ Foreign(m)
  <2>1. res.off = headed /\ res.err = "mismatch" /\ res.val = << >>
    BY <1>4, <1>10 DEF Result
  <2>2. headed \in 0 .. Len(wire) /\ ~(rest < HeaderLen)
    BY <1>2, <1>5, <1>10
  <2>3. headed = borders[k] + HeaderLen /\ Foreign(sent[k + 1])
    BY <1>1, <1>2, <1>10 DEF headed
  <2>4. Outcome(res, borders)
    BY <1>5, <2>1, <2>2, <2>3 DEF Outcome, rest, k
  <2> QED
    BY <2>4 DEF res
<1>11. CASE headed <= Len(wire) /\ ~Foreign(m)
  <2>1. res = Unmarshal(headed) /\ headed \in 0 .. Len(wire) /\ ~(rest < HeaderLen)
    BY <1>2, <1>4, <1>5, <1>11
  <2>2. /\ res.err = "none" =>
             res = Result(headed + Len(Encoding(nulls, m.val)), "none", m.val)
        /\ (headed + Len(Encoding(nulls, m.val)) <= Len(wire) /\ Len(m.val) < IntHalf) =>
             res.err = "none"
    BY <1>2, <1>4, <1>6, <2>1, ItemAt
  <2>3. Consumed(res, headed) /\ res.val \in Seq(Byte) /\ res.err \in ReaderErrors
    BY <2>1, UnmarshalResult
  <2>4. res.off \in 0 .. Len(wire)
    BY <1>2, <1>5, <2>3 DEF Consumed
  <2>5. res.err # "mismatch"
    BY <2>3 DEF ReaderErrors, EndOfInput
  <2>6. res.err = "none" => res.off = borders[k + 1] /\ res.val = m.val
    BY <1>3, <2>2 DEF Result
  <2>7. (Undisturbed /\ SmallItems) => res.err = "none"
    BY <1>6, <1>7, <2>2 DEF SmallItems
  <2>8. Outcome(res, borders)
    BY <1>1, <1>11, <2>1, <2>3, <2>4, <2>5, <2>6, <2>7 DEF Outcome, rest, k
  <2> QED
    BY <2>8 DEF res
<1> QED
  BY <1>9, <1>10, <1>11

\* Wherever a call begins, it stays on the stream.
LEMMA CallResult ==
  ASSUME StreamTypeOK, NEW off \in 0 .. Len(wire)
  PROVE  LET res == UnmarshalSingleObject(off)
         IN  res.off \in 0 .. Len(wire) /\ res.val \in Seq(Byte)
<1> DEFINE res == UnmarshalSingleObject(off)
           magic == HeaderPart(off, Len(Magic))
           fp == HeaderPart(magic.off, FingerprintLen)
<1>1. /\ Len(Magic) \in Nat /\ FingerprintLen \in Nat /\ Len(wire) \in Nat /\ off \in Nat
      /\ << >> \in Seq(Byte)
  BY HeaderFacts DEF StreamTypeOK
<1>2. Consumed(magic, off) /\ magic.val \in Seq(Byte)
  BY <1>1, ReadFixedResult DEF HeaderPart
<1>3. magic.off \in 0 .. Len(wire)
  BY <1>1, <1>2 DEF Consumed
<1>4. Consumed(fp, magic.off) /\ fp.val \in Seq(Byte)
  BY <1>1, <1>3, ReadFixedResult DEF HeaderPart
<1>5. fp.off \in 0 .. Len(wire)
  <2> HIDE DEF fp, magic
  <2> QED
    BY <1>1, <1>3, <1>4 DEF Consumed
<1>6. /\ Unmarshal(fp.off).off \in 0 .. Len(wire) /\ Unmarshal(fp.off).val \in Seq(Byte)
  <2>1. Consumed(Unmarshal(fp.off), fp.off) /\ Unmarshal(fp.off).val \in Seq(Byte)
    BY <1>5, UnmarshalResult
  <2> HIDE DEF fp
  <2> QED
    BY <1>1, <1>5, <2>1 DEF Consumed
<1>7. \/ res = magic \/ res = fp
      \/ res = Result(magic.off, "badMagic", << >>) \/ res = Result(fp.off, "mismatch", << >>)
      \/ res = Unmarshal(fp.off)
  BY DEF UnmarshalSingleObject, LeftBehind
<1> HIDE DEF res, magic, fp
<1>8. \A e : Result(magic.off, e, << >>).off = magic.off /\ Result(magic.off, e, << >>).val = << >>
  BY DEF Result
<1>9. \A e : Result(fp.off, e, << >>).off = fp.off /\ Result(fp.off, e, << >>).val = << >>
  BY DEF Result
<1>10. res.off \in 0 .. Len(wire) /\ res.val \in Seq(Byte)
  BY <1>1, <1>2, <1>3, <1>4, <1>5, <1>6, <1>7, <1>8, <1>9
<1> QED
  BY <1>10 DEF res

\* The object behind the header of one that was refused.
LEMMA RefusedAt ==
  ASSUME StreamTypeOK, NEW stream, NEW borders, Delivered(stream, borders),
         rerr = "mismatch", ~strayed, Len(got) < Whole
  PROVE  LET res == Unmarshal(pos)
             k == Len(got)
         IN  /\ k \in Nat /\ k < Len(sent) /\ Foreign(sent[k + 1])
             /\ res.err = "none" => res.val = sent[k + 1].val /\ res.off = borders[k + 1]
             /\ (Undisturbed /\ SmallItems) => res.err = "none"
<1> DEFINE k == Len(got)
<1>1. PICK m : m = sent[k + 1]
  OBVIOUS
<1>2. /\ Laid(stream, borders, Whole, sent, nulls) /\ Begins(wire, stream)
      /\ stream \in Seq(Byte) /\ wire \in Seq(Byte) /\ pos \in 0 .. Len(wire)
      /\ got \in Seq([val : Seq(Byte), refused : BOOLEAN]) /\ k \in Nat
      /\ Undisturbed => Len(wire) = Len(stream)
      /\ Foreign(m) /\ pos = borders[k] + HeaderLen
  <2>1. /\ Laid(stream, borders, Whole, sent, nulls) /\ Begins(wire, stream)
        /\ pos \in 0 .. Len(wire) /\ got \in Seq([val : Seq(Byte), refused : BOOLEAN])
        /\ Undisturbed => Len(wire) = Len(stream)
        /\ Foreign(m) /\ pos = borders[k] + HeaderLen
    BY <1>1 DEF Delivered, Received
  <2> QED
    BY <2>1 DEF Laid, StreamTypeOK
<1>3. Whole \in Nat /\ Whole <= Len(sent) /\ Len(sent) \in Nat /\ k \in 0 .. Whole
  <2>1. Whole \in 0 .. Len(sent) /\ sent \in Seq(Messages(nulls))
    BY <1>2 DEF Laid
  <2> QED
    BY <1>2, <2>1
<1>4. /\ m \in Messages(nulls) /\ Has(stream, borders[k], Object(nulls, m))
      /\ borders[k + 1] = (borders[k] + HeaderLen) + Len(Encoding(nulls, m.val))
  BY <1>1, <1>2, AfterBorder
<1>5. /\ m.val \in Items /\ m.val \in Seq(Byte) /\ Len(m.val) \in Long /\ m.val \in Values
      /\ Encoding(nulls, m.val) \in Seq(Byte) /\ m.schema \in DOMAIN Fingerprint
  BY <1>4, MessageFacts, ItemOf
<1>6. /\ Magic \o Fingerprint[m.schema] \in Seq(Byte)
      /\ Len(Magic \o Fingerprint[m.schema]) = HeaderLen
  BY <1>5, HeaderFacts
<1>7. borders[k] \in Nat
  BY <1>2, <1>3, BordersOf
<1>8. Has(stream, pos, Encoding(nulls, m.val))
  BY <1>2, <1>4, <1>5, <1>6, <1>7, HasParts DEF Object
<1>9. Undisturbed => pos + Len(Encoding(nulls, m.val)) <= Len(wire)
  BY <1>2, <1>8 DEF Has
<1>10. /\ Unmarshal(pos).err = "none" =>
            Unmarshal(pos) = Result(pos + Len(Encoding(nulls, m.val)), "none", m.val)
       /\ (pos + Len(Encoding(nulls, m.val)) <= Len(wire) /\ Len(m.val) < IntHalf) =>
            Unmarshal(pos).err = "none"
  BY <1>2, <1>5, <1>8, ItemAt
<1>11. k < Len(sent)
  BY <1>2, <1>3
<1> QED
  BY <1>1, <1>2, <1>4, <1>5, <1>9, <1>10, <1>11 DEF Result, SmallItems

(***************************************************************************)
(* What the reader has after any call.  One that strayed has nothing new,  *)
(* nor has one that goes on behind a torn message.                         *)
(***************************************************************************)
LEMMA TookKeeps ==
  ASSUME SingleInv, NEW res, NEW refused \in BOOLEAN, NEW astray \in BOOLEAN,
         Took(res, refused, astray),
         res.off \in 0 .. Len(wire), res.val \in Seq(Byte), strayed => astray,
         NEW stream, NEW borders, Delivered(stream, borders),
         (~astray /\ Whole = Len(sent)) => Len(got) < Whole \/ res.err \notin {"none", "mismatch"},
         (~astray /\ Len(got) < Whole) =>
            /\ res.err = "none" =>
                 /\ refused = Foreign(sent[Len(got) + 1])
                 /\ res.val = sent[Len(got) + 1].val /\ res.off = borders[Len(got) + 1]
            /\ res.err = "mismatch" =>
                 Foreign(sent[Len(got) + 1]) /\ res.off = borders[Len(got)] + HeaderLen,
         (~astray /\ Undisturbed /\ SmallItems /\ res.err \notin {"none", "mismatch"}) =>
            Len(got) = Len(sent) /\ res.err = ReadFullError(end, 0)
  PROVE  SingleInv'
<1>1. /\ ~(end = "open" /\ res.err \in EndOfInput)
      /\ pos' = res.off /\ rerr' = res.err /\ strayed' = astray
      /\ got' = IF res.err = "none" /\ ~astray
                THEN Append(got, [val |-> res.val, refused |-> refused])
                ELSE got
      /\ UNCHANGED <<wire, end, nulls, sent, torn, disturbed>>
  BY DEF Took, Returns, streamVars, senderVars
<1>2. PICK k : k = Len(got)
  OBVIOUS
<1>3. /\ Laid(stream, borders, Whole, sent, nulls) /\ Received(borders) /\ Answers
  BY DEF Delivered
<1>4. /\ sent \in Seq(Messages(nulls)) /\ Len(sent) \in Nat /\ Whole \in Nat /\ Whole <= Len(sent)
      /\ got \in Seq([val : Seq(Byte), refused : BOOLEAN]) /\ k \in Nat
      /\ \A i \in 1 .. k : i <= Whole =>
           got[i] = [val |-> sent[i].val, refused |-> Foreign(sent[i])]
      /\ Whole = Len(sent) => k <= Len(sent)
  <2>1. Whole \in 0 .. Len(sent) /\ sent \in Seq(Messages(nulls))
    BY <1>3 DEF Laid
  <2>2. got \in Seq([val : Seq(Byte), refused : BOOLEAN])
    BY <1>3 DEF Received
  <2> QED
    BY <1>2, <1>3, <2>1, <2>2 DEF Received
<1>5. Whole' = Whole /\ (Undisturbed' <=> Undisturbed)
  BY <1>1 DEF Whole, Undisturbed
<1>6. Received(borders)'
  <2>1. CASE res.err = "none" /\ ~astray
    <3>1. PICK o : o = [val |-> res.val, refused |-> refused]
      OBVIOUS
    <3>2. o \in [val : Seq(Byte), refused : BOOLEAN]
      BY <3>1
    <3>3. /\ got' = Append(got, o) /\ got' \in Seq([val : Seq(Byte), refused : BOOLEAN])
          /\ Len(got') = k + 1 /\ (\A i \in 1 .. k : got'[i] = got[i]) /\ got'[k + 1] = o
      BY <1>1, <1>2, <1>4, <2>1, <3>1, <3>2
    <3>4. ASSUME NEW i \in 1 .. k + 1, i <= Whole
          PROVE  got'[i] = [val |-> sent[i].val, refused |-> Foreign(sent[i])]
      <4>1. CASE i \in 1 .. k
        BY <1>4, <3>3, <3>4, <4>1
      <4>2. CASE i = k + 1
        <5>1. k < Whole
          BY <1>4, <3>4, <4>2
        <5>2. refused = Foreign(sent[k + 1]) /\ res.val = sent[k + 1].val
          BY <1>2, <2>1, <5>1
        <5> QED
          BY <3>1, <3>3, <4>2, <5>2
      <4> QED
        BY <1>4, <4>1, <4>2
    <3>5. Whole = Len(sent) => k + 1 <= Len(sent)
      BY <1>2, <1>4, <2>1
    <3>6. k + 1 <= Whole => res.off = borders[k + 1]
      BY <1>2, <1>4, <2>1
    <3> QED
      BY <1>1, <1>5, <2>1, <3>3, <3>4, <3>5, <3>6 DEF Received
  <2>2. CASE ~(res.err = "none" /\ ~astray)
    <3>1. got' = got
      BY <1>1, <2>2
    <3>2. (~astray /\ res.err = "mismatch" /\ k < Whole) =>
             Foreign(sent[k + 1]) /\ res.off = borders[k] + HeaderLen
      BY <1>2
    <3>3. (~astray /\ res.err = "mismatch" /\ Whole = Len(sent)) => k < Len(sent)
      BY <1>2
    <3> QED
      BY <1>1, <1>2, <1>4, <1>5, <2>2, <3>1, <3>2, <3>3 DEF Received
  <2> QED
    BY <2>1, <2>2
<1>7. Answers'
  <2> SUFFICES ASSUME Quiet', rerr' \notin {"none", "mismatch"}, SmallItems
               PROVE  rerr' = "eof" /\ Len(got') = Len(sent) /\ end # "open"
    BY <1>1 DEF Answers, SmallItems
  <2>1. ~astray /\ Undisturbed /\ got' = got
    BY <1>1 DEF Quiet, Undisturbed
  <2>2. Len(got) = Len(sent) /\ rerr' = ReadFullError(end, 0)
    BY <1>1, <2>1
  <2>3. rerr' \in EndOfInput
    BY <2>2 DEF ReadFullError, EndOfInput
  <2>4. end # "open" /\ end # "fault"
    BY <1>1, <2>1, <2>3 DEF Undisturbed, SingleInv
  <2> QED
    BY <2>1, <2>2, <2>4 DEF ReadFullError
<1>8. Delivered(stream, borders)'
  BY <1>1, <1>5, <1>6, <1>7 DEF Delivered, Healthy
<1>9. StreamTypeOK'
  BY <1>1 DEF SingleInv, StreamTypeOK
<1> QED
  BY <1>1, <1>8, <1>9 DEF SingleInv

LEMMA ReceiveKeeps ==
  ASSUME SingleInv, Receive
  PROVE  SingleInv'
<1>1. PICK stream, borders : Delivered(stream, borders)
  BY DEF SingleInv
<1>2. PICK res : res = UnmarshalSingleObject(pos)
  OBVIOUS
<1>3. PICK astray : astray = (strayed \/ rerr # "none")
  OBVIOUS
<1>4. Took(res, FALSE, astray) /\ astray \in BOOLEAN /\ (strayed => astray)
  BY <1>2, <1>3 DEF Receive, SingleInv
<1>5. res.off \in 0 .. Len(wire) /\ res.val \in Seq(Byte)
  <2>1. StreamTypeOK /\ pos \in 0 .. Len(wire)
    BY <1>1 DEF SingleInv, Delivered, Received
  <2> QED
    BY <1>2, <2>1, CallResult
<1>6. /\ Whole \in Nat /\ Whole <= Len(sent) /\ Len(sent) \in Nat /\ Len(got) \in Nat
      /\ Whole = Len(sent) => Len(got) <= Whole
      /\ Undisturbed => Whole = Len(sent)
  <2>1. /\ Whole \in 0 .. Len(sent) /\ sent \in Seq(Messages(nulls))
        /\ got \in Seq([val : Seq(Byte), refused : BOOLEAN])
        /\ Whole = Len(sent) => Len(got) <= Len(sent)
    BY <1>1 DEF Delivered, Laid, Received
  <2> QED
    BY <2>1 DEF Undisturbed, Whole
<1>7. (~astray /\ Whole = Len(sent)) => Len(got) < Whole \/ res.err \notin {"none", "mismatch"}
  <2> SUFFICES ASSUME ~astray, Whole = Len(sent), ~(Len(got) < Whole)
               PROVE  res.err \notin {"none", "mismatch"}
    OBVIOUS
  <2>0. Len(got) = Whole /\ rerr = "none" /\ ~strayed /\ StreamTypeOK
    <3>1. Len(got) = Whole
      BY <1>6
    <3>2. rerr = "none" /\ ~strayed /\ StreamTypeOK
      BY <1>3 DEF SingleInv
    <3> QED
      BY <3>1, <3>2
  <2>1. Outcome(res, borders)
    BY <1>1, <1>2, <2>0, OutcomeAtTheEnd
  <2> QED
    BY <2>1 DEF Outcome
<1>8. (~astray /\ Len(got) < Whole) =>
        /\ res.err = "none" =>
             /\ FALSE = Foreign(sent[Len(got) + 1])
             /\ res.val = sent[Len(got) + 1].val /\ res.off = borders[Len(got) + 1]
        /\ res.err = "mismatch" =>
             Foreign(sent[Len(got) + 1]) /\ res.off = borders[Len(got)] + HeaderLen
  <2> SUFFICES ASSUME ~astray, Len(got) < Whole
               PROVE  /\ res.err = "none" =>
                           /\ FALSE = Foreign(sent[Len(got) + 1])
                           /\ res.val = sent[Len(got) + 1].val
                           /\ res.off = borders[Len(got) + 1]
                      /\ res.err = "mismatch" =>
                           /\ Foreign(sent[Len(got) + 1])
                           /\ res.off = borders[Len(got)] + HeaderLen
    OBVIOUS
  <2>1. Outcome(res, borders)
    BY <1>1, <1>2, <1>3, OutcomeBefore DEF SingleInv
  <2>2. Foreign(sent[Len(got) + 1]) \in BOOLEAN
    BY DEF Foreign
  <2> QED
    BY <2>1, <2>2 DEF Outcome
<1>9. (~astray /\ Undisturbed /\ SmallItems /\ res.err \notin {"none", "mismatch"}) =>
        Len(got) = Len(sent) /\ res.err = ReadFullError(end, 0)
  <2> SUFFICES ASSUME ~astray, Undisturbed, SmallItems, res.err \notin {"none", "mismatch"}
               PROVE  Len(got) = Len(sent) /\ res.err = ReadFullError(end, 0)
    OBVIOUS
  <2>1. Len(got) < Whole \/ (Len(got) = Whole /\ Whole = Len(sent))
    BY <1>6
  <2>2. Outcome(res, borders)
    BY <1>1, <1>2, <1>3, <2>1, OutcomeAtTheEnd, OutcomeBefore DEF SingleInv
  <2> QED
    BY <2>2 DEF Outcome
<1> QED
  BY <1>1, <1>4, <1>5, <1>7, <1>8, <1>9, TookKeeps

LEMMA ReadRefusedKeeps ==
  ASSUME SingleInv, ReadRefused
  PROVE  SingleInv'
<1>1. PICK stream, borders : Delivered(stream, borders)
  BY DEF SingleInv
<1>2. PICK res : res = Unmarshal(pos)
  OBVIOUS
<1>3. Took(res, TRUE, FALSE) /\ ~strayed /\ rerr = "mismatch"
  BY <1>2 DEF ReadRefused
<1>4. StreamTypeOK /\ pos \in 0 .. Len(wire) /\ Len(wire) \in Nat
  BY <1>1 DEF SingleInv, Delivered, Received, StreamTypeOK
<1>5. Consumed(res, pos) /\ res.val \in Seq(Byte) /\ res.err \in ReaderErrors
  BY <1>2, <1>4, UnmarshalResult
<1>6. res.off \in 0 .. Len(wire) /\ res.err # "mismatch"
  BY <1>4, <1>5 DEF Consumed, ReaderErrors, EndOfInput
<1>7. Whole = Len(sent) => Len(got) < Whole
  BY <1>1, <1>3 DEF Delivered, Received
<1>8. Undisturbed => Whole = Len(sent)
  BY DEF Undisturbed, Whole
<1>9. Len(got) < Whole =>
        /\ Foreign(sent[Len(got) + 1])
        /\ res.err = "none" =>
             res.val = sent[Len(got) + 1].val /\ res.off = borders[Len(got) + 1]
        /\ (Undisturbed /\ SmallItems) => res.err = "none"
  BY <1>1, <1>2, <1>3, <1>4, RefusedAt
<1>10. (Undisturbed /\ SmallItems) => res.err = "none"
  BY <1>7, <1>8, <1>9
<1>11. Len(got) < Whole => TRUE = Foreign(sent[Len(got) + 1])
  <2>1. Foreign(sent[Len(got) + 1]) \in BOOLEAN
    BY DEF Foreign
  <2> QED
    BY <1>9, <2>1
<1> QED
  BY <1>1, <1>3, <1>5, <1>6, <1>7, <1>9, <1>10, <1>11, TookKeeps

LEMMA InitKeeps == Init => SingleInv
<1> SUFFICES ASSUME Init PROVE SingleInv
  OBVIOUS
<1>1. /\ nulls \in BOOLEAN /\ wire = << >> /\ end = "open" /\ sent = << >> /\ torn = 0
      /\ pos = 0 /\ got = << >> /\ rerr = "none" /\ strayed = FALSE /\ disturbed = FALSE
  BY DEF Init
<1>2. PICK borders : borders = [i \in 0 .. 0 |-> 0]
  OBVIOUS
<1>3. Whole = 0 /\ Len(sent) = 0 /\ Healthy = 0 /\ borders[0] = 0 /\ Len(wire) = 0
  BY <1>1, <1>2 DEF Whole, Healthy
<1>4. Laid(<< >>, borders, 0, sent, nulls)
  <2>1. << >> \in Seq(Byte) /\ << >> \in Seq(Messages(nulls)) /\ Len(<< >>) = 0
    OBVIOUS
  <2>2. /\ \A i \in 0 .. 0 : borders[i] \in Nat
        /\ \A i, j \in 0 .. 0 : borders[i] <= borders[j]
        /\ 1 .. 0 = {} /\ 0 \in 0 .. 0
    BY <1>2
  <2> QED
    BY <1>1, <1>3, <2>1, <2>2 DEF Laid
<1>5. Received(borders)
  <2>1. << >> \in Seq([val : Seq(Byte), refused : BOOLEAN]) /\ Len(got) = 0 /\ 0 \in 0 .. 0
    BY <1>1
  <2> QED
    BY <1>1, <1>3, <2>1 DEF Received
<1>6. Answers /\ Begins(wire, << >>)
  BY <1>1 DEF Answers, Begins
<1>7. Delivered(<< >>, borders)
  BY <1>1, <1>3, <1>4, <1>5, <1>6 DEF Delivered
<1>8. StreamTypeOK
  BY <1>1 DEF StreamTypeOK, Ends
<1>9. torn \in 0 .. Len(sent)
  BY <1>1, <1>3
<1> QED
  BY <1>1, <1>7, <1>8, <1>9 DEF SingleInv

LEMMA NextKeeps == SingleInv /\ [Next]_vars => SingleInv'
<1> SUFFICES ASSUME SingleInv, [Next]_vars PROVE SingleInv'
  OBVIOUS
<1>1. ASSUME NEW s \in DOMAIN Fingerprint, NEW v \in Values, Send(s, v)
      PROVE  SingleInv'
  BY <1>1, SendKeeps
<1>2. CASE Receive
  BY <1>2, ReceiveKeeps
<1>3. CASE ReadRefused
  BY <1>3, ReadRefusedKeeps
<1>4. CASE Leave
  BY <1>4, LeaveKeeps
<1>5. CASE Lose
  BY <1>5, LoseKeeps
<1>6. CASE UNCHANGED vars
  <2>1. UNCHANGED <<wire, end, nulls, sent, torn, pos, rerr, strayed, got, disturbed>>
    BY <1>6 DEF vars, streamVars, senderVars, receiverVars
  <2>2. PICK stream, borders : Delivered(stream, borders)
    BY DEF SingleInv
  <2>3. Received(borders)'
    BY <2>1, <2>2 DEF Delivered, Received, Whole
  <2>4. Answers'
    BY <2>1, <2>2 DEF Delivered, Answers, Quiet, SmallItems
  <2>5. Delivered(stream, borders)'
    BY <2>1, <2>2, <2>3, <2>4 DEF Delivered, Undisturbed, Whole, Healthy
  <2> QED
    BY <2>1, <2>5 DEF SingleInv, StreamTypeOK
<1> QED
  BY <1>1, <1>2, <1>3, <1>4, <1>5, <1>6 DEF Next

LEMMA SingleInvHolds == Spec => []SingleInv
BY InitKeeps, NextKeeps, PTL DEF Spec

-----------------------------------------------------------------------------

(***************************************************************************)
(* UnmarshalSingleObject (single_object.go:71) returns the objects of the  *)
(* reader's schema and refuses the others, in the order in which           *)
(* MarshalSingleObject began them, wherever the stream was cut: up to the  *)
(* first that a failed call left torn with more behind it, and until the   *)
(* reader calls again after an error, which neither function prevents.     *)
(***************************************************************************)
THEOREM OnlySentIsDelivered == Spec => []DeliversOnlySent
<1>1. SingleInv => DeliversOnlySent
  BY DEF SingleInv, Delivered, Received, DeliversOnlySent
<1> QED
  BY <1>1, SingleInvHolds, PTL

(***************************************************************************)
(* While no write failed and no byte was lost, UnmarshalSingleObject       *)
(* (single_object.go:71) returns every object of the reader's schema and   *)
(* names every other one as such until the clean end of the stream, to a   *)
(* reader that reads by hand the objects it refused.                       *)
(* An item longer than an int can say is what BinaryReader refuses.        *)
(***************************************************************************)
THEOREM QuietStreamsAreDelivered ==
  ASSUME \A v \in Items : Len(v) < IntHalf
  PROVE  Spec => []QuietStreamIsDelivered
<1>1. SmallItems
  BY DEF SmallItems
<1>2. ASSUME SingleInv, Quiet, rerr # "none"
      PROVE  \/ rerr = "eof" /\ Len(got) = Len(sent)
             \/ rerr = "mismatch" /\ Len(got) < Len(sent) /\ Foreign(sent[Len(got) + 1])
  <2>1. PICK stream, borders : Delivered(stream, borders)
    BY <1>2 DEF SingleInv
  <2>2. Whole = Len(sent) /\ ~strayed
    BY <1>2 DEF Quiet, Whole
  <2> QED
    BY <1>1, <1>2, <2>1, <2>2 DEF Delivered, Received, Answers
<1>3. SingleInv => QuietStreamIsDelivered
  BY <1>2 DEF QuietStreamIsDelivered
<1> QED
  BY <1>3, SingleInvHolds, PTL

(***************************************************************************)
(* ErrFingerprintMismatch (single_object.go:87) leaves the io.Reader right *)
(* behind the header: what follows decodes as the refused object's value.  *)
(***************************************************************************)
THEOREM MismatchesKeepThePayload ==
  ASSUME \A v \in Items : Len(v) < IntHalf
  PROVE  Spec => []MismatchKeepsPayload
<1>1. ASSUME SingleInv, Quiet, rerr = "mismatch"
      PROVE  Unmarshal(pos).err = "none" /\ Unmarshal(pos).val = sent[Len(got) + 1].val
  <2>1. PICK stream, borders : Delivered(stream, borders)
    BY <1>1 DEF SingleInv
  <2>2. Whole = Len(sent) /\ ~strayed /\ Undisturbed /\ SmallItems /\ StreamTypeOK
    BY <1>1 DEF Quiet, Undisturbed, Whole, SmallItems, SingleInv
  <2>3. Len(got) < Whole
    BY <1>1, <2>1, <2>2 DEF Delivered, Received
  <2> QED
    BY <1>1, <2>1, <2>2, <2>3, RefusedAt
<1>2. SingleInv => MismatchKeepsPayload
  BY <1>1 DEF MismatchKeepsPayload
<1> QED
  BY <1>2, SingleInvHolds, PTL

(***************************************************************************)
(* The two io.ReadFull of a header (single_object.go:73, 82) tell a stream *)
(* that ends inside it from one that ends before it, but for an end right  *)
(* behind the magic, which reads as one between two objects.               *)
(***************************************************************************)
THEOREM CutHeadersAreTold == Spec => CutHeaderIsTold
<1>1. ASSUME SingleInv, [Next]_vars, InStep, rerr' # "none", end = "eof",
             Len(wire) - pos < Len(Magic) + FingerprintLen
      PROVE  rerr' = IF Len(wire) - pos \in {0, Len(Magic)} THEN "eof" ELSE "unexpectedEOF"
  <2>1. rerr = "none" /\ ~strayed /\ (Len(got) < Whole \/ Whole = Len(sent))
    BY <1>1 DEF InStep
  <2>2. Receive
    BY <1>1, <2>1 DEF Next, Send, ReadRefused, Leave, Lose, vars, receiverVars
  <2>3. PICK stream, borders : Delivered(stream, borders)
    BY <1>1 DEF SingleInv
  <2>4. Len(got) < Whole \/ (Len(got) = Whole /\ Whole = Len(sent))
    <3>1. /\ Whole = Len(sent) => Len(got) <= Len(sent)
          /\ got \in Seq([val : Seq(Byte), refused : BOOLEAN]) /\ sent \in Seq(Messages(nulls))
      BY <2>3 DEF Delivered, Received, Laid
    <3>2. Len(got) \in Nat /\ Len(sent) \in Nat
      BY <3>1
    <3> QED
      BY <2>1, <3>1, <3>2
  <2>5. Outcome(UnmarshalSingleObject(pos), borders)
    BY <1>1, <2>1, <2>3, <2>4, OutcomeAtTheEnd, OutcomeBefore DEF SingleInv
  <2>6. PICK rest : rest = Len(wire) - pos
    OBVIOUS
  <2>7. rerr' = ReadFullError(end, IF rest < Len(Magic) THEN rest ELSE rest - Len(Magic))
    BY <1>1, <2>2, <2>5, <2>6 DEF Receive, Took, Outcome, HeaderLen
  <2>8. rest \in Nat /\ Len(Magic) \in Nat \ {0}
    <3>1. Len(wire) \in Nat /\ pos \in 0 .. Len(wire)
      BY <1>1, <2>3 DEF SingleInv, StreamTypeOK, Delivered, Received
    <3> QED
      BY <2>6, <3>1, HeaderFacts
  <2> QED
    BY <1>1, <2>6, <2>7, <2>8 DEF ReadFullError
<1>2. Spec => [][Next]_vars
  BY PTL DEF Spec
<1>3. SingleInv /\ [Next]_vars =>
        [(InStep /\ rerr' # "none" /\ end = "eof"
            /\ Len(wire) - pos < Len(Magic) + FingerprintLen)
           => rerr' = IF Len(wire) - pos \in {0, Len(Magic)} THEN "eof" ELSE "unexpectedEOF"]_vars
  BY <1>1
<1> QED
  BY <1>2, <1>3, SingleInvHolds, PTL DEF CutHeaderIsTold
=============================================================================
