------------------------ MODULE TensorConverterProofs -----------------------
(* What holds of get_infer_request for integers of any width, any number   *)
(* of tensors and any shapes.                                              *)
EXTENDS TensorConverter, Modular

-----------------------------------------------------------------------------
(* Arithmetic modulo the width of a type.                                  *)

(* x and y are the same int.                                               *)
SameInt(x, y) == \E c \in Int : x = y + IntRange * c

(* Numbers that are equal modulo the width of int convert to one int.      *)
LEMMA SameIntConverts ==
    ASSUME NEW x \in Int, NEW y \in Int, SameInt(x, y)
    PROVE  ToInt(x) = ToInt(y)
<1>1. PICK c \in Int : x = y + IntRange * c
  BY DEF SameInt
<1> DEFINE d == y \div IntRange
           r == y % IntRange
<1>2. d \in Int /\ r \in 0..(IntRange - 1) /\ y = IntRange * d + r
  BY WidthsAssumption, DivMod
<1> HIDE DEF d, r
<1>3. IntRange * (d + c) = IntRange * d + IntRange * c
  BY <1>2, WidthsAssumption
<1>4. x = IntRange * (d + c) + r
  BY <1>1, <1>2, <1>3, WidthsAssumption
<1>5. d + c \in Int
  BY <1>2
<1>6. x % IntRange = r
  <2> DEFINE q == d + c
  <2>1. q \in Int
    BY <1>5
  <2> HIDE DEF q
  <2>2. (IntRange * q + r) % IntRange = r
    BY <1>2, <2>1, ModUnique, WidthsAssumption
  <2> QED BY <1>4, <2>2 DEF q
<1> QED BY <1>6 DEF ToInt, r

(* Conversions keep an integer the same int.                               *)
LEMMA IntKept ==
    ASSUME NEW x \in Int
    PROVE  ToInt(x) \in Int /\ SameInt(ToInt(x), x)
<1> DEFINE d == x \div IntRange
           r == x % IntRange
<1>1. d \in Int /\ r \in 0..(IntRange - 1) /\ x = IntRange * d + r
  BY WidthsAssumption, DivMod
<1>2. ToInt(x) = r \/ ToInt(x) = r - IntRange
  BY DEF ToInt
<1> HIDE DEF d, r
<1>3. IntRange * (-d) = -(IntRange * d) /\ IntRange * (-d - 1) = -(IntRange * d) - IntRange
  BY <1>1, WidthsAssumption
<1>4. ToInt(x) = x + IntRange * (-d) \/ ToInt(x) = x + IntRange * (-d - 1)
  BY <1>1, <1>2, <1>3, WidthsAssumption
<1>5. -d \in Int /\ -d - 1 \in Int /\ ToInt(x) \in Int
  BY <1>1, <1>2, WidthsAssumption
<1> QED BY <1>4, <1>5 DEF SameInt

(* Cutting a number to a size_t keeps it modulo the width of int.          *)
LEMMA SizeKept ==
    ASSUME NEW x \in Int
    PROVE  ToSize(x) \in 0..(SizeRange - 1) /\ SameInt(ToSize(x), x)
<1> DEFINE d == x \div SizeRange
           k == SizeRange \div IntRange
<1>1. d \in Int /\ ToSize(x) \in 0..(SizeRange - 1) /\ x = SizeRange * d + ToSize(x)
  BY WidthsAssumption, DivMod DEF ToSize
<1>2. k \in Int /\ SizeRange = IntRange * k
  BY WidthsAssumption, DivMod
<1> HIDE DEF d, k
<1>3. (IntRange * k) * d = IntRange * (k * d)
  BY <1>1, <1>2, WidthsAssumption
<1>4. IntRange * (-(k * d)) = -(IntRange * (k * d)) /\ -(k * d) \in Int
  <2>1. k * d \in Int
    BY <1>1, <1>2
  <2> QED BY <2>1, WidthsAssumption
<1>5. k * d \in Int /\ IntRange * (k * d) \in Int
  BY <1>1, <1>2, WidthsAssumption
<1>6. ToSize(x) = x - SizeRange * d
  BY <1>1, WidthsAssumption
<1>7. SizeRange * d = IntRange * (k * d)
  BY <1>2, <1>3
<1>8. ToSize(x) = x + IntRange * (-(k * d))
  BY <1>4, <1>5, <1>6, <1>7, WidthsAssumption
<1> QED BY <1>1, <1>4, <1>8 DEF SameInt

(* Being equal modulo the width of int is transitive.                      *)
LEMMA SameIntTransitive ==
    ASSUME NEW x \in Int, NEW y \in Int, NEW z \in Int, SameInt(x, y), SameInt(y, z)
    PROVE  SameInt(x, z)
<1>1. PICK c \in Int : x = y + IntRange * c
  BY DEF SameInt
<1>2. PICK e \in Int : y = z + IntRange * e
  BY DEF SameInt
<1>3. IntRange * (c + e) = IntRange * c + IntRange * e /\ c + e \in Int
  BY WidthsAssumption
<1>4. x = z + IntRange * (c + e)
  BY <1>1, <1>2, <1>3, WidthsAssumption
<1> QED BY <1>3, <1>4 DEF SameInt

(* And compatible with multiplication.                                     *)
LEMMA SameIntTimes ==
    ASSUME NEW x \in Int, NEW y \in Int, NEW f \in Int, SameInt(x, y)
    PROVE  SameInt(x * f, y * f)
<1>1. PICK c \in Int : x = y + IntRange * c
  BY DEF SameInt
<1>2. (y + IntRange * c) * f = y * f + IntRange * (c * f) /\ c * f \in Int
  BY WidthsAssumption
<1> QED BY <1>1, <1>2 DEF SameInt

(* One step of std::accumulate is one multiplication modulo the width of   *)
(* int, whatever the types in between.                                     *)
LEMMA AccumulateStep ==
    ASSUME NEW e \in Int, NEW f \in Int
    PROVE  ToInt(ToSize(ToSize(ToInt(e)) * f)) = ToInt(e * f)
<1> DEFINE a == ToInt(e)
           b == ToSize(a)
           c == ToSize(b * f)
<1>1. a \in Int /\ SameInt(a, e)
  BY IntKept
<1>2. b \in Int /\ SameInt(b, a)
  BY <1>1, SizeKept, WidthsAssumption
<1> HIDE DEF a, b
<1>3. SameInt(b, e)
  BY <1>1, <1>2, SameIntTransitive
<1>4. b * f \in Int /\ e * f \in Int /\ SameInt(b * f, e * f)
  <2>1. b * f \in Int /\ e * f \in Int
    BY <1>2
  <2>2. b \in Int /\ e \in Int /\ f \in Int
    BY <1>2
  <2>3. SameInt(b * f, e * f)
    BY <2>2, <1>3, SameIntTimes, Zenon
  <2> QED BY <2>1, <2>3
<1>5. c \in Int /\ SameInt(c, b * f)
  BY <1>4, SizeKept, WidthsAssumption
<1>6. SameInt(c, e * f)
  BY <1>4, <1>5, SameIntTransitive
<1> QED BY <1>4, <1>5, <1>6, SameIntConverts DEF a, b

(* A number of elements that an int can count converts to itself.          *)
LEMMA FitsUnchanged ==
    ASSUME NEW n \in Nat, Fits(n)
    PROVE  ToInt(n) = n /\ ToSize(n) = n
<1>1. n \in 0..(IntRange - 1)
  BY WidthsAssumption DEF Fits
<1>2. IntRange <= SizeRange
  <2> DEFINE k == SizeRange \div IntRange
  <2>1. k \in Int /\ SizeRange = IntRange * k
    BY WidthsAssumption, DivMod
  <2> HIDE DEF k
  <2>2. IntRange * 0 < IntRange * k
    BY <2>1, WidthsAssumption
  <2>3. CASE k < 1
    <3>1. PICK j \in Nat : k = -j
      <4>1. -k \in Nat
        BY <2>1, <2>3
      <4> QED BY <4>1, <2>1
    <3>2. IntRange * k = -(IntRange * j) /\ IntRange * j \in Nat
      BY <3>1, WidthsAssumption
    <3> QED BY <2>1, <2>2, <3>2, WidthsAssumption
  <2>4. CASE k >= 1
    <3>1. PICK j \in Nat : k = 1 + j
      <4>1. k - 1 \in Nat
        BY <2>1, <2>4
      <4> QED BY <4>1, <2>1
    <3>2. IntRange * k = IntRange + IntRange * j /\ IntRange * j \in Nat
      BY <3>1, WidthsAssumption
    <3> QED BY <2>1, <3>2, WidthsAssumption
  <2> QED BY <2>1, <2>3, <2>4
<1>3. IntRange * 0 + n = n /\ SizeRange * 0 + n = n /\ n \in 0..(SizeRange - 1)
  BY <1>1, <1>2, WidthsAssumption
<1>4. n % IntRange = n
  <2>1. (IntRange * 0 + n) % IntRange = n
    BY <1>1, ModUnique, WidthsAssumption
  <2> QED BY <2>1, <1>3
<1>5. n % SizeRange = n
  <2>1. (SizeRange * 0 + n) % SizeRange = n
    BY <1>3, ModUnique, WidthsAssumption
  <2> QED BY <2>1, <1>3
<1> QED BY <1>4, <1>5 DEF ToInt, ToSize, Fits

-----------------------------------------------------------------------------
(* Types.                                                                  *)

(* The tensor at work is one of the caller's.                              *)
LEMMA CurrentTyped ==
    ASSUME TypeOK, at \in {"size", "write"}
    PROVE  /\ Len(request) \in 1..Len(inputs) /\ Current \in Tensors
           /\ Last \in Message /\ Last = request[Len(request)]
BY DEF TypeOK, Current, Last

(* The element of a sequence that comes after the first d.                 *)
LEMMA NextElement ==
    ASSUME NEW S, NEW s \in Seq(S), NEW d \in Nat, d < Len(s)
    PROVE  s[d + 1] \in S
<1>1. d + 1 \in 1..Len(s)
  OBVIOUS
<1> QED BY <1>1

(* Only the last message is amended.                                       *)
LEMMA Amended ==
    ASSUME TypeOK, Len(request) > 0, NEW msg \in Message, request' = Amend(msg)
    PROVE  /\ request' \in Seq(Message) /\ Len(request') = Len(request)
           /\ request'[Len(request)] = msg
           /\ \A k \in 1..Len(request) : k # Len(request) => request'[k] = request[k]
BY DEF TypeOK, Amend

(* Reading behind the buffer or not is a truth value.                      *)
LEMMA BehindBoolean == (Current.nul >= elements) \in BOOLEAN
OBVIOUS

(* The dimensions of a message are integers.                               *)
LEMMA WireShape ==
    ASSUME NEW s \in Seq(0..(SizeRange - 1))
    PROVE  [k \in 1..Len(s) |-> ToInt64(s[k])] \in Seq(Int)
<1>1. \A k \in 1..Len(s) : ToInt64(s[k]) \in Int
  BY WidthsAssumption DEF ToInt64
<1> QED BY <1>1

(* TensorConverter: every variable has its type, so that the size is a     *)
(* size_t and the loop counter an unsigned int.                            *)
THEOREM ConverterTyped == Spec => []TypeOK
<1>1. Init => TypeOK
  BY InputsAssumption, WidthsAssumption DEF Init, TypeOK
<1>2. TypeOK /\ [Next]_vars => TypeOK'
  <2> SUFFICES ASSUME TypeOK, [Next]_vars PROVE TypeOK'
    OBVIOUS
  <2>1. CASE NextTensor
    <3> DEFINE tensor == inputs[Len(request) + 1]
               msg == [shape |-> [k \in 1..Len(tensor.shape) |-> ToInt64(tensor.shape[k])],
                       datatype |-> tensor.datatype, elements |-> 1, count |-> 0,
                       overrun |-> FALSE]
    <3>1. tensor \in Tensors /\ Len(request) + 1 <= Len(inputs)
      BY <2>1 DEF NextTensor, TypeOK
    <3>2. tensor.shape \in Seq(0..(SizeRange - 1)) /\ tensor.datatype \in DataTypes
      BY <3>1 DEF Tensors
    <3>3. [k \in 1..Len(tensor.shape) |-> ToInt64(tensor.shape[k])] \in Seq(Int)
      BY <3>2, WireShape
    <3>4. msg \in Message
      BY <3>2, <3>3 DEF Message
    <3>5. request' = Append(request, msg)
      BY <2>1 DEF NextTensor
    <3> HIDE DEF msg
    <3>6. request' \in Seq(Message) /\ Len(request') = Len(request) + 1
      BY <3>4, <3>5 DEF TypeOK
    <3> QED BY <2>1, <3>1, <3>6 DEF NextTensor, TypeOK
  <2>2. CASE Return
    BY <2>2 DEF Return, TypeOK
  <2>3. CASE Multiply
    <3>0. /\ Current \in Tensors /\ Last \in Message /\ Len(request) > 0
          /\ dim < Len(Current.shape) /\ dim \in Nat
      BY <2>3, CurrentTyped DEF Multiply, TypeOK
    <3>1. /\ Current.shape[dim + 1] \in 0..(SizeRange - 1)
          /\ dim' \in Nat
      <4> DEFINE s == Current.shape
      <4>1. s \in Seq(0..(SizeRange - 1)) /\ dim < Len(s)
        BY <3>0 DEF Tensors
      <4> HIDE DEF s
      <4>2. s[dim + 1] \in 0..(SizeRange - 1)
        BY <3>0, <4>1, NextElement
      <4> QED BY <2>3, <3>0, <4>2 DEF Multiply, s
    <3>2. elements' \in Nat
      <4>1. elements \in Nat /\ Current.shape[dim + 1] \in Nat
        BY <3>1, WidthsAssumption DEF TypeOK
      <4> QED BY <2>3, <4>1 DEF Multiply
    <3>3. acc' \in Int
      <4> DEFINE b == ToSize(acc)
                 f == Current.shape[dim + 1]
      <4>1. b \in Int /\ f \in Int
        <5>1. acc \in Int
          BY DEF TypeOK
        <5>2. b \in 0..(SizeRange - 1)
          BY <5>1, SizeKept
        <5> QED BY <3>1, <5>2, WidthsAssumption
      <4>2. acc' = ToInt(ToSize(b * f))
        BY <2>3 DEF Multiply
      <4> HIDE DEF b, f
      <4>3. b * f \in Int
        BY <4>1
      <4>4. ToSize(b * f) \in Int
        BY <4>3, SizeKept, WidthsAssumption
      <4> QED BY <4>2, <4>4, IntKept
    <3>4. request' \in Seq(Message) /\ Len(request') = Len(request)
      <4> DEFINE msg == [Last EXCEPT !.elements = elements']
      <4>1. request' = Amend(msg)
        BY <2>3 DEF Multiply
      <4>2. msg \in Message
        BY <3>0, <3>2 DEF Message
      <4> HIDE DEF msg
      <4> QED BY <3>0, <4>1, <4>2, Amended
    <3> QED BY <2>3, <3>1, <3>2, <3>3, <3>4 DEF Multiply, TypeOK
  <2>4. CASE Dispatch
    <3>1. size' \in 0..(SizeRange - 1)
      BY <2>4, SizeKept DEF Dispatch, TypeOK
    <3>2. i' \in 0..(IndexRange - 1)
      BY <2>4, WidthsAssumption DEF Dispatch
    <3> QED BY <2>4, <3>1, <3>2 DEF Dispatch, TypeOK
  <2>5. CASE AddString
    <3>1. size' \in 0..(SizeRange - 1)
      BY <2>5, SizeKept DEF AddString, TypeOK
    <3>2. request' \in Seq(Message) /\ Len(request') = Len(request)
      <4> DEFINE msg == [Last EXCEPT !.count = 1, !.overrun = Current.nul >= elements]
      <4>1. Last \in Message /\ Len(request) > 0
        BY <2>5, CurrentTyped DEF AddString
      <4>2. request' = Amend(msg)
        BY <2>5 DEF AddString
      <4>3. msg \in Message
        BY <4>1, BehindBoolean DEF Message
      <4> HIDE DEF msg
      <4> QED BY <4>1, <4>2, <4>3, Amended
    <3>3. i' \in 0..(IndexRange - 1)
      BY <2>5, WidthsAssumption DEF AddString
    <3> QED BY <2>5, <3>1, <3>2, <3>3 DEF AddString, TypeOK
  <2>6. CASE Write
    <3>1. request' \in Seq(Message) /\ Len(request') = Len(request)
      <4> DEFINE msg == [Last EXCEPT !.count = @ + 1, !.overrun = @ \/ i >= elements]
      <4>1. Last \in Message /\ Len(request) > 0
        BY <2>6, CurrentTyped DEF Write
      <4>2. request' = Amend(msg)
        BY <2>6 DEF Write
      <4>3. msg \in Message
        <5>1. Last.count + 1 \in Nat /\ (Last.overrun \/ i >= elements) \in BOOLEAN
          BY <4>1 DEF Message
        <5> QED BY <4>1, <5>1 DEF Message
      <4> HIDE DEF msg
      <4> QED BY <4>1, <4>2, <4>3, Amended
    <3>2. i' \in 0..(IndexRange - 1)
      BY <2>6, WidthsAssumption, SMTT(20) DEF Write, TypeOK
    <3> QED BY <2>6, <3>1, <3>2 DEF Write, TypeOK
  <2>7. CASE WriteFails
    BY <2>7 DEF WriteFails, TypeOK
  <2>8. CASE WriteEnd
    BY <2>8 DEF WriteEnd, TypeOK
  <2>9. CASE UNCHANGED vars
    BY <2>9 DEF vars, TypeOK
  <2> QED
    BY <2>1, <2>2, <2>3, <2>4, <2>5, <2>6, <2>7, <2>8, <2>9 DEF Next, Step
<1> QED BY <1>1, <1>2, PTL DEF Spec

-----------------------------------------------------------------------------
(* What is read and what is copied.                                        *)

(* The message of the tensor at work: how far it is.                       *)
Progress ==
    /\ at \in {"size", "write"} => Last.elements = elements
    /\ at \in {"size", "write"} => Last.datatype = Current.datatype
    /\ at = "size" => Last.count = 0 /\ ~Last.overrun
    /\ at = "write" => Current.datatype \in PlainTypes
    /\ at = "write" /\ Fits(elements) => Last.count = i /\ i <= size

CopyInv == SizeExact /\ Progress /\ ReadsInBounds /\ CopiesAll

(* The messages of the tensors before are not touched.                     *)
LEMMA OthersKept ==
    ASSUME TypeOK, CopyInv, Len(request) > 0, NEW msg \in Message, request' = Amend(msg),
           at \in {"size", "write"}, inputs' = inputs,
           msg.overrun => ~Readable(Current, msg.elements),
           /\ msg.datatype \in PlainTypes /\ Fits(msg.elements) /\ at' \in {"next", "done"}
              => msg.count = msg.elements
    PROVE  ReadsInBounds' /\ CopiesAll'
<1> DEFINE n == Len(request)
<1>1. /\ request' \in Seq(Message) /\ Len(request') = n /\ n \in Nat
      /\ request'[n] = msg
      /\ \A k \in 1..n : k # n => request'[k] = request[k]
  BY Amended DEF TypeOK
<1>2. ASSUME NEW k \in 1..n
      PROVE  /\ request'[k].overrun => ~Readable(inputs[k], request'[k].elements)
             /\ /\ request'[k].datatype \in PlainTypes /\ Fits(request'[k].elements)
                /\ k < n \/ at' \in {"next", "done"}
                => request'[k].count = request'[k].elements
  <2>1. CASE k = n
    BY <1>1, <2>1 DEF Current
  <2>2. CASE k # n
    <3>1. k < n /\ request'[k] = request[k]
      BY <1>1, <2>2
    <3> QED BY <3>1 DEF CopyInv, ReadsInBounds, CopiesAll
  <2> QED BY <2>1, <2>2
<1>3. ReadsInBounds'
  BY <1>1, <1>2 DEF ReadsInBounds, Readable, Fits
<1>4. CopiesAll'
  BY <1>1, <1>2 DEF CopiesAll, Fits
<1> QED BY <1>3, <1>4

(* One step of std::accumulate keeps CopyInv.                              *)
LEMMA MultiplyCopies ==
    ASSUME TypeOK, CopyInv, Multiply
    PROVE  CopyInv'
<1> DEFINE msg == [Last EXCEPT !.elements = elements']
           f == Current.shape[dim + 1]
<1>1. /\ Last \in Message /\ Len(request) > 0 /\ Current \in Tensors
      /\ dim < Len(Current.shape) /\ dim \in Nat
  BY CurrentTyped DEF Multiply, TypeOK
<1>2. f \in Nat
  <2>1. Current.shape \in Seq(0..(SizeRange - 1))
    BY <1>1 DEF Tensors
  <2>2. f \in 0..(SizeRange - 1)
    BY <1>1, <2>1, NextElement
  <2> QED BY <2>2, WidthsAssumption
<1>3. elements \in Nat /\ elements' = elements * f /\ elements' \in Nat
  <2>1. elements \in Nat /\ elements' = elements * f
    BY DEF Multiply, TypeOK
  <2> HIDE DEF f
  <2> QED BY <1>2, <2>1
<1>4. msg \in Message /\ request' = Amend(msg)
  BY <1>1, <1>3 DEF Multiply, Message
<1>5. at = "size" /\ at' = "size" /\ inputs' = inputs
  BY DEF Multiply
<1>6. SizeExact'
  <2>1. acc = ToInt(elements)
    BY <1>5 DEF CopyInv, SizeExact
  <2>2. acc' = ToInt(ToSize(ToSize(acc) * f))
    BY DEF Multiply
  <2> HIDE DEF f
  <2>3. acc' = ToInt(elements * f)
    BY <1>2, <1>3, <2>1, <2>2, AccumulateStep
  <2>4. acc' = ToInt(elements')
    BY <1>3, <2>3
  <2> QED BY <1>5, <2>4 DEF SizeExact, ToInt, Fits
<1>7. /\ msg.elements = elements' /\ msg.count = Last.count /\ msg.overrun = Last.overrun
      /\ msg.datatype = Last.datatype
  BY <1>1 DEF Message
<1> HIDE DEF msg
<1>8. Last' = msg /\ Current' = Current
  BY <1>1, <1>4, <1>5, Amended DEF Last, Current
<1>9. ~Last.overrun /\ Last.count = 0 /\ Last.datatype = Current.datatype
  BY <1>5 DEF CopyInv, Progress
<1>10. Progress'
  BY <1>5, <1>7, <1>8, <1>9 DEF Progress
<1>11. ReadsInBounds' /\ CopiesAll'
  BY <1>1, <1>4, <1>5, <1>7, <1>9, OthersKept
<1> QED BY <1>6, <1>10, <1>11 DEF CopyInv

(* Choosing the writer, and with it the size, keeps CopyInv.               *)
LEMMA DispatchCopies ==
    ASSUME TypeOK, CopyInv, Dispatch
    PROVE  CopyInv'
<1>1. Last \in Message /\ Last = request[Len(request)] /\ Len(request) \in Nat
  BY CurrentTyped DEF Dispatch
<1>2. /\ at = "size" /\ inputs' = inputs /\ elements' = elements /\ request' = request
      /\ acc = ToInt(elements) /\ elements \in Nat
      /\ Last.elements = elements /\ Last.count = 0 /\ ~Last.overrun
      /\ Last.datatype = Current.datatype
  BY DEF Dispatch, CopyInv, Progress, SizeExact, TypeOK
<1>3. Last' = Last /\ Current' = Current
  BY <1>2 DEF Last, Current
<1>4. Fits(elements) => size' = elements
  BY <1>2, FitsUnchanged DEF Dispatch
<1>5. at' = IF Current.datatype \in PlainTypes THEN "write" ELSE "next"
  BY DEF Dispatch
<1>6. SizeExact'
  BY <1>2, <1>4, <1>5 DEF SizeExact, Fits
<1>7. Progress'
  <2>1. i' = 0
    BY DEF Dispatch
  <2> QED BY <1>2, <1>3, <1>4, <1>5, <2>1 DEF Progress, Fits
<1>8. ReadsInBounds'
  BY <1>2 DEF CopyInv, ReadsInBounds, Readable, Fits
<1>9. CopiesAll'
  BY <1>1, <1>2, <1>5 DEF CopyInv, CopiesAll, Fits
<1> QED BY <1>6, <1>7, <1>8, <1>9 DEF CopyInv

(* Making a string of the pointer keeps CopyInv: it is no copy of a plain  *)
(* tensor, and it stays in the buffer if that has a NUL.                   *)
LEMMA AddStringCopies ==
    ASSUME TypeOK, CopyInv, AddString
    PROVE  CopyInv'
<1> DEFINE msg == [Last EXCEPT !.count = 1, !.overrun = Current.nul >= elements]
<1>1. /\ Last \in Message /\ Len(request) > 0 /\ Current \in Tensors
      /\ at = "size" /\ at' \in {"next", "dead"} /\ inputs' = inputs /\ elements' = elements
      /\ Current.datatype = "String" /\ elements \in Nat /\ request' = Amend(msg)
  BY CurrentTyped DEF AddString, TypeOK
<1>2. Last.elements = elements /\ Last.datatype = Current.datatype
  BY <1>1 DEF CopyInv, Progress
<1>3. /\ msg \in Message /\ msg.elements = elements /\ msg.datatype = "String"
      /\ msg.overrun = (Current.nul >= elements)
  BY <1>1, <1>2, BehindBoolean DEF Message
<1> HIDE DEF msg
<1>4. SizeExact' /\ Progress'
  BY <1>1 DEF SizeExact, Progress
<1>5. msg.overrun => ~Readable(Current, msg.elements)
  <2>1. Current.nul \in Nat
    BY <1>1 DEF Tensors
  <2>2. Current.nul >= elements => ~(Current.nul < elements)
    BY <1>1, <2>1
  <2>3. ASSUME msg.overrun PROVE Current.nul >= elements
    BY <1>3, <2>3, Zenon
  <2> QED BY <1>1, <1>3, <2>2, <2>3 DEF Readable
<1>6. msg.datatype \notin PlainTypes
  BY <1>3 DEF PlainTypes
<1>7. ReadsInBounds' /\ CopiesAll'
  BY <1>1, <1>3, <1>5, <1>6, OthersKept
<1> QED BY <1>4, <1>7 DEF CopyInv

(* Copying one element keeps CopyInv.                                      *)
LEMMA WriteCopies ==
    ASSUME TypeOK, CopyInv, Write
    PROVE  CopyInv'
<1> DEFINE msg == [Last EXCEPT !.count = @ + 1, !.overrun = @ \/ i >= elements]
<1>1. Last \in Message /\ Len(request) > 0
  BY CurrentTyped DEF Write
<1>2. request' = Amend(msg)
  BY DEF Write
<1>3. msg \in Message
  <2>1. Last.count + 1 \in Nat /\ (Last.overrun \/ i >= elements) \in BOOLEAN
    BY <1>1 DEF Message
  <2> QED BY <1>1, <2>1 DEF Message
<1>4. /\ msg.elements = Last.elements /\ msg.count = Last.count + 1
      /\ msg.overrun = (Last.overrun \/ i >= elements)
      /\ msg.datatype = Last.datatype
  BY <1>1 DEF Message
<1> HIDE DEF msg
<1>5. /\ at = "write" /\ at' \in {"write", "dead"}
      /\ inputs' = inputs /\ elements' = elements /\ size' = size
      /\ i < size /\ i' = (i + 1) % IndexRange
      /\ i \in Nat /\ elements \in Nat
  BY WidthsAssumption DEF Write, TypeOK
<1>6. /\ Last.elements = elements /\ Last.datatype = Current.datatype
      /\ Fits(elements) => size = elements /\ Last.count = i
      /\ Current.datatype \in PlainTypes
  BY <1>5 DEF CopyInv, Progress, SizeExact
<1>7. Last' = msg /\ Current' = Current
  BY <1>1, <1>2, <1>3, <1>5, Amended DEF Last, Current
<1>8. SizeExact'
  BY <1>5, <1>6 DEF SizeExact, Fits
<1>9. Fits(elements) => i' = i + 1
  <2> SUFFICES ASSUME Fits(elements) PROVE i' = i + 1
    OBVIOUS
  <2>1. i + 1 \in 0..(IndexRange - 1) /\ IndexRange * 0 + (i + 1) = i + 1
    BY <1>5, <1>6, WidthsAssumption DEF Fits
  <2>2. (IndexRange * 0 + (i + 1)) % IndexRange = i + 1
    <3>1. IndexRange \in Nat /\ IndexRange > 0
      BY WidthsAssumption
    <3> QED BY <2>1, <3>1, ModUnique
  <2> QED BY <1>5, <2>1, <2>2
<1>10. Progress'
  <2>1. Fits(elements) => i' <= size
    BY <1>5, <1>9, <1>6
  <2> QED BY <1>4, <1>5, <1>6, <1>7, <1>9, <2>1 DEF Progress, Fits
<1>11. ReadsInBounds' /\ CopiesAll'
  <2>1. Last.overrun => ~Fits(elements)
    <3>1. Last.overrun => ~Readable(Current, elements)
      BY <1>1, <1>6 DEF CopyInv, ReadsInBounds, Last, Current, TypeOK
    <3>2. Current.datatype # "String"
      BY <1>6 DEF PlainTypes
    <3> QED BY <1>6, <3>1, <3>2 DEF Readable
  <2>2. ASSUME Fits(elements) PROVE ~msg.overrun
    <3>1. ~(i >= elements)
      BY <1>5, <1>6, <2>2
    <3>2. ~Last.overrun
      BY <2>1, <2>2
    <3> QED BY <1>4, <3>1, <3>2, Zenon
  <2>3. msg.elements = elements
    BY <1>4, <1>6
  <2>4. msg.overrun => ~Readable(Current, msg.elements)
    BY <1>6, <2>2, <2>3 DEF Readable
  <2> QED BY <1>1, <1>2, <1>3, <1>5, <2>4, OthersKept
<1> QED BY <1>8, <1>10, <1>11 DEF CopyInv

(* Beginning the next tensor keeps CopyInv.                                *)
LEMMA NextTensorCopies ==
    ASSUME TypeOK, CopyInv, NextTensor
    PROVE  CopyInv'
<1> DEFINE n == Len(request)
           tensor == inputs[n + 1]
           msg == [shape |-> [k \in 1..Len(tensor.shape) |-> ToInt64(tensor.shape[k])],
                   datatype |-> tensor.datatype, elements |-> 1, count |-> 0, overrun |-> FALSE]
<1>1. /\ msg.elements = 1 /\ msg.count = 0 /\ msg.overrun = FALSE
      /\ msg.datatype = tensor.datatype
  OBVIOUS
<1>2. request' = Append(request, msg)
  BY DEF NextTensor
<1> HIDE DEF msg
<1>3. /\ n \in Nat /\ Len(request') = n + 1 /\ request'[n + 1] = msg
      /\ \A k \in 1..n : request'[k] = request[k]
  BY <1>2 DEF TypeOK
<1>4. at = "next" /\ at' = "size" /\ inputs' = inputs /\ acc' = 1 /\ elements' = 1
  BY DEF NextTensor
<1>5. Last' = msg /\ Current' = tensor
  BY <1>3, <1>4 DEF Last, Current
<1>6. SizeExact'
  <2>1. ToInt(1) = 1
    BY FitsUnchanged, WidthsAssumption DEF Fits
  <2> QED BY <1>4, <2>1 DEF SizeExact, ToInt
<1>7. Progress'
  BY <1>1, <1>4, <1>5 DEF Progress
<1>8. ReadsInBounds'
  BY <1>1, <1>3, <1>4 DEF CopyInv, ReadsInBounds, Readable, Fits
<1>9. CopiesAll'
  BY <1>1, <1>3, <1>4 DEF CopyInv, CopiesAll, Fits
<1> QED BY <1>6, <1>7, <1>8, <1>9 DEF CopyInv

(* Leaving the loop keeps CopyInv.                                         *)
LEMMA WriteEndCopies ==
    ASSUME TypeOK, CopyInv, WriteEnd
    PROVE  CopyInv'
<1>1. /\ at = "write" /\ at' = "next" /\ i >= size
      /\ UNCHANGED <<inputs, dim, acc, elements, size, i, request>>
      /\ i \in Nat /\ size \in Nat
  BY WidthsAssumption DEF WriteEnd, TypeOK
<1>2. Last \in Message /\ Last = request[Len(request)] /\ Len(request) \in Nat
  BY <1>1, CurrentTyped
<1>3. Fits(elements) => Last.count = Last.elements
  BY <1>1 DEF CopyInv, Progress, SizeExact
<1>4. Last.elements = elements
  BY <1>1 DEF CopyInv, Progress
<1>5. SizeExact' /\ Progress'
  BY <1>1 DEF SizeExact, Progress
<1>6. ReadsInBounds'
  BY <1>1 DEF CopyInv, ReadsInBounds, Readable, Fits
<1>7. CopiesAll'
  BY <1>1, <1>2, <1>3, <1>4 DEF CopyInv, CopiesAll, Fits
<1> QED BY <1>5, <1>6, <1>7 DEF CopyInv

(* The steps that only move on.                                            *)
LEMMA OtherStepsCopy ==
    ASSUME TypeOK, CopyInv, Return \/ WriteFails \/ UNCHANGED vars
    PROVE  CopyInv'
<1>1. /\ UNCHANGED <<inputs, dim, acc, elements, size, i, request>>
      /\ at' = at \/ (at = "next" /\ at' = "done") \/ at' = "dead"
  BY DEF Return, WriteFails, vars
<1>2. SizeExact'
  BY <1>1 DEF CopyInv, SizeExact, ToInt, Fits
<1>3. Progress'
  BY <1>1 DEF CopyInv, Progress, Last, Current, Fits
<1>4. ReadsInBounds'
  BY <1>1 DEF CopyInv, ReadsInBounds, Readable, Fits
<1>5. CopiesAll'
  BY <1>1 DEF CopyInv, CopiesAll, Fits
<1> QED BY <1>2, <1>3, <1>4, <1>5 DEF CopyInv

(* CopyInv holds in every reachable state.                                 *)
LEMMA CopyInvariant == Spec => []CopyInv
<1>1. Init => CopyInv
  BY DEF Init, CopyInv, SizeExact, Progress, ReadsInBounds, CopiesAll
<1>2. TypeOK /\ CopyInv /\ [Next]_vars => CopyInv'
  BY MultiplyCopies, DispatchCopies, AddStringCopies, WriteCopies, NextTensorCopies,
     WriteEndCopies, OtherStepsCopy DEF Next, Step
<1> QED BY <1>1, <1>2, ConverterTyped, PTL DEF Spec

(* TensorConverter: the accumulator agrees with the true number of         *)
(* elements modulo the width of int after every dimension, and the size is *)
(* that number if an int can hold it, whatever overflowed on the way.      *)
THEOREM SizeIsExact == Spec => []SizeExact
<1>1. CopyInv => SizeExact
  BY DEF CopyInv
<1> QED BY <1>1, CopyInvariant, PTL

(* TensorConverter: nothing behind the buffer of a tensor is read if an    *)
(* int can count its elements, for any shape that has so many; of a String *)
(* if there is a NUL in the buffer.                                        *)
THEOREM ReadsStayInBounds == Spec => []ReadsInBounds
<1>1. CopyInv => ReadsInBounds
  BY DEF CopyInv
<1> QED BY <1>1, CopyInvariant, PTL

(* TensorConverter: and it copies all of them into the message.            *)
THEOREM EveryElementCopied == Spec => []CopiesAll
<1>1. CopyInv => CopiesAll
  BY DEF CopyInv
<1> QED BY <1>1, CopyInvariant, PTL

-----------------------------------------------------------------------------
(* The message and the shape.                                             *)

(* The message of each tensor carries its type and its shape, as int64_t,  *)
(* and the elements are counted along the dimensions.                      *)
WireShapeOf(tensor) == [d \in 1..Len(tensor.shape) |-> ToInt64(tensor.shape[d])]
ShapeInv ==
    /\ at = "size" => dim <= Len(Current.shape) /\ Multiplied(Current.shape, dim, elements)
    /\ \A k \in 1..Len(request) :
          /\ request[k].datatype = inputs[k].datatype
          /\ request[k].shape = WireShapeOf(inputs[k])
          /\ k < Len(request) \/ at # "size" =>
                Multiplied(inputs[k].shape, Len(inputs[k].shape), request[k].elements)

(* Only the last message is amended, and only in what ShapeInv leaves      *)
(* alone: the messages of the tensors before still say what they said.     *)
LEMMA AmendedShapes ==
    ASSUME TypeOK, ShapeInv, at \in {"size", "write"}, inputs' = inputs,
           NEW msg \in Message, request' = Amend(msg),
           msg.shape = Last.shape, msg.datatype = Last.datatype,
           at' # "size" => Multiplied(Current.shape, Len(Current.shape), msg.elements),
           at' = "size" => /\ dim' <= Len(Current.shape)
                           /\ Multiplied(Current.shape, dim', elements')
    PROVE  ShapeInv'
<1> DEFINE n == Len(request)
<1>1. /\ n \in 1..Len(inputs) /\ Last = request[n] /\ Current = inputs[n]
      /\ request' \in Seq(Message) /\ Len(request') = n /\ request'[n] = msg
      /\ \A k \in 1..n : k # n => request'[k] = request[k]
  BY CurrentTyped, Amended DEF Current
<1>2. Current' = Current
  BY <1>1 DEF Current
<1>3. ASSUME NEW k \in 1..n
      PROVE  /\ request'[k].datatype = inputs[k].datatype
             /\ request'[k].shape = WireShapeOf(inputs[k])
             /\ k < n \/ at' # "size" =>
                   Multiplied(inputs[k].shape, Len(inputs[k].shape), request'[k].elements)
  <2>1. CASE k = n
    BY <1>1, <2>1 DEF ShapeInv
  <2>2. CASE k # n
    <3>1. k < n /\ request'[k] = request[k]
      BY <1>1, <2>2
    <3> QED BY <3>1 DEF ShapeInv
  <2> QED BY <2>1, <2>2
<1>4. Len(request') = n /\ inputs' = inputs
  BY <1>1
<1> HIDE DEF n
<1> QED BY <1>2, <1>3, <1>4 DEF ShapeInv, WireShapeOf, Multiplied, Factors, ToInt64

(* Beginning the next tensor keeps ShapeInv.                               *)
LEMMA NextTensorShapes ==
    ASSUME TypeOK, ShapeInv, NextTensor
    PROVE  ShapeInv'
<1> DEFINE n == Len(request)
           tensor == inputs[n + 1]
           msg == [shape |-> WireShapeOf(tensor), datatype |-> tensor.datatype,
                   elements |-> 1, count |-> 0, overrun |-> FALSE]
<1>1. msg.shape = WireShapeOf(tensor) /\ msg.datatype = tensor.datatype
  OBVIOUS
<1>2. request' = Append(request, msg)
  BY DEF NextTensor, WireShapeOf
<1> HIDE DEF msg
<1>3. /\ n \in Nat /\ Len(request') = n + 1 /\ request'[n + 1] = msg
      /\ \A k \in 1..n : request'[k] = request[k]
  BY <1>2 DEF TypeOK
<1>4. /\ at = "next" /\ at' = "size" /\ inputs' = inputs /\ dim' = 0 /\ elements' = 1
      /\ n < Len(inputs)
  BY DEF NextTensor
<1>5. Current' = tensor
  BY <1>3, <1>4 DEF Current
<1>6. tensor \in Tensors
  BY <1>3, <1>4 DEF TypeOK
<1>7. tensor.shape \in Seq(0..(SizeRange - 1))
  BY <1>6 DEF Tensors
<1> HIDE DEF tensor
<1>8. 0 <= Len(tensor.shape) /\ Multiplied(tensor.shape, 0, 1)
  BY <1>7, MultipliedNothing
<1>9. ASSUME NEW k \in 1..(n + 1)
      PROVE  /\ request'[k].datatype = inputs[k].datatype
             /\ request'[k].shape = WireShapeOf(inputs[k])
             /\ k < n + 1 =>
                   Multiplied(inputs[k].shape, Len(inputs[k].shape), request'[k].elements)
  <2>1. CASE k = n + 1
    BY <1>1, <1>3, <2>1 DEF tensor
  <2>2. CASE k # n + 1
    <3>1. k \in 1..n /\ request'[k] = request[k]
      BY <1>3, <2>2
    <3> QED BY <1>4, <3>1 DEF ShapeInv
  <2> QED BY <2>1, <2>2
<1>10. Len(request') = n + 1
  BY <1>3
<1> HIDE DEF n
<1> QED BY <1>4, <1>5, <1>8, <1>9, <1>10 DEF ShapeInv, WireShapeOf, Multiplied, Factors, ToInt64

(* One step of std::accumulate counts one more dimension.                  *)
LEMMA MultiplyShapes ==
    ASSUME TypeOK, ShapeInv, Multiply
    PROVE  ShapeInv'
<1> DEFINE msg == [Last EXCEPT !.elements = elements']
           s == Current.shape
<1>1. /\ Last \in Message /\ Current \in Tensors /\ dim < Len(s) /\ dim \in Nat
      /\ at = "size" /\ at' = "size" /\ inputs' = inputs /\ dim' = dim + 1
      /\ elements' = elements * s[dim + 1] /\ request' = Amend(msg)
  BY CurrentTyped DEF Multiply, TypeOK
<1>2. s \in Seq(0..(SizeRange - 1))
  BY <1>1 DEF Tensors
<1>3. Multiplied(s, dim, elements)
  BY <1>1 DEF ShapeInv
<1> HIDE DEF s
<1>4. Multiplied(s, dim + 1, elements * s[dim + 1])
  BY <1>1, <1>2, <1>3, MultipliedNext
<1>5. s[dim + 1] \in 0..(SizeRange - 1)
  BY <1>1, <1>2, NextElement
<1>6. elements' \in Nat
  <2>1. elements \in Nat /\ s[dim + 1] \in Nat
    BY <1>5, WidthsAssumption DEF TypeOK
  <2> QED BY <1>1, <2>1
<1>7. msg \in Message /\ msg.shape = Last.shape /\ msg.datatype = Last.datatype
  BY <1>1, <1>6 DEF Message
<1>8. dim' <= Len(s) /\ Multiplied(s, dim', elements')
  BY <1>1, <1>2, <1>4
<1> HIDE DEF msg
<1> QED BY <1>1, <1>7, <1>8, AmendedShapes DEF s

(* The dimensions are all counted when the writer is chosen.               *)
LEMMA DispatchShapes ==
    ASSUME TypeOK, Progress, ShapeInv, Dispatch
    PROVE  ShapeInv'
<1>1. /\ Last \in Message /\ Last = request[Len(request)] /\ Len(request) \in 1..Len(inputs)
      /\ at = "size" /\ at' # "size" /\ inputs' = inputs /\ request' = request
      /\ dim = Len(Current.shape) /\ Last.elements = elements
  BY CurrentTyped DEF Dispatch, Progress
<1>2. request' = Amend(Last)
  BY <1>1 DEF Amend, Last, TypeOK
<1>3. Multiplied(Current.shape, Len(Current.shape), elements)
  BY <1>1 DEF ShapeInv
<1> QED BY <1>1, <1>2, <1>3, AmendedShapes

(* And a string changes neither shape nor type.                            *)
LEMMA AddStringShapes ==
    ASSUME TypeOK, Progress, ShapeInv, AddString
    PROVE  ShapeInv'
<1> DEFINE msg == [Last EXCEPT !.count = 1, !.overrun = Current.nul >= elements]
<1>1. /\ Last \in Message /\ Len(request) > 0
      /\ at = "size" /\ at' # "size" /\ inputs' = inputs /\ request' = Amend(msg)
      /\ dim = Len(Current.shape) /\ Last.elements = elements
  BY CurrentTyped DEF AddString, Progress
<1>2. /\ msg \in Message /\ msg.elements = elements
      /\ msg.shape = Last.shape /\ msg.datatype = Last.datatype
  BY <1>1, BehindBoolean DEF Message
<1> HIDE DEF msg
<1>3. Multiplied(Current.shape, Len(Current.shape), elements)
  BY <1>1 DEF ShapeInv
<1> QED BY <1>1, <1>2, <1>3, AmendedShapes

(* Copying an element changes neither shape nor type.                      *)
LEMMA WriteShapes ==
    ASSUME TypeOK, ShapeInv, Write
    PROVE  ShapeInv'
<1> DEFINE msg == [Last EXCEPT !.count = @ + 1, !.overrun = @ \/ i >= elements]
<1>1. /\ Last \in Message /\ Len(request) \in 1..Len(inputs) /\ Last = request[Len(request)]
      /\ at = "write" /\ at' # "size" /\ inputs' = inputs /\ request' = Amend(msg)
  BY CurrentTyped DEF Write
<1>2. msg \in Message
  <2>1. Last.count + 1 \in Nat /\ (Last.overrun \/ i >= elements) \in BOOLEAN
    BY <1>1 DEF Message
  <2> QED BY <1>1, <2>1 DEF Message
<1>3. msg.elements = Last.elements /\ msg.shape = Last.shape /\ msg.datatype = Last.datatype
  BY <1>1 DEF Message
<1> HIDE DEF msg
<1>4. Multiplied(Current.shape, Len(Current.shape), Last.elements)
  BY <1>1 DEF ShapeInv, Current
<1> QED BY <1>1, <1>2, <1>3, <1>4, AmendedShapes

(* ShapeInv holds in every reachable state.                                *)
LEMMA ShapeInvariant == Spec => []ShapeInv
<1>1. Init => ShapeInv
  BY DEF Init, ShapeInv
<1>2. ASSUME ShapeInv, Return \/ WriteFails \/ WriteEnd \/ UNCHANGED vars PROVE ShapeInv'
  <2>1. /\ inputs' = inputs /\ request' = request /\ dim' = dim /\ elements' = elements
        /\ at' = at \/ (at # "size" /\ at' # "size")
    BY <1>2 DEF Return, WriteFails, WriteEnd, vars
  <2> QED BY <1>2, <2>1 DEF ShapeInv, Current, WireShapeOf, Multiplied, Factors, ToInt64
<1>3. TypeOK /\ CopyInv /\ ShapeInv /\ [Next]_vars => ShapeInv'
  BY <1>2, NextTensorShapes, MultiplyShapes, DispatchShapes, AddStringShapes, WriteShapes
     DEF Next, Step, CopyInv
<1> QED BY <1>1, <1>3, ConverterTyped, CopyInvariant, PTL DEF Spec

(* TensorConverter: the loop runs once for each element of the shape the   *)
(* caller passed, whatever its rank, if an int can count them.             *)
THEOREM SizeFollowsShape ==
    Spec => [](at = "write" /\ Fits(Product(Current.shape)) => size = Product(Current.shape))
<1>1. TypeOK /\ CopyInv /\ ShapeInv
        => (at = "write" /\ Fits(Product(Current.shape)) => size = Product(Current.shape))
  <2> SUFFICES ASSUME TypeOK, CopyInv, ShapeInv, at = "write", Fits(Product(Current.shape))
               PROVE  size = Product(Current.shape)
    OBVIOUS
  <2>1. Len(request) \in 1..Len(inputs) /\ Last = request[Len(request)] /\ Last.elements = elements
    BY CurrentTyped DEF CopyInv, Progress
  <2>2. Multiplied(Current.shape, Len(Current.shape), elements)
    BY <2>1 DEF ShapeInv, Current
  <2>3. Product(Current.shape) = elements
    BY <2>2, MultipliedAll
  <2> QED BY <2>3 DEF CopyInv, SizeExact
<1> QED BY <1>1, ConverterTyped, CopyInvariant, ShapeInvariant, PTL

(* TensorConverter: the server can rely on the message of a tensor, for    *)
(* any shape of any length: it has one element for each place of the shape *)
(* it carries, if that shape fits into int64_t and its elements into int.  *)
THEOREM MessagesMatchShapes == Spec => []MessageMatchesShape
<1>1. TypeOK /\ CopyInv /\ ShapeInv => MessageMatchesShape
  <2> SUFFICES ASSUME TypeOK, CopyInv, ShapeInv, at = "done", NEW k \in 1..Len(request),
                      request[k].datatype \in PlainTypes,
                      \A d \in 1..Len(inputs[k].shape) : 2 * inputs[k].shape[d] < SizeRange,
                      Fits(Product(inputs[k].shape))
               PROVE  request[k].count = Product(request[k].shape)
    BY Zenon DEF MessageMatchesShape
  <2> DEFINE s == inputs[k].shape
  <2>1. s \in Seq(0..(SizeRange - 1))
    <3>1. inputs[k] \in Tensors
      BY DEF TypeOK
    <3> QED BY <3>1 DEF Tensors
  <2>2. request[k].shape = [d \in 1..Len(s) |-> ToInt64(s[d])]
    BY DEF ShapeInv, WireShapeOf
  <2>3. \A d \in 1..Len(s) : ToInt64(s[d]) = s[d]
    BY DEF ToInt64
  <2>4. Multiplied(s, Len(s), request[k].elements)
    BY DEF ShapeInv
  <2> HIDE DEF s
  <2>5. request[k].shape = s
    BY <2>1, <2>2, <2>3
  <2>6. Product(s) = request[k].elements
    BY <2>4, MultipliedAll
  <2>7. request[k].count = request[k].elements
    BY <2>6 DEF CopyInv, CopiesAll, s
  <2> QED BY <2>5, <2>6, <2>7
<1> QED BY <1>1, ConverterTyped, CopyInvariant, ShapeInvariant, PTL

-----------------------------------------------------------------------------
(* Termination, as far as single steps show it.                            *)

(* The tensor in the loop is one that an int can count, if the caller does *)
(* what is asked for.                                                      *)
LEMMA CurrentFits ==
    ASSUME TypeOK, CopyInv, ShapeInv, AllReadable, at = "write"
    PROVE  /\ Fits(elements) /\ size = elements /\ Last.count = i
           /\ i <= size /\ size < MaxElements /\ i \in Nat /\ size \in Nat
<1>1. Len(request) \in 1..Len(inputs) /\ Last = request[Len(request)] /\ Last.elements = elements
  BY CurrentTyped DEF CopyInv, Progress
<1> DEFINE s == inputs[Len(request)].shape
<1>2. Multiplied(s, Len(s), elements) /\ Fits(Product(s))
  <2>1. Current.datatype \in PlainTypes /\ Current = inputs[Len(request)]
    BY DEF CopyInv, Progress, Current
  <2> QED BY <1>1, <2>1 DEF ShapeInv, AllReadable, Readable
<1> HIDE DEF s
<1>3. Fits(elements)
  BY <1>2, MultipliedAll
<1>4. size = elements /\ Last.count = i /\ i <= size
  BY <1>3 DEF CopyInv, SizeExact, Progress
<1>5. i \in Nat /\ size \in Nat
  BY WidthsAssumption DEF TypeOK
<1>6. size < MaxElements
  BY <1>3, <1>4, <1>5, WidthsAssumption DEF Fits
<1> QED BY <1>3, <1>4, <1>5, <1>6

(* And the String that is read has a NUL in its buffer.                    *)
LEMMA CurrentEnds ==
    ASSUME TypeOK, CopyInv, ShapeInv, AllReadable, AddString
    PROVE  ~(Current.nul >= elements)
<1>1. /\ Len(request) \in 1..Len(inputs) /\ Current \in Tensors
      /\ at = "size" /\ dim = Len(Current.shape) /\ Current.datatype = "String"
      /\ Current = inputs[Len(request)]
  BY CurrentTyped DEF AddString, Current
<1>2. Multiplied(Current.shape, Len(Current.shape), elements)
  BY <1>1 DEF ShapeInv
<1>3. Product(Current.shape) = elements
  BY <1>2, MultipliedAll
<1>4. Current.nul < Product(Current.shape)
  BY <1>1 DEF AllReadable, Readable
<1>5. Current.nul \in Nat /\ elements \in Nat
  BY <1>1 DEF Tensors, TypeOK
<1> QED BY <1>3, <1>4, <1>5

(* Nothing ends the process while the caller does what is asked for.       *)
LEMMA NeverDies == Spec => [](AllReadable => at # "dead")
<1>1. Init => (AllReadable => at # "dead")
  BY DEF Init
<1>2. TypeOK /\ CopyInv /\ ShapeInv /\ (AllReadable => at # "dead") /\ [Next]_vars
        => (AllReadable => at # "dead")'
  <2> SUFFICES ASSUME TypeOK, CopyInv, ShapeInv, AllReadable => at # "dead", [Next]_vars,
                      AllReadable'
               PROVE  at' # "dead"
    OBVIOUS
  <2>1. inputs' = inputs
    BY DEF Next, Step, NextTensor, Return, Multiply, Dispatch, AddString, Write, WriteFails,
           WriteEnd, vars
  <2>2. AllReadable
    BY <2>1 DEF AllReadable, Readable, Fits
  <2>3. CASE AddString
    BY <2>2, <2>3, CurrentEnds DEF AddString
  <2>4. CASE Write \/ WriteFails
    BY <2>2, <2>4, CurrentFits DEF Write, WriteFails
  <2>5. CASE NextTensor \/ Return \/ Multiply \/ Dispatch \/ WriteEnd
    BY <2>5 DEF NextTensor, Return, Multiply, Dispatch, WriteEnd
  <2>6. CASE UNCHANGED vars
    BY <2>2, <2>6 DEF vars
  <2> QED BY <2>2, <2>3, <2>4, <2>5, <2>6 DEF Next, Step, vars
<1> QED BY <1>1, <1>2, ConverterTyped, CopyInvariant, ShapeInvariant, PTL DEF Spec

(* TensorConverter: until it is done the conversion can go on, whatever    *)
(* the shapes, as long as an int can count the elements of each tensor and *)
(* each String has a NUL in its buffer.                                    *)
THEOREM ConversionNeverStuck == Spec => []ConversionGoesOn
<1>1. TypeOK /\ CopyInv /\ ShapeInv /\ (AllReadable => at # "dead") => ConversionGoesOn
  <2> SUFFICES ASSUME TypeOK, CopyInv, ShapeInv, AllReadable
               PROVE  Left \in Nat /\ (at = "write" => i >= size \/ Last.count < MaxElements)
    BY DEF ConversionGoesOn
  <2>1. CASE at = "size"
    <3>1. dim \in Nat /\ dim <= Len(Current.shape) /\ Current.shape \in Seq(0..(SizeRange - 1))
      BY <2>1, CurrentTyped DEF ShapeInv, TypeOK, Tensors
    <3> QED BY <2>1, <3>1 DEF Left
  <2>2. CASE at = "write"
    <3>1. /\ size = elements /\ Last.count = i /\ i <= size /\ size < MaxElements
          /\ i \in Nat /\ size \in Nat
      BY <2>2, CurrentFits
    <3>2. Left = size - i
      BY <2>2 DEF Left
    <3>3. MaxElements \in Nat
      BY WidthsAssumption
    <3>4. i >= size \/ Last.count < MaxElements
      BY <3>1, <3>3
    <3> QED BY <3>1, <3>2, <3>4
  <2>3. CASE at \notin {"size", "write"}
    BY <2>3 DEF Left
  <2> QED BY <2>1, <2>2, <2>3
<1> QED BY <1>1, NeverDies, ConverterTyped, CopyInvariant, ShapeInvariant, PTL

(* TensorConverter: and each of its steps brings the end nearer, so that   *)
(* there are only finitely many: what Converts adds is that they are taken.*)
THEOREM ConversionComesToAnEnd == Spec => ConversionComesNearer
<1>1. TypeOK /\ CopyInv /\ ShapeInv /\ [Next]_vars => [AllReadable => Nearer]_vars
  <2> SUFFICES ASSUME TypeOK, CopyInv, ShapeInv, Next, AllReadable, ~UNCHANGED vars
               PROVE  Nearer
    OBVIOUS
  <2>0. Len(request) \in Nat
    BY DEF TypeOK
  <2>1. CASE NextTensor
    <3>1. Len(request') = Len(request) + 1
      BY <2>1 DEF NextTensor, TypeOK
    <3> QED BY <2>0, <3>1 DEF Nearer
  <2>2. CASE Return \/ WriteEnd
    <3>1. request' = request /\ Stage' < Stage
      BY <2>2 DEF Return, WriteEnd, Stage
    <3> QED BY <3>1 DEF Nearer
  <2>3. CASE Multiply
    <3> DEFINE msg == [Last EXCEPT !.elements = elements']
    <3>1. /\ Current \in Tensors /\ at = "size" /\ at' = "size" /\ inputs' = inputs
          /\ dim \in Nat /\ dim' = dim + 1 /\ Len(request') = Len(request)
      BY <2>3, CurrentTyped DEF Multiply, TypeOK, Amend
    <3>2. Len(Current.shape) \in Nat /\ Current' = Current
      BY <3>1 DEF Tensors, Current
    <3>3. Stage' = Stage
      BY <3>1 DEF Stage
    <3>4. Left' < Left
      <4>1. Left = Len(Current.shape) - dim /\ Left' = Len(Current.shape) - dim'
        BY <3>1, <3>2 DEF Left
      <4> QED BY <3>1, <3>2, <4>1
    <3> QED BY <3>1, <3>3, <3>4 DEF Nearer
  <2>4. CASE Dispatch \/ AddString
    <3>1. Len(request') = Len(request) /\ at = "size" /\ at' \in {"write", "next", "dead"}
      BY <2>4, CurrentTyped DEF Dispatch, AddString, TypeOK, Amend
    <3>2. Stage' < Stage
      BY <3>1 DEF Stage
    <3> QED BY <3>1, <3>2 DEF Nearer
  <2>5. CASE Write \/ WriteFails
    <3>0. at = "write"
      BY <2>5 DEF Write, WriteFails
    <3>1. Fits(elements) /\ size = elements /\ Last.count = i /\ size < MaxElements /\ i \in Nat
          /\ size \in Nat
      BY <3>0, CurrentFits
    <3>2. Write /\ i < size
      BY <2>5, <3>1, WidthsAssumption DEF Write, WriteFails
    <3>3. Len(request') = Len(request) /\ size' = size /\ i' = (i + 1) % IndexRange /\ at' = "write"
      BY <3>1, <3>2 DEF Write, TypeOK, Amend
    <3>4. i' = i + 1
      <4>1. IndexRange \in Nat /\ IndexRange > 0
        BY WidthsAssumption
      <4>2. i + 1 \in 0..(IndexRange - 1) /\ IndexRange * 0 + (i + 1) = i + 1
        BY <3>1, <3>2, WidthsAssumption DEF Fits
      <4>3. (IndexRange * 0 + (i + 1)) % IndexRange = i + 1
        BY <4>1, <4>2, ModUnique
      <4> QED BY <3>3, <4>2, <4>3
    <3>5. Stage' = Stage /\ Left = size - i /\ Left' = size - (i + 1)
      BY <3>0, <3>3, <3>4 DEF Stage, Left
    <3>6. Left' < Left
      BY <3>1, <3>5
    <3> QED BY <3>3, <3>5, <3>6 DEF Nearer
  <2>6. CASE at \in {"done", "dead"} /\ UNCHANGED vars
    BY <2>6
  <2> QED BY <2>1, <2>2, <2>3, <2>4, <2>5, <2>6 DEF Next, Step
<1> QED BY <1>1, ConverterTyped, CopyInvariant, ShapeInvariant, PTL
       DEF Spec, ConversionComesNearer
=============================================================================
