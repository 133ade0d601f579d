------------------------- MODULE TensorReaderProofs -------------------------
(* What holds of get_infer_response for integers of any width, any number  *)
(* of outputs and any shapes.                                              *)
EXTENDS TensorReader, Modular

(* A size_t is what is left of a number.                                   *)
LEMMA SizeTyped ==
    ASSUME NEW x \in Int
    PROVE  ToSize(x) \in 0..(SizeRange - 1)
BY DivMod, ReaderWidths DEF ToSize

(* Numbers that differ by a multiple of the width are the same size_t.     *)
LEMMA SameSize ==
    ASSUME NEW x \in Int, NEW c \in Int
    PROVE  ToSize(SizeRange * c + x) = ToSize(x)
<1>. DEFINE d == x \div SizeRange
            r == x % SizeRange
<1>1. d \in Int /\ r \in 0..(SizeRange - 1) /\ x = SizeRange * d + r
  BY DivMod, ReaderWidths
<1>. HIDE DEF d, r
<1>2. SizeRange * c + x = SizeRange * (c + d) + r
  <2>1. SizeRange * (c + d) = SizeRange * c + SizeRange * d
    BY <1>1, ReaderWidths
  <2>. QED BY <1>1, <2>1, ReaderWidths
<1>3. (SizeRange * (c + d) + r) % SizeRange = r
  <2>1. c + d \in Int
    BY <1>1
  <2>. QED BY <1>1, <2>1, ModUnique, ReaderWidths
<1>. QED BY <1>2, <1>3 DEF ToSize, r

(* A number is its size_t and a multiple of the width.                     *)
LEMMA SizeOf ==
    ASSUME NEW x \in Int
    PROVE  \E c \in Int : ToSize(x) = SizeRange * c + x
<1>. DEFINE d == x \div SizeRange
            r == x % SizeRange
<1>1. d \in Int /\ r \in 0..(SizeRange - 1) /\ x = SizeRange * d + r
  BY DivMod, ReaderWidths
<1>. HIDE DEF d, r
<1>2. -d \in Int /\ SizeRange * (-d) = -(SizeRange * d) /\ SizeRange * d \in Int
  BY <1>1, ReaderWidths
<1>3. r = SizeRange * (-d) + x
  BY <1>1, <1>2, ReaderWidths
<1>. QED BY <1>2, <1>3 DEF ToSize, r

(* Taking the size_t of the factors first makes no difference.             *)
LEMMA SizeOfProduct ==
    ASSUME NEW x \in Int, NEW y \in Int
    PROVE  ToSize(ToSize(x) * ToSize(y)) = ToSize(x * y)
<1>1. PICK a \in Int : ToSize(x) = SizeRange * a + x
  BY SizeOf
<1>2. PICK b \in Int : ToSize(y) = SizeRange * b + y
  BY SizeOf
<1>. DEFINE c == SizeRange * a * b + a * y + x * b
<1>3. c \in Int /\ x * y \in Int
  <2>1. a * b \in Int /\ a * y \in Int /\ x * b \in Int
    OBVIOUS
  <2>2. SizeRange * a * b \in Int
    BY ReaderWidths
  <2>. QED BY <2>1, <2>2
<1>4. ToSize(x) * ToSize(y) = SizeRange * c + x * y
  <2>1. (SizeRange * a + x) * (SizeRange * b + y) =
          SizeRange * (SizeRange * a * b + a * y + x * b) + x * y
    BY ReaderWidths, SMTT(30)
  <2>. QED BY <1>1, <1>2, <2>1
<1>. HIDE DEF c
<1>. QED BY <1>3, <1>4, SameSize

(* A size_t is its own.                                                    *)
LEMMA SizeIsItself ==
    ASSUME NEW x \in 0..(SizeRange - 1)
    PROVE  ToSize(x) = x
<1>1. (SizeRange * 0 + x) % SizeRange = x
  BY ModUnique, ReaderWidths
<1>. QED BY <1>1, ReaderWidths DEF ToSize

(* The bytes of a tensor, from the size_t of its elements.                 *)
LEMMA SizeOfBytes ==
    ASSUME NEW x \in Int, NEW w \in Int
    PROVE  ToSize(ToSize(x) * w) = ToSize(x * w)
<1>1. PICK a \in Int : ToSize(x) = SizeRange * a + x
  BY SizeOf
<1>2. ToSize(x) * w = SizeRange * (a * w) + x * w
  <2>1. (SizeRange * a + x) * w = SizeRange * (a * w) + x * w
    BY ReaderWidths, SMTT(30)
  <2>. QED BY <1>1, <2>1
<1>3. a * w \in Int /\ x * w \in Int
  OBVIOUS
<1>. QED BY <1>2, <1>3, SameSize

-----------------------------------------------------------------------------
(* The two tables of data_type.cpp undo each other.                        *)
LEMMA NamesRoundTrip == \A name \in Names : str(from_string(name)) = name
BY DEF Names, str, from_string, StringToType, TypeToString

(* A name that no table has is the type Unknown.                           *)
LEMMA FromStringTyped == \A name : from_string(name) \in DataTypes
<1>1. \A name \in Names : StringToType[name] \in DataTypes
  BY DEF Names, StringToType, DataTypes, Unread
<1>. QED BY <1>1 DEF from_string, DataTypes, Unread

(* An int64_t survives the cast to uint64_t and back.                      *)
LEMMA CastsRoundTrip == \A x \in Int64 : ToInt64(ToSize(x)) = x
<1>. SUFFICES ASSUME NEW x \in Int64 PROVE ToInt64(ToSize(x)) = x
  OBVIOUS
<1>1. x \in Int /\ -SizeRange <= 2 * x /\ 2 * x < SizeRange
  BY ReaderWidths DEF Int64
<1>2. CASE x >= 0
  BY <1>1, <1>2, SizeIsItself, ReaderWidths DEF ToInt64
<1>3. CASE x < 0
  <2>1. SizeRange * 1 + x \in 0..(SizeRange - 1)
    BY <1>1, <1>3, ReaderWidths
  <2>2. ToSize(x) = SizeRange + x
    BY <1>1, <2>1, SizeIsItself, SameSize, ReaderWidths
  <2>. QED BY <1>1, <2>2, ReaderWidths DEF ToInt64
<1>. QED BY <1>1, <1>2, <1>3

-----------------------------------------------------------------------------
(* The tensor at hand, and what amending it leaves alone.                  *)
LEMMA LastTyped ==
    ASSUME ReaderTypeOK, at \in {"size", "each", "whole"}
    PROVE  /\ Len(tensors) \in 1..Len(response) /\ Len(tensors) > 0
           /\ Last \in Tensor /\ Last = tensors[Len(tensors)]
           /\ Shape \in Seq(Int64)
<1>1. Len(tensors) \in 1..Len(response)
  BY DEF ReaderTypeOK
<1>2. response[Len(tensors)] \in Outputs
  BY <1>1 DEF ReaderTypeOK
<1>. QED BY <1>1, <1>2 DEF ReaderTypeOK, Last, Shape, Outputs

(* Amending changes the last tensor only.                                  *)
LEMMA Amended ==
    ASSUME ReaderTypeOK, Len(tensors) > 0, NEW t \in Tensor, tensors' = Amend(t)
    PROVE  /\ tensors' \in Seq(Tensor) /\ Len(tensors') = Len(tensors)
           /\ tensors'[Len(tensors)] = t
           /\ \A k \in 1..Len(tensors) : k # Len(tensors) => tensors'[k] = tensors[k]
BY DEF ReaderTypeOK, Amend

(* What holds of every tensor stays true if it is true of the amended one. *)
LEMMA OthersKept ==
    ASSUME ReaderTypeOK, GivenInv, WritesInBounds, Len(tensors) > 0, response' = response,
           NEW t \in Tensor, tensors' = Amend(t),
           t.shape = Last.shape, t.datatype = Last.datatype, t.spilled => ~Counted(t)
    PROVE  GivenInv' /\ WritesInBounds' /\ Last' = t
<1>1. /\ Len(tensors') = Len(tensors) /\ tensors'[Len(tensors)] = t
      /\ \A k \in 1..Len(tensors) : k # Len(tensors) => tensors'[k] = tensors[k]
  BY Amended
<1>2. Last' = t
  BY <1>1 DEF Last
<1>3. GivenInv'
  <2>. SUFFICES ASSUME NEW k \in 1..Len(tensors)
                PROVE  /\ tensors'[k].shape =
                             [d \in 1..Len(response[k].shape) |-> ToSize(response[k].shape[d])]
                       /\ tensors'[k].datatype = from_string(response[k].datatype)
    BY <1>1 DEF GivenInv
  <2>1. tensors'[k].shape = tensors[k].shape /\ tensors'[k].datatype = tensors[k].datatype
    BY <1>1 DEF Last
  <2>2. /\ tensors[k].shape =
             [d \in 1..Len(response[k].shape) |-> ToSize(response[k].shape[d])]
        /\ tensors[k].datatype = from_string(response[k].datatype)
    BY DEF GivenInv
  <2>. QED BY <2>1, <2>2
<1>4. WritesInBounds'
  BY <1>1 DEF WritesInBounds, Counted
<1>. QED BY <1>2, <1>3, <1>4

(* Every type that is read has a width.                                    *)
LEMMA WidthTyped == \A t \in DataTypes \ Unread : Width[t] \in Nat \ {0}
BY DEF DataTypes, Unread, Width

(* A shape of the server becomes a shape of the client.                    *)
LEMMA ShapeTyped ==
    ASSUME NEW s \in Seq(Int64)
    PROVE  [k \in 1..Len(s) |-> ToSize(s[k])] \in Seq(0..(SizeRange - 1))
<1>1. \A k \in 1..Len(s) : ToSize(s[k]) \in 0..(SizeRange - 1)
  <2>. SUFFICES ASSUME NEW k \in 1..Len(s) PROVE ToSize(s[k]) \in 0..(SizeRange - 1)
    OBVIOUS
  <2>1. s[k] \in Int
    BY DEF Int64
  <2>. QED BY <2>1, SizeTyped
<1>. QED BY <1>1

(* What a step that begins an output appends.                              *)
Begun(output) == [shape |-> [k \in 1..Len(output.shape) |-> ToSize(output.shape[k])],
                  datatype |-> from_string(output.datatype), elements |-> 1,
                  room |-> 0, bytes |-> "none", spilled |-> FALSE, data |-> "unset"]

(* A tensor that is begun is a tensor.                                     *)
LEMMA BegunTyped ==
    ASSUME NEW output \in Outputs
    PROVE  Begun(output) \in Tensor
<1>1. output.shape \in Seq(Int64)
  BY DEF Outputs
<1>2. [k \in 1..Len(output.shape) |-> ToSize(output.shape[k])] \in Seq(0..(SizeRange - 1))
  BY <1>1, ShapeTyped
<1>3. 0 \in 0..MaxBytes
  BY ReaderWidths
<1>. QED BY <1>2, <1>3, FromStringTyped DEF Begun, Tensor

(* Every variable keeps its type.                                          *)
LEMMA TypeStep == ReaderTypeOK /\ [Next]_vars => ReaderTypeOK'
<1>. SUFFICES ASSUME ReaderTypeOK, [Next]_vars PROVE ReaderTypeOK'
  OBVIOUS
<1>1. CASE NextOutput
  <2>. DEFINE output == response[Len(tensors) + 1]
  <2>1. Len(tensors) < Len(response) /\ Len(tensors) \in Nat /\ output \in Outputs
    BY <1>1 DEF NextOutput, ReaderTypeOK
  <2>2. Begun(output) \in Tensor
    BY <2>1, BegunTyped
  <2>3. tensors' = Append(tensors, Begun(output))
    BY <1>1 DEF NextOutput, Begun
  <2>4. tensors' \in Seq(Tensor) /\ Len(tensors') = Len(tensors) + 1
    BY <2>2, <2>3 DEF ReaderTypeOK
  <2>5. 1 \in 0..(SizeRange - 1) /\ 0 \in 0..(IndexRange - 1)
    BY ReaderWidths
  <2>. QED BY <1>1, <2>1, <2>4, <2>5 DEF NextOutput, ReaderTypeOK
<1>2. CASE Multiply
  <2>1. /\ Last \in Tensor /\ Len(tensors) > 0 /\ Shape \in Seq(Int64)
        /\ dim \in Nat /\ dim < Len(Shape)
    BY <1>2, LastTyped DEF Multiply, ReaderTypeOK
  <2>2. Shape[dim + 1] \in Int
    BY <2>1 DEF Int64
  <2>3. elements' \in Int
    BY <1>2, <2>2 DEF Multiply, ReaderTypeOK
  <2>4. acc' \in 0..(SizeRange - 1)
    <3>1. ToSize(Shape[dim + 1]) \in Int
      BY <2>2, SizeTyped, ReaderWidths
    <3>2. acc * ToSize(Shape[dim + 1]) \in Int
      BY <3>1, ReaderWidths DEF ReaderTypeOK
    <3>. QED BY <1>2, <3>2, SizeTyped DEF Multiply
  <2>5. [Last EXCEPT !.elements = elements'] \in Tensor
    BY <2>1, <2>3 DEF Tensor
  <2>6. tensors' \in Seq(Tensor) /\ Len(tensors') = Len(tensors)
    BY <1>2, <2>1, <2>5, Amended DEF Multiply
  <2>. QED BY <1>2, <2>1, <2>3, <2>4, <2>6 DEF Multiply, ReaderTypeOK
<1>3. CASE MakeRoom
  <2>1. /\ Last \in Tensor /\ Len(tensors) > 0 /\ Last.datatype \in DataTypes \ Unread
    BY <1>3, LastTyped DEF MakeRoom, Sized, Tensor
  <2>2. BytesToCopy \in 0..MaxBytes
    <3>1. acc * Width[Last.datatype] \in Int
      BY <2>1, WidthTyped, ReaderWidths DEF ReaderTypeOK
    <3>2. BytesToCopy \in 0..(SizeRange - 1)
      BY <3>1, SizeTyped DEF BytesToCopy
    <3>. QED BY <1>3, <3>2, ReaderWidths DEF MakeRoom
  <2>3. [Last EXCEPT !.room = BytesToCopy] \in Tensor
    BY <2>1, <2>2 DEF Tensor
  <2>4. tensors' \in Seq(Tensor) /\ Len(tensors') = Len(tensors)
    BY <1>3, <2>1, <2>3, Amended DEF MakeRoom
  <2>. QED BY <1>3, <2>1, <2>4 DEF MakeRoom, ReaderTypeOK
<1>4. CASE CopyWhole
  <2>. DEFINE t == [Last EXCEPT !.bytes = IF Last.room > ObjectSize THEN "foreign"
                                          ELSE IF Last.room > 0 THEN "field" ELSE "none",
                                !.data = Pointer]
  <2>1. Last \in Tensor /\ Len(tensors) > 0
    BY <1>4, LastTyped DEF CopyWhole
  <2>2. t \in Tensor
    BY <2>1 DEF Tensor, Pointer
  <2>3. tensors' = Amend(t)
    BY <1>4 DEF CopyWhole
  <2>4. tensors' \in Seq(Tensor) /\ Len(tensors') = Len(tensors)
    BY <2>1, <2>2, <2>3, Amended
  <2>. QED BY <1>4, <2>1, <2>4 DEF CopyWhole, ReaderTypeOK
<1>5. CASE CopyOne
  <2>1. Last \in Tensor /\ Len(tensors) > 0
    BY <1>5, LastTyped DEF CopyOne
  <2>2. PICK t \in Tensor : tensors' = Amend(t)
    <3>. DEFINE spills == i * Width[Last.datatype] + Width[Last.datatype] > Last.room
                more == Last.spilled \/ spills
                from == IF i > 0 \/ Last.bytes = "foreign" THEN "foreign" ELSE "field"
                t == [Last EXCEPT !.bytes = from, !.spilled = more]
    <3>1. tensors' = Amend(t)
      BY <1>5 DEF CopyOne
    <3>2. from \in {"none", "field", "foreign"} /\ more \in BOOLEAN
      BY <2>1 DEF Tensor
    <3>. HIDE DEF from, more
    <3>3. t \in Tensor
      BY <2>1, <3>2 DEF Tensor
    <3>. QED BY <3>1, <3>3
  <2>3. tensors' \in Seq(Tensor) /\ Len(tensors') = Len(tensors)
    BY <2>1, <2>2, Amended
  <2>4. i' \in 0..(IndexRange - 1)
    <3>1. i + 1 \in Int /\ i' = (i + 1) % IndexRange
      BY <1>5, ReaderWidths DEF CopyOne, ReaderTypeOK
    <3>. QED BY <3>1, DivMod, ReaderWidths
  <2>. QED BY <1>5, <2>1, <2>3, <2>4 DEF CopyOne, ReaderTypeOK
<1>6. CASE CopyEnd
  <2>1. Last \in Tensor /\ Len(tensors) > 0
    BY <1>6, LastTyped DEF CopyEnd
  <2>2. [Last EXCEPT !.data = Pointer] \in Tensor
    BY <2>1 DEF Tensor, Pointer
  <2>3. tensors' \in Seq(Tensor) /\ Len(tensors') = Len(tensors)
    BY <1>6, <2>1, <2>2, Amended DEF CopyEnd
  <2>. QED BY <1>6, <2>1, <2>3 DEF CopyEnd, ReaderTypeOK
<1>7. CASE Return \/ Skip \/ NoRoom \/ UNCHANGED vars
  BY <1>7 DEF Return, Skip, NoRoom, Sized, vars, ReaderTypeOK
<1>. QED BY <1>1, <1>2, <1>3, <1>4, <1>5, <1>6, <1>7 DEF Next, Step

-----------------------------------------------------------------------------
(* The room of a vector is exact because the bytes were counted modulo the *)
(* width of size_t all the way.                                            *)
LEMMA RoomFollows ==
    ASSUME ReaderTypeOK, HandInv
    PROVE  RoomExact
<1>1. ASSUME at \in {"each", "whole"}, Counted(Last)
      PROVE  Last.room = Last.elements * Width[Last.datatype]
  <2>. DEFINE w == Width[Last.datatype]
  <2>1. Last.datatype \in DataTypes \ Unread /\ Last.elements = elements /\ elements \in Int
    BY <1>1, LastTyped DEF HandInv, Tensor, ReaderTypeOK
  <2>2. w \in Nat \ {0}
    BY <2>1, WidthTyped
  <2>3. elements * w \in 0..(SizeRange - 1)
    BY <1>1, <2>1, <2>2, ReaderWidths DEF Counted
  <2>4. Last.room = ToSize(ToSize(elements) * w)
    BY <1>1 DEF HandInv, BytesToCopy
  <2>. HIDE DEF w
  <2>5. ToSize(ToSize(elements) * w) = elements * w
    BY <2>1, <2>2, <2>3, SizeOfBytes, SizeIsItself
  <2>. QED BY <2>1, <2>4, <2>5 DEF w
<1>. QED BY <1>1 DEF RoomExact, HandInv

(* A loop that counts to the accumulator stays in a vector with room for   *)
(* what was counted.                                                       *)
LEMMA CopyStaysIn ==
    ASSUME ReaderTypeOK, HandInv, at = "each", i < acc, Counted(Last)
    PROVE  ~(i * Width[Last.datatype] + Width[Last.datatype] > Last.room)
<1>. DEFINE w == Width[Last.datatype]
<1>1. Last.datatype \in DataTypes \ Unread /\ Last.elements = elements /\ elements \in Int
  BY LastTyped DEF HandInv, Tensor, ReaderTypeOK
<1>2. w \in Nat \ {0}
  BY <1>1, WidthTyped
<1>3. 0 <= elements * w /\ elements * w < SizeRange
  BY <1>1 DEF Counted
<1>4. Last.room = elements * w
  BY <1>1, RoomFollows DEF RoomExact
<1>5. i \in Nat
  BY ReaderWidths DEF ReaderTypeOK
<1>. HIDE DEF w
<1>6. 0 <= elements /\ elements <= elements * w
  <2>1. CASE elements < 0
    <3>1. PICK m \in Nat : elements = -m /\ m > 0
      <4>1. -elements \in Nat /\ elements = -(-elements) /\ -elements > 0
        BY <1>1, <2>1
      <4>. QED BY <4>1
    <3>2. m * w \in Nat /\ m * w > 0 /\ (-m) * w = -(m * w)
      BY <1>2, <3>1
    <3>. QED BY <1>3, <3>1, <3>2
  <2>2. CASE elements >= 0
    <3>1. PICK v \in Nat : w = v + 1
      <4>1. w - 1 \in Nat /\ w = (w - 1) + 1
        BY <1>2
      <4>. QED BY <4>1
    <3>2. elements * w = elements * v + elements /\ elements * v \in Nat
      BY <1>1, <2>2, <3>1
    <3>. QED BY <1>1, <2>2, <3>2
  <2>. QED BY <1>1, <2>1, <2>2
<1>7. acc = elements
  BY <1>1, <1>3, <1>6, <1>2, SizeIsItself, ReaderWidths DEF HandInv
<1>8. i * w + w <= elements * w
  <2>1. PICK k \in Nat : elements = i + 1 + k
    <3>1. elements - i - 1 \in Nat /\ elements = i + 1 + (elements - i - 1)
      BY <1>1, <1>5, <1>7
    <3>. QED BY <3>1
  <2>2. elements * w = i * w + w + k * w /\ k * w \in Nat /\ i * w \in Nat
    BY <1>2, <1>5, <2>1
  <2>. QED BY <1>2, <2>2
<1>9. i * w \in Int /\ elements * w \in Int
  BY <1>1, <1>2, <1>5
<1>. QED BY <1>2, <1>4, <1>8, <1>9 DEF w

-----------------------------------------------------------------------------
(* The inductive invariant holds in the beginning.                         *)
LEMMA InvInit == Init => ReaderInv
<1>. SUFFICES ASSUME Init PROVE ReaderInv
  OBVIOUS
<1>1. response \in Seq(Outputs) /\ tensors = <<>> /\ Len(tensors) = 0
  BY ResponsesAssumption DEF Init
<1>2. 1 \in 0..(SizeRange - 1) /\ 0 \in 0..(IndexRange - 1)
  BY ReaderWidths
<1>3. Len(response) \in Nat
  BY <1>1
<1>4. tensors \in Seq(Tensor)
  BY <1>1
<1>5. ReaderTypeOK
  BY <1>1, <1>2, <1>3, <1>4 DEF Init, ReaderTypeOK
<1>6. GivenInv /\ WritesInBounds
  BY <1>1 DEF GivenInv, WritesInBounds
<1>7. HandInv /\ RoomExact
  BY DEF Init, HandInv, RoomExact
<1>. QED BY <1>5, <1>6, <1>7 DEF ReaderInv

(* Beginning an output keeps the invariant.                                *)
LEMMA NextOutputInv ==
    ASSUME ReaderInv, NextOutput
    PROVE  HandInv' /\ GivenInv' /\ WritesInBounds'
<1>. DEFINE output == response[Len(tensors) + 1]
<1>0. ReaderTypeOK /\ GivenInv /\ WritesInBounds
  BY DEF ReaderInv
<1>1. Len(tensors) < Len(response) /\ Len(tensors) \in Nat /\ output \in Outputs
  BY <1>0 DEF NextOutput, ReaderTypeOK
<1>2. Begun(output) \in Tensor /\ tensors' = Append(tensors, Begun(output))
  BY <1>1, BegunTyped DEF NextOutput, Begun
<1>3. /\ Len(tensors') = Len(tensors) + 1
      /\ tensors'[Len(tensors) + 1] = Begun(output)
      /\ \A k \in 1..Len(tensors) : tensors'[k] = tensors[k]
  BY <1>0, <1>2 DEF ReaderTypeOK
<1>4. Last' = Begun(output)
  BY <1>3 DEF Last
<1>5. HandInv'
  <2>1. 1 \in 0..(SizeRange - 1)
    BY ReaderWidths
  <2>2. ToSize(1) = 1
    BY <2>1, SizeIsItself
  <2>. QED BY <1>4, <2>2 DEF HandInv, NextOutput, Begun
<1>6. GivenInv'
  <2>. SUFFICES ASSUME NEW k \in 1..(Len(tensors) + 1)
                PROVE  /\ tensors'[k].shape =
                             [d \in 1..Len(response[k].shape) |-> ToSize(response[k].shape[d])]
                       /\ tensors'[k].datatype = from_string(response[k].datatype)
    BY <1>3, ZenonT(30) DEF GivenInv, NextOutput
  <2>1. CASE k \in 1..Len(tensors)
    BY <1>0, <1>3, <2>1 DEF GivenInv
  <2>2. CASE k = Len(tensors) + 1
    <3>1. tensors'[k] = Begun(output) /\ response[k] = output
      BY <1>3, <2>2
    <3>2. /\ Begun(output).shape = [d \in 1..Len(output.shape) |-> ToSize(output.shape[d])]
          /\ Begun(output).datatype = from_string(output.datatype)
      BY DEF Begun
    <3>. QED BY <3>1, <3>2, Zenon
  <2>. QED BY <1>1, <2>1, <2>2
<1>7. WritesInBounds'
  <2>. SUFFICES ASSUME NEW k \in 1..(Len(tensors) + 1)
                PROVE  tensors'[k].spilled => ~Counted(tensors'[k])
    BY <1>3 DEF WritesInBounds, Counted
  <2>1. CASE k \in 1..Len(tensors)
    BY <1>0, <1>3, <2>1 DEF WritesInBounds
  <2>2. CASE k = Len(tensors) + 1
    BY <1>3, <2>2 DEF Begun
  <2>. QED BY <1>1, <2>1, <2>2
<1>. QED BY <1>5, <1>6, <1>7

(* A factor more keeps the invariant: the size is right modulo its width.  *)
LEMMA MultiplyInv ==
    ASSUME ReaderInv, Multiply
    PROVE  HandInv' /\ GivenInv' /\ WritesInBounds'
<1>. DEFINE s == Shape[dim + 1]
            t == [Last EXCEPT !.elements = elements']
<1>0. ReaderTypeOK /\ GivenInv /\ WritesInBounds /\ HandInv /\ at = "size"
  BY DEF ReaderInv, Multiply
<1>1. Last \in Tensor /\ Len(tensors) > 0 /\ Shape \in Seq(Int64) /\ dim \in Nat
  BY <1>0, LastTyped DEF ReaderTypeOK
<1>2. s \in Int /\ elements \in Int
  BY <1>0, <1>1 DEF Multiply, Int64, ReaderTypeOK
<1>3. elements' = elements * s /\ elements' \in Int
  BY <1>2 DEF Multiply
<1>4. /\ t \in Tensor /\ tensors' = Amend(t) /\ t.shape = Last.shape
      /\ t.datatype = Last.datatype /\ t.spilled = Last.spilled /\ t.elements = elements'
  BY <1>1, <1>3 DEF Tensor, Multiply
<1>. HIDE DEF t
<1>5. ~t.spilled
  BY <1>0, <1>4 DEF HandInv
<1>6. GivenInv' /\ WritesInBounds' /\ Last' = t
  BY <1>0, <1>1, <1>4, <1>5, OthersKept DEF Multiply
<1>7. acc' = ToSize(elements')
  <2>1. acc' = ToSize(ToSize(elements) * ToSize(s))
    BY <1>0 DEF Multiply, HandInv
  <2>. QED BY <1>2, <1>3, <2>1, SizeOfProduct
<1>8. HandInv'
  BY <1>0, <1>4, <1>5, <1>6, <1>7 DEF HandInv, Multiply
<1>. QED BY <1>6, <1>8

(* Making room keeps the invariant.                                        *)
LEMMA MakeRoomInv ==
    ASSUME ReaderInv, MakeRoom
    PROVE  HandInv' /\ GivenInv' /\ WritesInBounds'
<1>. DEFINE t == [Last EXCEPT !.room = BytesToCopy]
<1>0. ReaderTypeOK /\ GivenInv /\ WritesInBounds /\ HandInv /\ at = "size"
  BY DEF ReaderInv, MakeRoom, Sized
<1>1. Last \in Tensor /\ Len(tensors) > 0 /\ Last.datatype \in DataTypes \ Unread
  BY <1>0, LastTyped DEF MakeRoom, Tensor
<1>2. BytesToCopy \in 0..MaxBytes
  <2>1. acc * Width[Last.datatype] \in Int
    BY <1>0, <1>1, WidthTyped, ReaderWidths DEF ReaderTypeOK
  <2>2. BytesToCopy \in 0..(SizeRange - 1)
    BY <2>1, SizeTyped DEF BytesToCopy
  <2>. QED BY <2>2, ReaderWidths DEF MakeRoom
<1>3. /\ t \in Tensor /\ tensors' = Amend(t) /\ t.shape = Last.shape
      /\ t.datatype = Last.datatype /\ t.spilled = Last.spilled
      /\ t.elements = Last.elements /\ t.room = BytesToCopy
  BY <1>1, <1>2 DEF Tensor, MakeRoom
<1>. HIDE DEF t
<1>4. ~t.spilled
  BY <1>0, <1>3 DEF HandInv
<1>5. GivenInv' /\ WritesInBounds' /\ Last' = t
  BY <1>0, <1>1, <1>3, <1>4, OthersKept DEF MakeRoom
<1>6. acc' = acc /\ elements' = elements /\ at' \in {"each", "whole"}
  BY DEF MakeRoom
<1>7. BytesToCopy' = BytesToCopy
  BY <1>3, <1>5, <1>6 DEF BytesToCopy
<1>8. HandInv'
  BY <1>0, <1>1, <1>3, <1>5, <1>6, <1>7 DEF HandInv
<1>. QED BY <1>5, <1>8

(* Copying changes bytes, the pointer and whether the loop left its vector. *)
LEMMA CopyInv ==
    ASSUME ReaderInv, at \in {"each", "whole"}, NEW t \in Tensor, tensors' = Amend(t),
           t.shape = Last.shape, t.datatype = Last.datatype, t.elements = Last.elements,
           t.room = Last.room, t.spilled => ~Counted(Last),
           UNCHANGED <<response, acc, elements>>, at' \in {at, "next", "dead"}
    PROVE  HandInv' /\ GivenInv' /\ WritesInBounds'
<1>0. ReaderTypeOK /\ GivenInv /\ WritesInBounds /\ HandInv
  BY DEF ReaderInv
<1>1. Len(tensors) > 0
  BY <1>0, LastTyped
<1>2. t.spilled => ~Counted(t)
  BY DEF Counted
<1>3. GivenInv' /\ WritesInBounds' /\ Last' = t
  BY <1>0, <1>1, <1>2, OthersKept
<1>4. BytesToCopy' = BytesToCopy
  BY <1>3 DEF BytesToCopy
<1>5. HandInv'
  BY <1>0, <1>3, <1>4 DEF HandInv
<1>. QED BY <1>3, <1>5

(* Every step keeps the inductive invariant.                               *)
LEMMA InvStep == ReaderInv /\ [Next]_vars => ReaderInv'
<1>. SUFFICES ASSUME ReaderInv, [Next]_vars PROVE ReaderInv'
  OBVIOUS
<1>0. ReaderTypeOK /\ HandInv /\ GivenInv /\ WritesInBounds /\ ReaderTypeOK'
  BY TypeStep DEF ReaderInv
<1>a. ASSUME HandInv', GivenInv', WritesInBounds' PROVE ReaderInv'
  <2>1. RoomExact'
    BY <1>0, <1>a, RoomFollows, PTL
  <2>. QED BY <1>0, <1>a, <2>1 DEF ReaderInv
<1>1. CASE NextOutput
  BY <1>1, <1>a, NextOutputInv
<1>2. CASE Multiply
  BY <1>2, <1>a, MultiplyInv
<1>3. CASE MakeRoom
  BY <1>3, <1>a, MakeRoomInv
<1>4. CASE CopyWhole
  <2>. DEFINE t == [Last EXCEPT !.bytes = IF Last.room > ObjectSize THEN "foreign"
                                          ELSE IF Last.room > 0 THEN "field" ELSE "none",
                                !.data = Pointer]
  <2>1. Last \in Tensor /\ Last \in {tensors[k] : k \in 1..Len(tensors)} /\ at = "whole"
    BY <1>0, <1>4, LastTyped DEF CopyWhole
  <2>2. /\ t \in Tensor /\ t.shape = Last.shape /\ t.datatype = Last.datatype
        /\ t.elements = Last.elements /\ t.room = Last.room /\ t.spilled = Last.spilled
    BY <2>1 DEF Tensor, Pointer
  <2>3. tensors' = Amend(t) /\ UNCHANGED <<response, acc, elements>> /\ at' \in {"next", "dead"}
    BY <1>4 DEF CopyWhole
  <2>4. t.spilled => ~Counted(Last)
    BY <1>0, <2>1, <2>2 DEF WritesInBounds
  <2>. HIDE DEF t
  <2>. QED BY <2>1, <2>2, <2>3, <2>4, <1>a, CopyInv
<1>5. CASE CopyOne
  <2>. DEFINE spills == i * Width[Last.datatype] + Width[Last.datatype] > Last.room
              more == Last.spilled \/ spills
              from == IF i > 0 \/ Last.bytes = "foreign" THEN "foreign" ELSE "field"
              t == [Last EXCEPT !.bytes = from, !.spilled = more]
  <2>1. /\ Last \in Tensor /\ Last \in {tensors[k] : k \in 1..Len(tensors)}
        /\ at = "each" /\ i < acc
    BY <1>0, <1>5, LastTyped DEF CopyOne
  <2>2. /\ tensors' = Amend(t) /\ UNCHANGED <<response, acc, elements>>
        /\ at' \in {at, "dead"}
    BY <1>5 DEF CopyOne
  <2>3. Last.spilled => ~Counted(Last)
    BY <1>0, <2>1 DEF WritesInBounds
  <2>4. spills => ~Counted(Last)
    BY <1>0, <2>1, CopyStaysIn
  <2>5. more => ~Counted(Last)
    BY <2>3, <2>4
  <2>6. from \in {"none", "field", "foreign"} /\ more \in BOOLEAN
    BY <2>1 DEF Tensor
  <2>. HIDE DEF from, more
  <2>7. /\ t \in Tensor /\ t.shape = Last.shape /\ t.datatype = Last.datatype
        /\ t.elements = Last.elements /\ t.room = Last.room /\ t.spilled = more
    BY <2>1, <2>6 DEF Tensor
  <2>. HIDE DEF t
  <2>. QED BY <2>1, <2>2, <2>5, <2>7, <1>a, CopyInv
<1>6. CASE CopyEnd
  <2>. DEFINE t == [Last EXCEPT !.data = Pointer]
  <2>1. Last \in Tensor /\ Last \in {tensors[k] : k \in 1..Len(tensors)} /\ at = "each"
    BY <1>0, <1>6, LastTyped DEF CopyEnd
  <2>2. /\ t \in Tensor /\ t.shape = Last.shape /\ t.datatype = Last.datatype
        /\ t.elements = Last.elements /\ t.room = Last.room /\ t.spilled = Last.spilled
    BY <2>1 DEF Tensor, Pointer
  <2>3. tensors' = Amend(t) /\ UNCHANGED <<response, acc, elements>> /\ at' = "next"
    BY <1>6 DEF CopyEnd
  <2>4. t.spilled => ~Counted(Last)
    BY <1>0, <2>1, <2>2 DEF WritesInBounds
  <2>. HIDE DEF t
  <2>. QED BY <2>1, <2>2, <2>3, <2>4, <1>a, CopyInv
<1>7. CASE Return \/ Skip \/ NoRoom \/ UNCHANGED vars
  <2>1. UNCHANGED <<response, acc, elements, tensors>> /\ at' \in {at, "next", "done", "threw"}
    BY <1>7 DEF Return, Skip, NoRoom, vars
  <2>2. GivenInv' /\ WritesInBounds'
    BY <1>0, <2>1 DEF GivenInv, WritesInBounds, Counted
  <2>3. at' = "done" => Len(tensors') = Len(response')
    BY <1>0, <1>7 DEF HandInv, Return, Skip, NoRoom, vars
  <2>4. HandInv'
    BY <1>0, <2>1, <2>3 DEF HandInv, Last, BytesToCopy
  <2>. QED BY <2>2, <2>4, <1>a
<1>. QED BY <1>1, <1>2, <1>3, <1>4, <1>5, <1>6, <1>7 DEF Next, Step

-----------------------------------------------------------------------------
(* The inductive invariant of get_infer_response.                          *)
THEOREM ReaderInvariant == ReaderSpec => []ReaderInv
BY InvInit, InvStep, PTL DEF ReaderSpec

(* Every variable has its type, and no vector exceeds memory.              *)
THEOREM ReaderTyped == ReaderSpec => []ReaderTypeOK
<1>1. ReaderInv => ReaderTypeOK
  BY DEF ReaderInv
<1>. QED BY <1>1, ReaderInvariant, PTL

(* The vector has room for exactly the elements of the shape, whenever     *)
(* their bytes can be counted in a size_t.                                 *)
THEOREM RoomIsExact == ReaderSpec => []RoomExact
<1>1. ReaderInv => RoomExact
  BY DEF ReaderInv
<1>. QED BY <1>1, ReaderInvariant, PTL

(* The copying loop writes behind its vector only if the bytes could not   *)
(* be counted.                                                             *)
THEOREM WritesStayInBounds == ReaderSpec => []WritesInBounds
<1>1. ReaderInv => WritesInBounds
  BY DEF ReaderInv
<1>. QED BY <1>1, ReaderInvariant, PTL

(* A tensor of the response that is sent on goes out with the shape and    *)
(* the name of the data type it came with, if the library knows the name.  *)
THEOREM SentOnAlike == ReaderSpec => []ForwardedAlike
<1>1. ReaderInv => ForwardedAlike
  <2>. SUFFICES ASSUME ReaderInv, at = "done", NEW k \in 1..Len(response),
                       response[k].datatype \in Names
                PROVE  /\ str(tensors[k].datatype) = response[k].datatype
                       /\ [d \in 1..Len(tensors[k].shape) |-> ToInt64(tensors[k].shape[d])]
                             = response[k].shape
    BY DEF ForwardedAlike
  <2>. DEFINE given == response[k].shape
  <2>1. k \in 1..Len(tensors) /\ response[k] \in Outputs
    BY DEF ReaderInv, HandInv, ReaderTypeOK
  <2>2. given \in Seq(Int64)
    BY <2>1 DEF Outputs
  <2>3. /\ tensors[k].shape = [d \in 1..Len(given) |-> ToSize(given[d])]
        /\ tensors[k].datatype = from_string(response[k].datatype)
    BY <2>1 DEF ReaderInv, GivenInv
  <2>4. str(tensors[k].datatype) = response[k].datatype
    BY <2>3, NamesRoundTrip
  <2>. HIDE DEF given
  <2>5. Len(tensors[k].shape) = Len(given)
    BY <2>2, <2>3
  <2>6. \A d \in 1..Len(given) : ToInt64(tensors[k].shape[d]) = given[d]
    <3>. SUFFICES ASSUME NEW d \in 1..Len(given)
                  PROVE  ToInt64(tensors[k].shape[d]) = given[d]
      OBVIOUS
    <3>1. given[d] \in Int64
      BY <2>2
    <3>2. tensors[k].shape[d] = ToSize(given[d])
      BY <2>3
    <3>. QED BY <3>1, <3>2, CastsRoundTrip
  <2>7. [d \in 1..Len(tensors[k].shape) |-> ToInt64(tensors[k].shape[d])] = given
    <3>1. given = [d \in 1..Len(given) |-> given[d]]
      BY <2>2
    <3>. QED BY <2>5, <2>6, <3>1
  <2>. QED BY <2>4, <2>7 DEF given
<1>. QED BY <1>1, ReaderInvariant, PTL

-----------------------------------------------------------------------------
(* The elements and the shape, and termination.                            *)

(* The elements are counted along the dimensions, and the loop counter     *)
(* starts at zero.                                                         *)
CountInv ==
    /\ at = "size" => dim <= Len(Shape) /\ Multiplied(Shape, dim, elements) /\ i = 0
    /\ \A k \in 1..Len(tensors) : k < Len(tensors) \/ at # "size" =>
          Multiplied(response[k].shape, Len(response[k].shape), tensors[k].elements)
    /\ at = "each" /\ AllCountable => i <= acc

(* What a server sends does not change while it is read.                   *)
LEMMA ResponseStays == [Next]_vars => response' = response /\ (AllCountable' <=> AllCountable)
<1>. SUFFICES ASSUME [Next]_vars PROVE response' = response
  BY DEF AllCountable
<1>. QED BY DEF Next, Step, NextOutput, Return, Multiply, Skip, MakeRoom, NoRoom, CopyWhole,
                CopyOne, CopyEnd, vars

(* If all elements can be counted in an unsigned int, so can a size_t that *)
(* is what is left of them.                                                *)
LEMMA CountedFits ==
    ASSUME ReaderInv, CountInv, AllCountable, at = "each"
    PROVE  acc \in 0..(IndexRange - 1)
<1>1. Len(tensors) \in 1..Len(response) /\ Last = tensors[Len(tensors)]
  BY LastTyped DEF ReaderInv
<1>2. Last.elements = elements /\ acc = ToSize(elements)
  BY DEF ReaderInv, HandInv
<1>. DEFINE s == response[Len(tensors)].shape
<1>3. Multiplied(s, Len(s), elements) /\ Product(s) \in 0..(IndexRange - 1)
  BY <1>1, <1>2 DEF CountInv, AllCountable
<1>. HIDE DEF s
<1>4. elements \in 0..(IndexRange - 1)
  BY <1>3, MultipliedAll
<1>5. elements \in Nat /\ IndexRange \in Nat /\ SizeRange \in Nat /\ SizeRange > 0
  BY <1>4, ReaderWidths
<1>. DEFINE d == elements \div SizeRange
            r == elements % SizeRange
<1>6. d \in Int /\ r \in 0..(SizeRange - 1) /\ elements = SizeRange * d + r
  BY <1>5, DivMod
<1>. HIDE DEF d, r
<1>7. d >= 0
  <2>. SUFFICES ASSUME d < 0 PROVE FALSE
    BY <1>6
  <2>1. PICK k \in Nat : d = -1 - k
    <3>1. -1 - d \in Nat
      BY <1>6
    <3>. QED BY <1>6, <3>1
  <2>2. SizeRange * d = -SizeRange - SizeRange * k /\ SizeRange * k \in Nat
    BY <1>5, <2>1
  <2>. QED BY <1>5, <1>6, <2>2
<1>8. SizeRange * d \in Nat
  BY <1>5, <1>6, <1>7
<1>9. acc = r
  BY <1>2 DEF ToSize, r
<1>. QED BY <1>4, <1>5, <1>6, <1>8, <1>9

(* A step that leaves the elements alone, and the loop in its bounds,      *)
(* keeps CountInv.                                                         *)
LEMMA CountKept ==
    ASSUME ReaderInv, CountInv, [Next]_vars, Len(tensors') = Len(tensors),
           at # "size" \/ (at = "size" /\ dim = Len(Shape)),
           \A k \in 1..Len(tensors) : tensors'[k].elements = tensors[k].elements,
           at' # "size", at' = "each" /\ AllCountable => i' <= acc'
    PROVE  CountInv'
<1>1. response' = response /\ (AllCountable' <=> AllCountable)
  BY ResponseStays
<1>2. ASSUME NEW k \in 1..Len(tensors)
      PROVE  Multiplied(response[k].shape, Len(response[k].shape), tensors[k].elements)
  <2>1. CASE k < Len(tensors) \/ at # "size"
    BY <2>1 DEF CountInv
  <2>2. CASE k = Len(tensors) /\ at = "size"
    BY <2>2 DEF CountInv, Shape, ReaderInv, HandInv, Last
  <2>. QED BY <2>1, <2>2 DEF ReaderInv, ReaderTypeOK
<1>3. ASSUME NEW k \in 1..Len(tensors)
      PROVE  Multiplied(response'[k].shape, Len(response'[k].shape), tensors'[k].elements)
  BY <1>1, <1>2
<1>. QED BY <1>1, <1>3 DEF CountInv

(* An output that is begun has no dimension counted.                       *)
LEMMA NextOutputCounts ==
    ASSUME ReaderInv, CountInv, NextOutput
    PROVE  CountInv'
<1>. DEFINE n == Len(tensors)
            output == response[n + 1]
<1>1. n \in Nat /\ n < Len(response) /\ output \in Outputs
  BY DEF NextOutput, ReaderInv, ReaderTypeOK
<1>2. tensors' = Append(tensors, Begun(output)) /\ Begun(output) \in Tensor
  BY <1>1, BegunTyped DEF NextOutput, Begun
<1>3. Len(tensors') = n + 1 /\ \A k \in 1..n : tensors'[k] = tensors[k]
  BY <1>2 DEF ReaderInv, ReaderTypeOK
<1>4. at = "next" /\ at' = "size" /\ dim' = 0 /\ elements' = 1 /\ i' = 0 /\ response' = response
  BY DEF NextOutput
<1>5. Shape' = output.shape /\ output.shape \in Seq(Int64)
  BY <1>1, <1>3, <1>4 DEF Shape, Outputs
<1>6. dim' <= Len(Shape') /\ Multiplied(Shape', dim', elements')
  BY <1>4, <1>5, MultipliedNothing
<1>7. ASSUME NEW k \in 1..n
      PROVE  Multiplied(response'[k].shape, Len(response'[k].shape), tensors'[k].elements)
  BY <1>3, <1>4 DEF CountInv
<1>. HIDE DEF n
<1>. QED BY <1>1, <1>3, <1>4, <1>6, <1>7 DEF CountInv

(* One step of std::accumulate counts one more dimension.                  *)
LEMMA MultiplyCounts ==
    ASSUME ReaderInv, CountInv, Multiply
    PROVE  CountInv'
<1>. DEFINE t == [Last EXCEPT !.elements = elements']
            n == Len(tensors)
<1>1. /\ Last \in Tensor /\ n \in 1..Len(response) /\ Shape \in Seq(Int64)
      /\ dim \in Nat /\ dim < Len(Shape) /\ at = "size" /\ at' = "size" /\ i' = i
      /\ response' = response /\ dim' = dim + 1 /\ elements' = elements * Shape[dim + 1]
      /\ tensors' = Amend(t)
  BY LastTyped DEF Multiply, ReaderInv, ReaderTypeOK
<1>2. Multiplied(Shape, dim, elements) /\ i = 0
  BY <1>1 DEF CountInv
<1>3. Multiplied(Shape, dim', elements') /\ dim' <= Len(Shape)
  BY <1>1, <1>2, MultipliedNext
<1>4. Shape[dim + 1] \in Int /\ elements \in Int
  BY <1>1 DEF Int64, ReaderInv, ReaderTypeOK
<1>5. elements' \in Int
  <2>. DEFINE f == Shape[dim + 1]
  <2>1. f \in Int /\ elements \in Int /\ elements' = elements * f
    BY <1>1, <1>4
  <2>. HIDE DEF f
  <2>. QED BY <2>1
<1>6. t \in Tensor
  BY <1>1, <1>5 DEF Tensor
<1>. HIDE DEF t
<1>7. Len(tensors') = n /\ \A k \in 1..n : k # n => tensors'[k] = tensors[k]
  BY <1>1, <1>6, Amended DEF ReaderInv
<1>8. Shape' = Shape
  BY <1>1, <1>7 DEF Shape
<1>9. ASSUME NEW k \in 1..n, k < n
      PROVE  Multiplied(response'[k].shape, Len(response'[k].shape), tensors'[k].elements)
  BY <1>1, <1>7, <1>9 DEF CountInv
<1>. HIDE DEF n
<1>. QED BY <1>1, <1>2, <1>3, <1>7, <1>8, <1>9 DEF CountInv

(* The counter stays an unsigned int without wrapping round.               *)
LEMMA IndexAdvances ==
    ASSUME ReaderInv, CountInv, AllCountable, CopyOne
    PROVE  i' = i + 1 /\ i' <= acc
<1>1. at = "each" /\ i < acc /\ i' = (i + 1) % IndexRange
  BY DEF CopyOne
<1>2. acc \in 0..(IndexRange - 1) /\ i \in 0..(IndexRange - 1)
  BY <1>1, CountedFits DEF ReaderInv, ReaderTypeOK
<1>3. i + 1 \in 0..(IndexRange - 1) /\ IndexRange * 0 + (i + 1) = i + 1 /\ IndexRange \in Nat
      /\ IndexRange > 0
  BY <1>1, <1>2, ReaderWidths
<1>4. (IndexRange * 0 + (i + 1)) % IndexRange = i + 1
  BY <1>3, ModUnique
<1>. QED BY <1>1, <1>2, <1>3, <1>4

(* Copying, and what else amends a tensor, leaves its elements alone.      *)
LEMMA ElementsKept ==
    ASSUME ReaderInv, MakeRoom \/ CopyWhole \/ CopyOne \/ CopyEnd
    PROVE  /\ Len(tensors') = Len(tensors)
           /\ \A k \in 1..Len(tensors) : tensors'[k].elements = tensors[k].elements
<1>1. Last \in Tensor /\ Last = tensors[Len(tensors)] /\ Len(tensors) > 0 /\ ReaderTypeOK
  BY LastTyped DEF ReaderInv, MakeRoom, Sized, CopyWhole, CopyOne, CopyEnd
<1>2. \E t : tensors' = Amend(t) /\ t.elements = Last.elements
  <2>1. CASE MakeRoom
    <3>. DEFINE t == [Last EXCEPT !.room = BytesToCopy]
    <3>1. tensors' = Amend(t) /\ t.elements = Last.elements
      BY <1>1, <2>1 DEF MakeRoom, Tensor
    <3>. QED BY <3>1
  <2>2. CASE CopyWhole
    <3>. DEFINE from == IF Last.room > ObjectSize THEN "foreign"
                        ELSE IF Last.room > 0 THEN "field" ELSE "none"
                t == [Last EXCEPT !.bytes = from, !.data = Pointer]
    <3>1. tensors' = Amend(t) /\ t.elements = Last.elements
      BY <1>1, <2>2 DEF CopyWhole, Tensor
    <3>. QED BY <3>1
  <2>3. CASE CopyOne
    <3>. DEFINE from == IF i > 0 \/ Last.bytes = "foreign" THEN "foreign" ELSE "field"
                more == Last.spilled \/ i * Width[Last.datatype] + Width[Last.datatype] > Last.room
                t == [Last EXCEPT !.bytes = from, !.spilled = more]
    <3>1. tensors' = Amend(t) /\ t.elements = Last.elements
      BY <1>1, <2>3 DEF CopyOne, Tensor
    <3>. QED BY <3>1
  <2>4. CASE CopyEnd
    <3>. DEFINE t == [Last EXCEPT !.data = Pointer]
    <3>1. tensors' = Amend(t) /\ t.elements = Last.elements
      BY <1>1, <2>4 DEF CopyEnd, Tensor
    <3>. QED BY <3>1
  <2>. QED BY <2>1, <2>2, <2>3, <2>4
<1>. QED BY <1>1, <1>2 DEF Amend, ReaderTypeOK

(* CountInv holds in every reachable state.                                *)
LEMMA CountInvariant == ReaderSpec => []CountInv
<1>1. Init => CountInv
  BY DEF Init, CountInv
<1>2. ReaderInv /\ CountInv /\ [Next]_vars => CountInv'
  <2>. SUFFICES ASSUME ReaderInv, CountInv, [Next]_vars PROVE CountInv'
    OBVIOUS
  <2>1. CASE NextOutput
    BY <2>1, NextOutputCounts
  <2>2. CASE Multiply
    BY <2>2, MultiplyCounts
  <2>3. CASE MakeRoom \/ CopyWhole \/ CopyEnd
    <3>1. at' = "each" => i' = 0 /\ acc' \in Nat
      BY <2>3, ReaderWidths
         DEF MakeRoom, Sized, CopyWhole, CopyEnd, CountInv, ReaderInv, ReaderTypeOK
    <3>2. at' # "size" /\ (at # "size" \/ (at = "size" /\ dim = Len(Shape)))
      BY <2>3 DEF MakeRoom, Sized, CopyWhole, CopyEnd
    <3>. QED BY <2>3, <3>1, <3>2, ElementsKept, CountKept
  <2>4. CASE CopyOne
    <3>1. at = "each" /\ at' # "size" /\ acc' = acc
      BY <2>4 DEF CopyOne
    <3>. QED BY <2>4, <3>1, IndexAdvances, ElementsKept, CountKept
  <2>5. CASE Return \/ Skip \/ NoRoom \/ (UNCHANGED vars /\ at # "size")
    <3>1. tensors' = tensors /\ at' # "size" /\ (at # "size" \/ (at = "size" /\ dim = Len(Shape)))
          /\ (at' = "each" => at = "each" /\ i' = i /\ acc' = acc)
      BY <2>5 DEF Return, Skip, Sized, NoRoom, vars
    <3>2. at' = "each" /\ AllCountable => i' <= acc'
      BY <3>1 DEF CountInv
    <3>. QED BY <3>1, <3>2, CountKept
  <2>6. CASE UNCHANGED vars
    BY <2>6 DEF CountInv, AllCountable, Shape, vars
  <2>. QED BY <2>1, <2>2, <2>3, <2>4, <2>5, <2>6 DEF Next, Step
<1>. QED BY <1>1, <1>2, ReaderInvariant, PTL DEF ReaderSpec

(* TensorReader: the vector that is made for an output has room for the    *)
(* elements of the shape the server sent, whatever its rank, whenever      *)
(* their bytes can be counted.                                             *)
THEOREM RoomFollowsShape ==
    ReaderSpec => [](at \in {"each", "whole"} /\ Counted(Last)
                        => Last.room = Product(Shape) * Width[Last.datatype])
<1>1. ReaderInv /\ CountInv => (at \in {"each", "whole"} /\ Counted(Last)
                                   => Last.room = Product(Shape) * Width[Last.datatype])
  <2>. SUFFICES ASSUME ReaderInv, CountInv, at \in {"each", "whole"}, Counted(Last)
                PROVE  Last.room = Product(Shape) * Width[Last.datatype]
    OBVIOUS
  <2>1. Len(tensors) \in 1..Len(response) /\ Last = tensors[Len(tensors)]
    BY LastTyped DEF ReaderInv
  <2>2. Multiplied(Shape, Len(Shape), Last.elements)
    BY <2>1 DEF CountInv, Shape
  <2>3. Product(Shape) = Last.elements
    BY <2>2, MultipliedAll
  <2>. QED BY <2>3 DEF ReaderInv, RoomExact
<1>. QED BY <1>1, ReaderInvariant, CountInvariant, PTL

(* TensorReader: each step of infer() brings the end nearer, as long as    *)
(* the loop counter can count the elements of each tensor; what ReadEnds   *)
(* adds is that the steps are taken.                                       *)
THEOREM ReadComesToAnEnd == ReaderSpec => ReadComesNearer
<1>1. ReaderInv /\ CountInv /\ [Next]_vars => [AllCountable => Nearer /\ Left \in Nat]_vars
  <2>. SUFFICES ASSUME ReaderInv, CountInv, Next, AllCountable, ~UNCHANGED vars
                PROVE  Nearer /\ Left \in Nat
    OBVIOUS
  <2>0. Len(tensors) \in Nat /\ response' = response
    BY ResponseStays DEF ReaderInv, ReaderTypeOK
  <2>1. Left \in Nat
    <3>1. CASE at = "size"
      <4>1. dim \in Nat /\ dim <= Len(Shape) /\ Shape \in Seq(Int64)
        BY <3>1, LastTyped DEF CountInv, ReaderInv, ReaderTypeOK
      <4>. QED BY <3>1, <4>1 DEF Left
    <3>2. CASE at = "each"
      <4>1. acc \in Nat /\ i \in Nat /\ i <= acc
        BY <3>2, ReaderWidths DEF CountInv, ReaderInv, ReaderTypeOK
      <4>. QED BY <3>2, <4>1 DEF Left
    <3>3. CASE at \notin {"size", "each"}
      BY <3>3 DEF Left
    <3>. QED BY <3>1, <3>2, <3>3
  <2>2. CASE NextOutput
    <3>1. Len(tensors') = Len(tensors) + 1
      BY <2>2 DEF NextOutput, ReaderInv, ReaderTypeOK
    <3>. QED BY <2>0, <2>1, <3>1 DEF Nearer
  <2>3. CASE Return \/ Skip \/ NoRoom
    <3>1. tensors' = tensors /\ Stage' < Stage
      BY <2>3 DEF Return, Skip, NoRoom, Sized, Stage
    <3>. QED BY <2>1, <3>1 DEF Nearer
  <2>4. CASE Multiply
    <3>1. /\ at = "size" /\ at' = "size" /\ dim \in Nat /\ dim' = dim + 1
          /\ Len(tensors') = Len(tensors) /\ Len(Shape) \in Nat
      BY <2>4, LastTyped DEF Multiply, Amend, ReaderInv, ReaderTypeOK
    <3>2. Shape' = Shape
      BY <2>0, <3>1 DEF Shape
    <3>3. Stage' = Stage /\ Left = Len(Shape) - dim /\ Left' = Len(Shape) - (dim + 1)
      BY <3>1, <3>2 DEF Stage, Left
    <3>4. Left' < Left
      BY <3>1, <3>3
    <3>. QED BY <2>1, <3>1, <3>3, <3>4 DEF Nearer
  <2>5. CASE MakeRoom \/ CopyWhole \/ CopyEnd
    <3>1. Len(tensors') = Len(tensors)
      BY <2>5, ElementsKept
    <3>2. Stage' < Stage
      BY <2>5 DEF MakeRoom, Sized, CopyWhole, CopyEnd, Stage
    <3>. QED BY <2>1, <3>1, <3>2 DEF Nearer
  <2>6. CASE CopyOne
    <3>1. /\ Len(tensors') = Len(tensors) /\ i' = i + 1 /\ at = "each" /\ at' \in {"each", "dead"}
          /\ acc' = acc /\ acc \in Int /\ i \in Int
      BY <2>6, ElementsKept, IndexAdvances, ReaderWidths DEF CopyOne, ReaderInv, ReaderTypeOK
    <3>2. CASE at' = "dead"
      BY <2>1, <3>1, <3>2 DEF Nearer, Stage
    <3>3. CASE at' = "each"
      <4>1. Stage' = Stage /\ Left = acc - i /\ Left' = acc - (i + 1)
        BY <3>1, <3>3 DEF Stage, Left
      <4>2. Left' < Left
        BY <3>1, <4>1
      <4>. QED BY <2>1, <3>1, <4>1, <4>2 DEF Nearer
    <3>. QED BY <3>1, <3>2, <3>3
  <2>. QED BY <2>2, <2>3, <2>4, <2>5, <2>6 DEF Next, Step
<1>. QED BY <1>1, ReaderInvariant, CountInvariant, PTL DEF ReaderSpec, ReadComesNearer
=============================================================================
