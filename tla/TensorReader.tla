---------------------------- MODULE TensorReader ----------------------------
(***************************************************************************)
(* tensor_converter::get_infer_response: the client library turns the      *)
(* output tensors of a ModelInferResponse into an infer_response.  The     *)
(* shape and the name of the data type come from the server.  The reader   *)
(* computes how much room the elements need, in size_t, makes a vector of  *)
(* it, copies, and hands out a pointer into that vector.                   *)
(*                                                                         *)
(* The tensor of the response is made non-const (tensor_converter.cpp:55), *)
(* so getTensorContents returns the address of the repeated field, an      *)
(* object of ObjectSize bytes, and not of its elements; and the vector is  *)
(* local to the reader.  What the bytes are and what becomes of the        *)
(* pointer is state here; names, ids and values are left out.              *)
(***************************************************************************)
EXTENDS Shapes

CONSTANTS IndexRange,   \* unsigned int has this many values (2^32)
          SizeRange,    \* size_t and uint64_t (2^64)
          ObjectSize,   \* sizeof of a repeated field of protobuf
          MaxBytes,     \* what a vector can be resized to
          Wire,         \* the data type names that servers send
          Responses     \* the lists of output tensors that servers send

(* A data type is as wide as the C++ type that reads it.                   *)
Width == [Bool |-> 1, Uint8 |-> 1, Uint16 |-> 2, Uint32 |-> 4, Uint64 |-> 8,
          Int8 |-> 1, Int16 |-> 2, Int32 |-> 4, Int64 |-> 8,
          Fp32 |-> 4, Fp64 |-> 8, String |-> 1]

(* The narrow integers are copied one by one, the others in one piece, and *)
(* these two not at all.                                                   *)
Narrow == {"Uint8", "Uint16", "Int8", "Int16"}
Unread == {"Fp16", "Unknown"}
DataTypes == {"Bool", "Uint8", "Uint16", "Uint32", "Uint64", "Int8", "Int16", "Int32",
              "Int64", "Fp32", "Fp64", "String"} \cup Unread

TypeToString == [Bool |-> "BOOL", Uint8 |-> "UINT8", Uint16 |-> "UINT16", Uint32 |-> "UINT32",
                 Uint64 |-> "UINT64", Int8 |-> "INT8", Int16 |-> "INT16", Int32 |-> "INT32",
                 Int64 |-> "INT64", Fp16 |-> "FP16", Fp32 |-> "FP32", Fp64 |-> "FP64",
                 String |-> "STRING", Unknown |-> "Unknown"]
StringToType == [BOOL |-> "Bool", UINT8 |-> "Uint8", UINT16 |-> "Uint16", UINT32 |-> "Uint32",
                 UINT64 |-> "Uint64", INT8 |-> "Int8", INT16 |-> "Int16", INT32 |-> "Int32",
                 INT64 |-> "Int64", FP16 |-> "Fp16", FP32 |-> "Fp32", FP64 |-> "Fp64",
                 STRING |-> "String", Unknown |-> "Unknown"]
Names == {"BOOL", "UINT8", "UINT16", "UINT32", "UINT64", "INT8", "INT16", "INT32", "INT64",
          "FP16", "FP32", "FP64", "STRING", "Unknown"}

(* Mutant: the names of the 8-bit types are mixed up in one table.         *)
from_string_mixed(name) == CASE name = "INT8" -> "Uint8"
                             [] name \in Names \ {"INT8"} -> StringToType[name]
                             [] OTHER -> "Unknown"

(* data_type::from_string and data_type::str.                              *)
from_string(name) == IF name \in Names THEN StringToType[name] ELSE "Unknown"
str(datatype) == TypeToString[datatype]

(* int64_t becomes uint64_t, and back.                                     *)
ToSize(x) == x % SizeRange
ToInt64(x) == IF 2 * x < SizeRange THEN x ELSE x - SizeRange
Int64 == {x \in -SizeRange..SizeRange : -SizeRange <= 2 * x /\ 2 * x < SizeRange}
Outputs == [shape : Seq(Int64), datatype : Wire]

ASSUME ReaderWidths ==
    /\ SizeRange \in Nat \ {0} /\ IndexRange \in Nat \ {0} /\ SizeRange % 2 = 0
    /\ ObjectSize \in Nat /\ ObjectSize >= 2 /\ MaxBytes \in Nat /\ MaxBytes < SizeRange
ASSUME ResponsesAssumption == Responses \subseteq Seq(Outputs)

VARIABLES
    response,  \* the outputs of the ModelInferResponse
    at,        \* where get_infer_response is
    dim,       \* how many dimensions are multiplied
    acc,       \* the accumulator, then output_size
    elements,  \* specification only: the product in the integers
    i,         \* the index of the copying loop
    tensors    \* the output tensors, one for each begun

vars == <<response, at, dim, acc, elements, i, tensors>>

Shape == response[Len(tensors)].shape
Last == tensors[Len(tensors)]
Amend(tensor) == [tensors EXCEPT ![Len(tensors)] = tensor]

Init == /\ response \in Responses
        /\ at = "next"
        /\ dim = 0 /\ acc = 1 /\ elements = 1 /\ i = 0
        /\ tensors = <<>>

(* The next output: its data type and its shape, and a pointer that no     *)
(* constructor sets.                                                       *)
NextOutput ==
    /\ at = "next" /\ Len(tensors) < Len(response)
    /\ LET output == response[Len(tensors) + 1] IN
         tensors' = Append(tensors,
             [shape |-> [k \in 1..Len(output.shape) |-> ToSize(output.shape[k])],
              datatype |-> from_string(output.datatype), elements |-> 1,
              room |-> 0, bytes |-> "none", spilled |-> FALSE, data |-> "unset"])
    /\ dim' = 0 /\ acc' = 1 /\ elements' = 1 /\ i' = 0
    /\ at' = "size"
    /\ UNCHANGED response

Return == /\ at = "next" /\ Len(tensors) = Len(response)
          /\ at' = "done"
          /\ UNCHANGED <<response, dim, acc, elements, i, tensors>>

(* Mutant: the product is taken as in get_infer_request, in an int of half *)
(* the width.                                                              *)
MultiplyAsInt ==
    /\ at = "size" /\ dim < Len(Shape)
    /\ dim' = dim + 1
    /\ acc' = (acc * Shape[dim + 1]) % (SizeRange \div 2)
    /\ elements' = elements * Shape[dim + 1]
    /\ tensors' = Amend([Last EXCEPT !.elements = elements'])
    /\ UNCHANGED <<response, at, i>>

(* One step of std::accumulate, in size_t.                                 *)
Multiply ==
    /\ at = "size" /\ dim < Len(Shape)
    /\ dim' = dim + 1
    /\ acc' = ToSize(acc * ToSize(Shape[dim + 1]))
    /\ elements' = elements * Shape[dim + 1]
    /\ tensors' = Amend([Last EXCEPT !.elements = elements'])
    /\ UNCHANGED <<response, at, i>>

Sized == at = "size" /\ dim = Len(Shape)

(* Nothing is read of an Fp16 tensor, nor of a type with an unknown name.  *)
Skip == /\ Sized /\ Last.datatype \in Unread
        /\ at' = "next"
        /\ UNCHANGED <<response, dim, acc, elements, i, tensors>>

BytesToCopy == ToSize(acc * Width[Last.datatype])

(* Mutant: the vector is as long as the tensor has elements.               *)
MakeRoomForElements ==
    /\ Sized /\ Last.datatype \notin Unread
    /\ BytesToCopy <= MaxBytes
    /\ tensors' = Amend([Last EXCEPT !.room = acc])
    /\ at' = IF Last.datatype \in Narrow THEN "each" ELSE "whole"
    /\ UNCHANGED <<response, dim, acc, elements, i>>

(* The vector is resized, or throws, out of infer().                       *)
MakeRoom ==
    /\ Sized /\ Last.datatype \notin Unread
    /\ BytesToCopy <= MaxBytes
    /\ tensors' = Amend([Last EXCEPT !.room = BytesToCopy])
    /\ at' = IF Last.datatype \in Narrow THEN "each" ELSE "whole"
    /\ UNCHANGED <<response, dim, acc, elements, i>>
NoRoom ==
    /\ Sized /\ Last.datatype \notin Unread
    /\ BytesToCopy > MaxBytes
    /\ at' = "threw"
    /\ UNCHANGED <<response, dim, acc, elements, i, tensors>>

(* The pointer that is handed out: null for an empty vector, else one into *)
(* a vector that is destroyed on return.                                   *)
Pointer == IF Last.room = 0 THEN "null" ELSE "gone"

(* memcpy from the address of the field.  Reading behind the object is     *)
(* undefined: it ends the process or yields bytes.                         *)
CopyWhole ==
    /\ at = "whole"
    /\ LET behind == Last.room > ObjectSize IN
         /\ tensors' = Amend([Last EXCEPT
                !.bytes = IF behind THEN "foreign"
                          ELSE IF Last.room > 0 THEN "field" ELSE "none",
                !.data = Pointer])
         /\ \/ at' = "next"
            \/ behind /\ at' = "dead"
    /\ UNCHANGED <<response, dim, acc, elements, i>>

(* Mutant: the loop counter is too narrow.                                 *)
CopyNarrowIndex ==
    /\ at = "each" /\ i < acc
    /\ LET width == Width[Last.datatype]
           spills == i * width + width > Last.room IN
         /\ tensors' = Amend([Last EXCEPT
                !.bytes = IF i > 0 \/ @ = "foreign" THEN "foreign" ELSE "field",
                !.spilled = @ \/ spills])
         /\ i' = (i + 1) % (IndexRange \div 4)
         /\ \/ at' = at
            \/ (i > 0 \/ spills) /\ at' = "dead"
    /\ UNCHANGED <<response, dim, acc, elements>>

(* One round of the loop over the elements: contents[i] is the i-th field  *)
(* object, of which there is one.                                          *)
CopyOne ==
    /\ at = "each" /\ i < acc
    /\ LET width == Width[Last.datatype]
           spills == i * width + width > Last.room IN
         /\ tensors' = Amend([Last EXCEPT
                !.bytes = IF i > 0 \/ @ = "foreign" THEN "foreign" ELSE "field",
                !.spilled = @ \/ spills])
         /\ i' = (i + 1) % IndexRange
         /\ \/ at' = at
            \/ (i > 0 \/ spills) /\ at' = "dead"
    /\ UNCHANGED <<response, dim, acc, elements>>
CopyEnd ==
    /\ at = "each" /\ i >= acc
    /\ tensors' = Amend([Last EXCEPT !.data = Pointer])
    /\ at' = "next"
    /\ UNCHANGED <<response, dim, acc, elements, i>>

Step == \/ NextOutput \/ Return \/ Multiply \/ Skip \/ MakeRoom \/ NoRoom
        \/ CopyWhole \/ CopyOne \/ CopyEnd

Next == Step \/ (at \in {"done", "threw", "dead"} /\ UNCHANGED vars)

ReaderSpec == Init /\ [][Next]_vars
FairReader == ReaderSpec /\ WF_vars(Step)

-----------------------------------------------------------------------------
Tensor == [shape : Seq(0..(SizeRange - 1)), datatype : DataTypes, elements : Int,
           room : 0..MaxBytes, bytes : {"none", "field", "foreign"}, spilled : BOOLEAN,
           data : {"unset", "null", "gone"}]

(* Every variable has its type, and the vector never exceeds memory.       *)
ReaderTypeOK ==
    /\ response \in Seq(Outputs)
    /\ at \in {"next", "size", "each", "whole", "done", "threw", "dead"}
    /\ dim \in Nat /\ acc \in 0..(SizeRange - 1) /\ elements \in Int
    /\ i \in 0..(IndexRange - 1)
    /\ tensors \in Seq(Tensor) /\ Len(tensors) <= Len(response)
    /\ at \in {"size", "each", "whole"} => Len(tensors) > 0

(* The elements a shape stands for, and whether their bytes can be counted *)
(* in a size_t.                                                            *)
Counted(tensor) == LET n == tensor.elements * Width[tensor.datatype]
                   IN 0 <= n /\ n < SizeRange

(* tensor_converter.cpp:54 with tensor_converter.hpp:163: the size is      *)
(* right modulo the width of size_t after every dimension, negative ones   *)
(* included, so the vector has room for exactly the elements of the shape  *)
(* whenever their bytes can be counted.                                    *)
RoomExact ==
    /\ at = "size" => acc = ToSize(elements)
    /\ at \in {"each", "whole"} /\ Counted(Last)
       => Last.room = Last.elements * Width[Last.datatype]

(* The copying loop writes behind its vector only if the bytes could not   *)
(* be counted (tensor_converter.hpp:176-179).                              *)
WritesInBounds == \A k \in 1..Len(tensors) : tensors[k].spilled => ~Counted(tensors[k])

(* A tensor that was read and is sent on, as the input of the next model,  *)
(* goes out with the shape and the data type it came with, provided the    *)
(* library knows the type: the casts of the shape and the two tables of    *)
(* data_type.cpp undo each other.                                          *)
ForwardedAlike ==
    at = "done" =>
        \A k \in 1..Len(response) :
            response[k].datatype \in Names =>
                LET tensor == tensors[k] IN
                /\ str(tensor.datatype) = response[k].datatype
                /\ [d \in 1..Len(tensor.shape) |-> ToInt64(tensor.shape[d])] = response[k].shape

(* infer() comes back, or throws, or the process is gone, unless a tensor  *)
(* has more elements than the loop counter can count.                      *)
AllCountable == \A k \in 1..Len(response) : Product(response[k].shape) \in 0..(IndexRange - 1)
ReadEnds == AllCountable ~> at \in {"done", "threw", "dead"}

(* The same as safety: each step is one tensor, one stage of it or one     *)
(* round of a loop nearer to the end, and what is left of a loop can be    *)
(* counted.                                                                *)
Stage == CASE at = "size" -> 3 [] at \in {"each", "whole"} -> 2 [] at = "next" -> 1 [] OTHER -> 0
Left == CASE at = "size" -> Len(Shape) - dim
          [] at = "each" -> acc - i
          [] OTHER -> 0
Nearer == \/ Len(tensors') > Len(tensors)
          \/ Len(tensors') = Len(tensors) /\ Stage' < Stage
          \/ Len(tensors') = Len(tensors) /\ Stage' = Stage /\ Left' < Left
ReadComesNearer == [][AllCountable => Nearer /\ Left \in Nat]_vars

(* What tensor_converter.hpp:34 and its like intend with the data() of a   *)
(* field, and what an output tensor is for: after infer() the caller can   *)
(* read the elements the server sent.                                      *)
OutputsArrive ==
    at = "done" =>
        \A k \in 1..Len(tensors) :
            tensors[k].datatype \notin Unread /\ tensors[k].room > 0
            => tensors[k].data # "gone" /\ tensors[k].bytes \notin {"field", "foreign"}

-----------------------------------------------------------------------------
(* The inductive invariant.                                                *)

(* What the reader has in hand of the tensor it is at; it ends with all.   *)
HandInv ==
    /\ at = "done" => Len(tensors) = Len(response)
    /\ at \in {"size", "each", "whole"} => Last.elements = elements /\ acc = ToSize(elements)
    /\ at = "size" => ~Last.spilled
    /\ at \in {"each", "whole"} => Last.datatype \notin Unread /\ Last.room = BytesToCopy

(* A tensor keeps the shape and the type it was given first.               *)
GivenInv ==
    \A k \in 1..Len(tensors) :
        /\ tensors[k].shape =
              [d \in 1..Len(response[k].shape) |-> ToSize(response[k].shape[d])]
        /\ tensors[k].datatype = from_string(response[k].datatype)

ReaderInv == ReaderTypeOK /\ HandInv /\ GivenInv /\ RoomExact /\ WritesInBounds
=============================================================================
