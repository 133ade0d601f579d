-------------------------- MODULE TensorConverter ---------------------------
(***************************************************************************)
(* tensor_converter::get_infer_request: the client library turns the input *)
(* tensors of an infer_request into a ModelInferRequest.  The caller gives *)
(* a shape, a data type and a bare pointer; how many elements are read     *)
(* from it is computed from the shape, in machine integers:                *)
(*                                                                         *)
(*   std::accumulate(shape.begin(), shape.end(), 1, multiplies<>())        *)
(*                                                                         *)
(* accumulates in the type of "1", an int, although each product is taken  *)
(* in uint64_t and the result is a size_t.  The loop that copies the       *)
(* elements counts in an unsigned int.  The three widths are parameters.   *)
(*                                                                         *)
(* The size does not matter for a String: its writer makes one string of   *)
(* the bare pointer, up to the first NUL, whatever the shape says.         *)
(*                                                                         *)
(* An element is only counted: converting one changes no value.  The       *)
(* fields that are copied one by one (names, ids) are left out.            *)
(***************************************************************************)
EXTENDS Shapes

CONSTANTS IntRange,     \* int has this many values (2^32)
          IndexRange,   \* unsigned int (2^32)
          SizeRange,    \* uint64_t and size_t (2^64)
          Inputs,       \* the lists of input tensors that callers pass
          MaxElements   \* the elements that memory can hold

PlainTypes == {"Bool", "Uint8", "Uint16", "Uint32", "Uint64", "Int8", "Int16", "Int32", "Int64",
               "Fp32", "Fp64"}
DataTypes == PlainTypes \cup {"Fp16", "String", "Unknown"}

(* The buffer of a tensor holds one element for each place of its shape,   *)
(* for a String one char, as the reader of a response makes it.  nul is    *)
(* how far the first NUL byte is from data; only a String looks for it.    *)
Tensors == [shape : Seq(0..(SizeRange - 1)), datatype : DataTypes, nul : Nat]

(* size_t is wider than int by a whole number of bits, unsigned int holds  *)
(* every positive int, and so does memory.                                 *)
ASSUME WidthsAssumption ==
    /\ IntRange \in Nat /\ IntRange > 2 /\ IndexRange \in Nat /\ SizeRange \in Nat \ {0}
    /\ SizeRange % IntRange = 0
    /\ IntRange <= IndexRange
    /\ MaxElements \in Nat /\ IntRange <= 2 * MaxElements
ASSUME InputsAssumption == Inputs \subseteq Seq(Tensors)

VARIABLES
    inputs,    \* infer_request.input_tensors
    at,        \* where get_infer_request is
    dim,       \* how many dimensions are multiplied
    acc,       \* the accumulator of std::accumulate
    elements,  \* specification only: the elements the dimensions so far stand for
    size,      \* input_size
    i,         \* the index of the copying loop
    request    \* the inputs of the message, one for each tensor begun

vars == <<inputs, at, dim, acc, elements, size, i, request>>

(* Conversions between the integer types.                                  *)
ToSize(x) == x % SizeRange
ToInt(x) == LET r == x % IntRange IN IF 2 * r < IntRange THEN r ELSE r - IntRange
ToInt64(x) == IF 2 * x < SizeRange THEN x ELSE x - SizeRange

Current == inputs[Len(request)]
Last == request[Len(request)]
Amend(message) == [request EXCEPT ![Len(request)] = message]

Init == /\ inputs \in Inputs
        /\ at = "next"
        /\ dim = 0 /\ acc = 1 /\ elements = 1 /\ size = 0 /\ i = 0
        /\ request = <<>>

(* Mutant: the product starts at 0, as a sum does.                         *)
NextTensorFromZero ==
    /\ at = "next"
    /\ Len(request) < Len(inputs)
    /\ LET tensor == inputs[Len(request) + 1] IN
         request' = Append(request,
             [shape |-> [k \in 1..Len(tensor.shape) |-> ToInt64(tensor.shape[k])],
              datatype |-> tensor.datatype, elements |-> 1, count |-> 0, overrun |-> FALSE])
    /\ dim' = 0 /\ acc' = 0 /\ elements' = 1
    /\ at' = "size"
    /\ UNCHANGED <<inputs, size, i>>

(* The next tensor: its data type and its shape go into the message.       *)
NextTensor ==
    /\ at = "next"
    /\ Len(request) < Len(inputs)
    /\ LET tensor == inputs[Len(request) + 1] IN
         request' = Append(request,
             [shape |-> [k \in 1..Len(tensor.shape) |-> ToInt64(tensor.shape[k])],
              datatype |-> tensor.datatype, elements |-> 1, count |-> 0, overrun |-> FALSE])
    /\ dim' = 0 /\ acc' = 1 /\ elements' = 1
    /\ at' = "size"
    /\ UNCHANGED <<inputs, size, i>>

Return == /\ at = "next"
          /\ Len(request) = Len(inputs)
          /\ at' = "done"
          /\ UNCHANGED <<inputs, dim, acc, elements, size, i, request>>

(* Mutant: the product stops at the largest int.                           *)
MultiplySaturating ==
    /\ at = "size"
    /\ dim < Len(Current.shape)
    /\ dim' = dim + 1
    /\ LET p == acc * Current.shape[dim + 1] IN
         acc' = IF 2 * p < IntRange THEN p ELSE (IntRange - 1) \div 2
    /\ elements' = elements * Current.shape[dim + 1]
    /\ request' = Amend([Last EXCEPT !.elements = elements'])
    /\ UNCHANGED <<inputs, at, size, i>>

(* One step of std::accumulate.                                            *)
Multiply ==
    /\ at = "size"
    /\ dim < Len(Current.shape)
    /\ dim' = dim + 1
    /\ acc' = ToInt(ToSize(ToSize(acc) * Current.shape[dim + 1]))
    /\ elements' = elements * Current.shape[dim + 1]
    /\ request' = Amend([Last EXCEPT !.elements = elements'])
    /\ UNCHANGED <<inputs, at, size, i>>

(* The data type selects the writer.  Nothing is written for Fp16 and      *)
(* Unknown.                                                                *)
Dispatch ==
    /\ at = "size"
    /\ dim = Len(Current.shape)
    /\ Current.datatype # "String"
    /\ size' = ToSize(acc)
    /\ i' = 0
    /\ at' = IF Current.datatype \in PlainTypes THEN "write" ELSE "next"
    /\ UNCHANGED <<inputs, dim, acc, elements, request>>

(* A String becomes one string: the chars up to the NUL are read, whatever *)
(* the size is.  If there is no NUL in the buffer, which may be empty, the *)
(* read goes on behind it: that is undefined, as in Write.                 *)
AddString ==
    /\ at = "size"
    /\ dim = Len(Current.shape)
    /\ Current.datatype = "String"
    /\ size' = ToSize(acc)
    /\ i' = 0
    /\ request' = Amend([Last EXCEPT !.count = 1, !.overrun = Current.nul >= elements])
    /\ \/ at' = "next"
       \/ Current.nul >= elements /\ at' = "dead"
    /\ UNCHANGED <<inputs, dim, acc, elements>>

(* Mutant: the loop runs once more.                                        *)
WriteOneMore ==
    /\ at = "write"
    /\ i <= size /\ Last.count < MaxElements
    /\ request' = Amend([Last EXCEPT !.count = @ + 1, !.overrun = @ \/ i >= elements])
    /\ i' = (i + 1) % IndexRange
    /\ \/ at' = at
       \/ i >= elements /\ at' = "dead"
    /\ UNCHANGED <<inputs, dim, acc, elements, size>>

(* Mutant: the loop counter is too narrow.                                 *)
WriteNarrowIndex ==
    /\ at = "write"
    /\ i < size /\ Last.count < MaxElements
    /\ request' = Amend([Last EXCEPT !.count = @ + 1, !.overrun = @ \/ i >= elements])
    /\ i' = (i + 1) % (IndexRange \div 4)
    /\ \/ at' = at
       \/ i >= elements /\ at' = "dead"
    /\ UNCHANGED <<inputs, dim, acc, elements, size>>

(* One element is read and added.  Reading behind the last one is          *)
(* undefined: it ends the process or yields a value.                       *)
Write ==
    /\ at = "write"
    /\ i < size /\ Last.count < MaxElements
    /\ request' = Amend([Last EXCEPT !.count = @ + 1, !.overrun = @ \/ i >= elements])
    /\ i' = (i + 1) % IndexRange
    /\ \/ at' = at
       \/ i >= elements /\ at' = "dead"
    /\ UNCHANGED <<inputs, dim, acc, elements, size>>

(* Memory does not last for ever.                                          *)
WriteFails ==
    /\ at = "write"
    /\ i < size /\ Last.count = MaxElements
    /\ at' = "dead"
    /\ UNCHANGED <<inputs, dim, acc, elements, size, i, request>>

WriteEnd ==
    /\ at = "write"
    /\ i >= size
    /\ at' = "next"
    /\ UNCHANGED <<inputs, dim, acc, elements, size, i, request>>

Step == NextTensor \/ Return \/ Multiply \/ Dispatch \/ AddString \/ Write \/ WriteFails
        \/ WriteEnd

Next == Step \/ (at \in {"done", "dead"} /\ UNCHANGED vars)

Spec == Init /\ [][Next]_vars
FairSpec == Spec /\ WF_vars(Step)

-----------------------------------------------------------------------------
Message == [shape : Seq(Int), datatype : DataTypes, elements : Nat, count : Nat,
            overrun : BOOLEAN]

(* Every variable has its type. *)
TypeOK ==
    /\ inputs \in Seq(Tensors)
    /\ at \in {"next", "size", "write", "done", "dead"}
    /\ dim \in Nat /\ acc \in Int /\ elements \in Nat /\ size \in 0..(SizeRange - 1)
    /\ i \in 0..(IndexRange - 1)
    /\ request \in Seq(Message) /\ Len(request) <= Len(inputs)
    /\ at \in {"size", "write"} => Len(request) > 0

(* The elements of a tensor can be counted in an int. *)
Fits(n) == 2 * n < IntRange

(* The accumulator is right modulo the width of int after every dimension, *)
(* although it goes through unsigned and signed types; so the size of a    *)
(* tensor whose elements an int can count is right even if the product     *)
(* overflowed on the way (a shape such as <<2^20, 2^20, 0>>).              *)
SizeExact ==
    /\ at = "size" => acc = ToInt(elements)
    /\ at = "write" /\ Fits(elements) => size = elements

(* What get_infer_request needs of a tensor whose buffer has n elements:   *)
(* that an int can count them, or that a String ends among its chars.      *)
Readable(tensor, n) ==
    /\ tensor.datatype \in PlainTypes => Fits(n)
    /\ tensor.datatype = "String" => tensor.nul < n

(* Nothing behind the buffer of the caller is read, as long as an int can  *)
(* count its elements; for a String what the shape says is no protection,  *)
(* only a NUL in the buffer is.                                            *)
ReadsInBounds ==
    \A k \in 1..Len(request) :
        request[k].overrun => ~Readable(inputs[k], request[k].elements)

(* And no element is missing from the message.                             *)
CopiesAll ==
    \A k \in 1..Len(request) :
        /\ request[k].datatype \in PlainTypes /\ Fits(request[k].elements)
        /\ k < Len(request) \/ at \in {"next", "done"}
        => request[k].count = request[k].elements

(* What the server can rely on: the message of a tensor has one element    *)
(* for each place of the shape in that message, provided the caller's      *)
(* dimensions are an int64_t each and an int can count the elements.       *)
MessageMatchesShape ==
    at = "done" =>
        \A k \in 1..Len(request) :
            /\ request[k].datatype \in PlainTypes
            /\ \A d \in 1..Len(inputs[k].shape) : 2 * inputs[k].shape[d] < SizeRange
            /\ Fits(Product(inputs[k].shape))
            => request[k].count = Product(request[k].shape)

(* What the caller is asked for: no tensor with more elements than an int  *)
(* can count, no String without a NUL in its buffer.                       *)
AllReadable == \A k \in 1..Len(inputs) : Readable(inputs[k], Product(inputs[k].shape))

(* The conversion ends, if the caller does that.  Otherwise the loop       *)
(* counter, narrower than the size, may never get there, and reading       *)
(* behind the end of a buffer may end the process.                         *)
Converts == AllReadable ~> at = "done"

(* The same as safety.  The conversion neither dies nor gets stuck: until  *)
(* it is done there is a tensor to begin, a dimension to multiply or an    *)
(* element to copy, or the end of each.                                    *)
Stage == CASE at = "size" -> 3 [] at = "write" -> 2 [] at = "next" -> 1 [] OTHER -> 0
Left == CASE at = "size" -> Len(Current.shape) - dim
          [] at = "write" -> size - i
          [] OTHER -> 0
ConversionGoesOn ==
    AllReadable => /\ at # "dead" /\ Left \in Nat
                   /\ at = "write" => i >= size \/ Last.count < MaxElements

(* And each step is one tensor, one stage of it or one round of a loop     *)
(* nearer to the end, which the other two cannot undo.                     *)
Nearer == \/ Len(request') > Len(request)
          \/ Len(request') = Len(request) /\ Stage' < Stage
          \/ Len(request') = Len(request) /\ Stage' = Stage /\ Left' < Left
ConversionComesNearer == [][AllReadable => Nearer]_vars
=============================================================================
