------------------------------ MODULE MyBuffer ------------------------------
(***************************************************************************)
(* The software ring buffer of BufferedSerial/Buffer/MyBuffer.h: an array  *)
(* of _size elements, a write index and a read index.  put() and get() use *)
(* an index and then advance it modulo _size - 1, so that the last element *)
(* is never used, and equal indices mean "empty", so that one more element *)
(* must stay free.  The modules of the serial port hold the indices as     *)
(* variables and take the operators below.                                 *)
(***************************************************************************)
EXTENDS Integers

CONSTANT Size    \* _size, the argument of the constructor

\* With _size = 1 the code would divide by zero on the first put().
ASSUME SizeAssumption == Size \in Nat /\ Size >= 2

\* The elements that the indices can name between two calls.
Slots == 0 .. Size - 2

\* The number of elements the ring can hold and still tell from "empty".
Capacity == Size - 2

\* `_wloc %= (_size-1)` and `_rloc %= (_size-1)`.
Wrap(i) == i % (Size - 1)

\* The element k places after element i, for k at most _size - 1.
Place(i, k) == IF i + k < Size - 1 THEN i + k ELSE i + k - (Size - 1)

\* available(): is there something to read?
Available(w, r) == w # r
=============================================================================
