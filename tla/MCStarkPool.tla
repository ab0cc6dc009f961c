---------------------------- MODULE MCStarkPool ----------------------------
(***************************************************************************)
(* The instructions of a small program for the Stark constant pool         *)
(***************************************************************************)
EXTENDS StarkPool

Plain == [first |-> 0, second |-> 0, clr |-> 0]         \* add r1,r2,r3
Small == [first |-> 0, second |-> 0, clr |-> 1]         \* a label below 8192
Imm32 == [first |-> 1, second |-> 0, clr |-> 1]
Imm64 == [first |-> 2, second |-> 0, clr |-> 1]
StoreImm == [first |-> 1, second |-> 1, clr |-> 2]      \* stwi 100000,label[r0]

(* No instruction here brings more than two words of constants, and each   *)
(* marks the operands it pools; a plain one may mark a small label.  What  *)
(* fails of other instructions is in the README.                           *)
MCKinds == {Plain, Small, Imm32, Imm64, StoreImm}
OneConstant == {Plain, Imm32}
=============================================================================
