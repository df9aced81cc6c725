----------------------------- MODULE NativeCalls -----------------------------
(***************************************************************************)
(* How an argument of a system call gets from JavaScript into a 64-bit     *)
(* register and how its result comes back, on the three runtimes: Duktape  *)
(* (full-duktape.c), V8 (full-v8.cpp) and Node.js (libsys.cc), called at   *)
(* once (syscall, syscall64) or through the blocks of the thread pool      *)
(* (libasyscall's writeArg and pollBlock).                                 *)
(*                                                                         *)
(* A 64-bit integer is two halves, which are ints; in JavaScript it is     *)
(* [lo, hi] or [lo, hi, offset] of signed halves.                          *)
(*                                                                         *)
(* A definition named Mutant... is no part of the model: it is the         *)
(* definition that follows it with one plausible bug.                      *)
(***************************************************************************)
EXTENDS Integers

CONSTANTS
    Half,       \* how many values an int has: 2^32 in the code
    MaxErrno    \* error numbers are 1 .. MaxErrno

Word == Half * Half     \* registers hold 0 .. Word - 1, -n is Word - n
Ints == -(Half \div 2) .. (Half \div 2) - 1
Words == 0 .. Word - 1

ASSUME WidthAssumption ==
    Half \in Nat /\ Half % 2 = 0 /\ Half > 2 /\ MaxErrno \in 1 .. (Half \div 2) - 1

Runtimes == {"duktape", "v8", "node"}
Ways == {"sync", "async"}

-----------------------------------------------------------------------------
(* Conversions.                                                            *)

\* A cast to int32_t, and v8::Value::Int32Value: the low half, signed.
Wrap(n) == ((n + Half \div 2) % Half) - (Half \div 2)

\* duk_get_int: the nearest int.
Clamp(n) == IF n \in Ints THEN n ELSE IF n < 0 THEN -(Half \div 2) ELSE (Half \div 2) - 1

ToInt(r, n) == IF r = "duktape" THEN Clamp(n) ELSE Wrap(n)

\* intToTuple, fulljs_return_number64, Int64ToArray
Lo(n) == Wrap(n % Half)
Hi(n) == Wrap(n \div Half)

\* tupleToInt, and the array case of fulljs_arg_to_int and ArgToInt: lo is
\* masked, or its sign would run into hi.
MutantJoin(lo, hi, offset) == (hi * Half + lo + offset) % Word
Join(lo, hi, offset) == (hi * Half + (lo % Half) + offset) % Word

\* process.getAddress(ab, offset) on each runtime; V8's has no offset.
GetAddress(r, base, offset) == IF r = "v8" THEN base ELSE (base + ToInt(r, offset)) % Word

-----------------------------------------------------------------------------
(* What JavaScript passes: a number, the memory at an address it was given  *)
(* plus an offset, a Buffer that starts at an offset of its ArrayBuffer, or *)
(* null, for which writeArg has no case.                                    *)

Nothing == [kind |-> "nothing"]
Numbers == [kind : {"number"}, n : -Half .. Word + 1]
Memory  == [kind : {"memory"}, at : Words, offset : 0 .. (Half \div 2) - 1]
Slices  == [kind : {"slice"}, at : Words, offset : 0 .. (Half \div 2) - 1]
NullArg    == [kind |-> "null"]
Args    == Numbers \cup Memory \cup Slices \cup {NullArg}

\* fulljs_arg_to_int, argToInt, ArgToInt.  The last takes null for a Buffer, which
\* it is not.
Takes(r, a) == ~(r = "node" /\ a = NullArg)
SyncArg(r, a) ==
    CASE a.kind = "number" -> ToInt(r, a.n) % Word
      [] a.kind = "memory" -> Join(Lo(a.at), Hi(a.at), a.offset)
      [] a.kind = "slice"  -> (a.at + a.offset) % Word
      [] OTHER             -> 0

\* writeArg: the two ints it writes; writeInt32LE throws for other numbers.
\* The third number of a tuple is not looked at.  null leaves the slot as newBlock
\* allocated it, and fresh memory of mmap is 0.
Fits(a) == a.kind = "number" => a.n \in Ints
AsyncArg(r, a) ==
    CASE a.kind = "number" -> Join(a.n, 0, 0)
      [] a.kind = "memory" -> Join(Lo(a.at), Hi(a.at), 0)
      [] a.kind = "slice"  -> LET addr == GetAddress(r, a.at, a.offset)
                              IN Join(Lo(addr), Hi(addr), 0)
      [] OTHER             -> 0

\* exec_syscall: libc's syscall() returned value, or -1 with an errno.
MutantNegated(r, e) == e
Negated(r, e) == IF r = "v8" THEN e ELSE -e

\* A result for JavaScript: [lo, hi] of a 64-bit call, else an int.
AsNumber(n) == Wrap(n % Half)
AsTuple(n) == <<Lo(n % Word), Hi(n % Word)>>

-----------------------------------------------------------------------------
VARIABLES
    runtime,
    way,        \* of the call in progress
    stage,      \* "idle", "called", "returned", "thrown"
    argument, reg,  \* the argument and the register the kernel reads
    ret,        \* what the kernel returned: 0 .. or -errno
    number, tuple   \* results of syscall and syscall64

native == <<runtime, way, stage, argument, reg, ret, number, tuple>>

NativeInit ==
    /\ runtime \in Runtimes
    /\ way = "sync" /\ stage = "idle"
    /\ argument = Nothing /\ reg = 0 /\ ret = 0
    /\ number = 0 /\ tuple = <<0, 0>>

\* The call is made at once, or its argument written into a block of the pool.
CallNative(a) ==
    /\ stage = "idle"
    /\ argument' = a
    /\ \/ way' = "sync" /\ Takes(runtime, a) /\ stage' = "called" /\ reg' = SyncArg(runtime, a)
       \/ way' = "async" /\ Fits(a) /\ stage' = "called" /\ reg' = AsyncArg(runtime, a)
       \/ way' = "async" /\ ~Fits(a) /\ stage' = "thrown" /\ UNCHANGED reg
    /\ UNCHANGED <<runtime, ret, number, tuple>>

\* Threads of the pool store what the kernel returned; syscall() makes -1 of an
\* error, and the runtime takes errno.
Return(v) ==
    /\ stage = "called"
    /\ stage' = "returned"
    /\ argument' = Nothing /\ UNCHANGED reg
    /\ ret' = v
    /\ LET res == IF way = "sync" /\ v < 0 THEN Negated(runtime, -v) ELSE v
       IN number' = AsNumber(res) /\ tuple' = AsTuple(res)
    /\ UNCHANGED <<runtime, way>>

Continue ==
    /\ stage \in {"returned", "thrown"}
    /\ stage' = "idle"
    /\ way' = "sync"
    /\ argument' = Nothing /\ ret' = 0 /\ number' = 0 /\ tuple' = <<0, 0>>
    /\ UNCHANGED <<runtime, reg>>

NativeNext ==
    \/ \E a \in Args : CallNative(a)
    \/ \E v \in -MaxErrno .. Word - MaxErrno - 1 : Return(v)
    \/ Continue

NativeSpec == NativeInit /\ [][NativeNext]_native

-----------------------------------------------------------------------------
(* Properties.                                                             *)

\* Memory reaches the kernel at its address, on every runtime and both ways of
\* calling: split into halves and joined again, with the offset added.  Not so
\* a tuple with an offset in an asynchronous call, nor a Buffer inside its
\* ArrayBuffer in an asynchronous call on V8.
MemoryArrives ==
    stage = "called" /\ argument.kind \in {"memory", "slice"} =>
        \/ reg = (argument.at + argument.offset) % Word
        \/ way = "async" /\ argument.kind = "memory" /\ argument.offset > 0
        \/ way = "async" /\ argument.kind = "slice" /\ argument.offset > 0 /\ runtime = "v8"

\* An int reaches the kernel as itself, but for a negative one in an
\* asynchronous call, which is a large positive number.
IntsArrive ==
    stage = "called" /\ argument.kind = "number" /\ argument.n \in Ints =>
        reg = IF way = "async" THEN argument.n % Half ELSE argument.n % Word

\* null is the null pointer.  In a block that was used again it would be what an
\* earlier call left there.
NullArrives == stage = "called" /\ argument = NullArg => reg = 0

\* What the kernel reads is what the program passed.
ArgumentsArrive == MemoryArrives /\ IntsArrive /\ NullArrives

\* A negative result is an error and a result of syscall that fits an int is
\* what the kernel returned, except for errors of a synchronous call on V8; the
\* halves of syscall64 always give back the 64 bits.
ResultsArrive ==
    stage = "returned" /\ ~(runtime = "v8" /\ way = "sync" /\ ret < 0) =>
        /\ ret \in Ints => number = ret
        /\ Join(tuple[1], tuple[2], 0) = ret % Word

\* "if negative, represents an error": a call that failed never looks like one
\* that succeeded.
ErrorsAreNegative == stage = "returned" /\ ret < 0 => number < 0

=============================================================================
