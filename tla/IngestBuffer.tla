----------------------------- MODULE IngestBuffer -----------------------------
(***************************************************************************)
(* buffer.py, class IngestBuffer: the state of one stream's buffer as a    *)
(* record, and what each method does to it as operators.  The actions that *)
(* call them, and the emit callback, are in BufferRouter.                  *)
(*                                                                         *)
(* A chunk keeps its length in bytes and a ghost, the flush identity it    *)
(* was interpreted under.  The ghost packets lists the true positions of   *)
(* the packets folded into the open window, those whose payload was empty  *)
(* included.  overdue stands for the clock: it is true once the window has *)
(* been open for max_age_s.                                                *)
(***************************************************************************)
EXTENDS Packets

CONSTANT
    max_samples    \* samples that close a window

ASSUME MaxSamplesAssumption == max_samples \in Nat \ {0}

FlushIds ==
    [rf_hz : FieldValues, sample_rate_hz : FieldValues,
     component_dtype : Dtypes \cup {None}, is_complex : BOOLEAN \cup {None}]

Chunks == [len : Nat, under : FlushIds]

Buffers ==
    [context : Contexts \cup {None},
     inert : BOOLEAN,
     dropped : Nat,
     chunks : Seq(Chunks),
     packets : Seq(Seqs),
     num_samples : Nat,
     component_dtype : Dtypes \cup {None},
     is_complex : BOOLEAN \cup {None},
     bytes_per_sample : Nat \cup {None},
     start : Seqs \cup {None},
     overdue : BOOLEAN]

ASSUME NoBufferAssumption == None \notin Buffers

NewBuffer ==
    [context |-> None, inert |-> FALSE, dropped |-> 0,
     chunks |-> <<>>, packets |-> <<>>, num_samples |-> 0,
     component_dtype |-> None, is_complex |-> None, bytes_per_sample |-> None,
     start |-> None, overdue |-> FALSE]

IsOpen(b) == b.chunks # <<>>

\* Mutant: the sample count is not reset.
ResetKeepsSamples(b) ==
    [NewBuffer EXCEPT !.context = b.context, !.inert = b.inert, !.dropped = b.dropped,
                      !.num_samples = b.num_samples]

\* flush() resets the accumulation state; context, inert and dropped survive.
Reset(b) ==
    [NewBuffer EXCEPT !.context = b.context, !.inert = b.inert, !.dropped = b.dropped]

\* What flush() hands to emit: the window, labelled with the current context.
Unit(s, b) ==
    [stream |-> s, context |-> b.context, chunks |-> b.chunks, packets |-> b.packets,
     num_samples |-> b.num_samples, component_dtype |-> b.component_dtype,
     is_complex |-> b.is_complex, bytes_per_sample |-> b.bytes_per_sample,
     start |-> b.start]

-----------------------------------------------------------------------------
\* _differs: does the new context close the window that the old one labels?
Differs(old, new) == old = None \/ FlushId(old) # FlushId(new)

Inert(ctx) == ctx.supported = FALSE \/ ctx.component_dtype = None

\* Mutant: a context with the same flush identity is ignored.
AdoptIfDiffers(b, ctx) ==
    IF Differs(b.context, ctx) THEN [b EXCEPT !.context = ctx, !.inert = Inert(ctx)] ELSE b

Adopt(b, ctx) == [b EXCEPT !.context = ctx, !.inert = Inert(ctx)]

-----------------------------------------------------------------------------
\* bool(x) of a Boolean or None.
Truth(x) == x = TRUE

NoUsableContext(b) == b.context = None \/ b.inert

\* A record flush() may convert: a dtype, a sample size, and whole samples.
Usable(r) ==
    /\ r.dtype # None
    /\ r.bytes_per_sample \notin {None, 0}
    /\ r.len % r.bytes_per_sample = 0

\* The record is interpreted differently from the chunks of the open window.
Reinterprets(b, r) ==
    \/ r.dtype # b.component_dtype
    \/ Truth(r.is_complex) # b.is_complex
    \/ r.bytes_per_sample # b.bytes_per_sample

\* The flushes of _push_data that precede the append.
ClosesFirst(b, r) == IsOpen(b) /\ (r.gap_before \/ Reinterprets(b, r))

\* Mutant: only the size is checked, so bytes and void dtypes pass.
LatchableBySize(r) ==
    r.bytes_per_sample = r.dtype.itemsize * (IF Truth(r.is_complex) THEN 2 ELSE 1)

\* _latch: only numeric kinds whose size agrees with the declared sample size.
Latchable(r) ==
    /\ r.dtype.kind \in {"i", "u", "f"}
    /\ r.bytes_per_sample = r.dtype.itemsize * (IF Truth(r.is_complex) THEN 2 ELSE 1)

\* Mutant: the start time of the window is not latched.
LatchNoStart(b, r) ==
    IF IsOpen(b) THEN b
    ELSE [b EXCEPT !.component_dtype = r.dtype,
                   !.is_complex = Truth(r.is_complex),
                   !.bytes_per_sample = r.bytes_per_sample]

\* The first chunk of a window latches the interpretation and the start time.
Latch(b, r) ==
    IF IsOpen(b) THEN b
    ELSE [b EXCEPT !.component_dtype = r.dtype,
                   !.is_complex = Truth(r.is_complex),
                   !.bytes_per_sample = r.bytes_per_sample,
                   !.start = r.seq]

AppendChunk(b, r) ==
    [Latch(b, r) EXCEPT
        !.chunks = Append(@, [len |-> r.len, under |-> r.under]),
        !.packets = Append(@, r.seq),
        !.num_samples = @ + r.len \div r.bytes_per_sample]

\* An empty payload returns early; the ghost notes it if a window is open.
SkipChunk(b, r) ==
    IF IsOpen(b) THEN [b EXCEPT !.packets = Append(@, r.seq)] ELSE b

\* Mutant: the size trigger fires one sample late.
IsOverfull(b) == b.num_samples > max_samples

IsFull(b) == b.num_samples >= max_samples

CountDrop(b) == [b EXCEPT !.dropped = @ + 1]

=============================================================================
