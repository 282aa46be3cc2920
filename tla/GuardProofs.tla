----------------------------- MODULE GuardProofs -----------------------------
(****************************************************************************)
(* Theorems about Guard, for any depth of nesting and any number of errors: *)
(* every longjmp finds the sigjmp_buf of a live frame, every error the      *)
(* callbacks of live frames; each record is freed once and never while it   *)
(* can be read; and the stack of calls is that of the bodies, but for what  *)
(* a longjmp skipped.                                                       *)
(****************************************************************************)
EXTENDS Guard, FiniteSetTheorems, SequenceTheorems, TLAPS

\* k is the innermost handler among the first n frames of s.
InnermostIn(s, k, n) ==
  /\ k \in 1 .. n
  /\ Handler(s[k])
  /\ \A j \in k + 1 .. n : ~Handler(s[j])

\* The shape of a C stack: PostgresMain at the bottom, a guard only directly
\* above C++ code, and in every handler the one it must restore.
Shape(s) ==
  /\ Len(s) \in Nat \ {0}
  /\ s[1].kind = "try"
  /\ \A i \in 2 .. Len(s) : s[i].kind = "ffi" => s[i - 1].kind = "fn"
  /\ \A i \in 2 .. Len(s) : Handler(s[i]) => InnermostIn(s, s[i].saved, i - 1)

\* The inductive invariant: HandlerLive alone does not say what a guard restores
\* once it is left.
Inv ==
  /\ TypeOK
  /\ Shape(stack)
  /\ InnermostIn(stack, PG_exception_stack, Len(stack))

\* Cutting the stack keeps its shape.
LEMMA ShapeCut ==
  ASSUME NEW s \in Seq(Frame), Shape(s), NEW k \in 1 .. Len(s)
  PROVE  /\ SubSeq(s, 1, k) \in Seq(Frame)
         /\ Len(SubSeq(s, 1, k)) = k
         /\ \A i \in 1 .. k : SubSeq(s, 1, k)[i] = s[i]
         /\ Shape(SubSeq(s, 1, k))
<1> DEFINE c == SubSeq(s, 1, k)
<1>1. /\ c \in Seq(Frame) /\ Len(c) = k
      /\ \A i \in 1 .. k : c[i] = s[i]
  OBVIOUS
<1> HIDE DEF c
<1>2. \A i \in 2 .. k : c[i].kind = "ffi" => c[i - 1].kind = "fn"
  BY <1>1 DEF Shape
<1>3. ASSUME NEW i \in 2 .. k, Handler(c[i]) PROVE InnermostIn(c, c[i].saved, i - 1)
  <2>1. InnermostIn(s, s[i].saved, i - 1) /\ c[i] = s[i]
    BY <1>1, <1>3 DEF Shape
  <2> QED
    BY <1>1, <2>1 DEF InnermostIn
<1>4. Shape(c)
  BY <1>1, <1>2, <1>3 DEF Shape
<1> QED
  BY <1>1, <1>4 DEF c

\* What was innermost stays so when the stack is cut above it.
LEMMA InnermostCut ==
  ASSUME NEW s \in Seq(Frame), Shape(s), NEW k \in 1 .. Len(s), NEW h, NEW n \in 1 .. k,
         InnermostIn(s, h, n)
  PROVE  InnermostIn(SubSeq(s, 1, k), h, n)
BY ShapeCut DEF InnermostIn

\* Entering a C++ function keeps the innermost handler.
LEMMA ShapePushFn ==
  ASSUME NEW s \in Seq(Frame), Shape(s), NEW h, InnermostIn(s, h, Len(s)),
         NEW f \in Frame, f.kind = "fn"
  PROVE  Shape(Append(s, f)) /\ InnermostIn(Append(s, f), h, Len(s) + 1)
<1> DEFINE a == Append(s, f)
<1>1. /\ Len(a) = Len(s) + 1 /\ a[Len(s) + 1] = f
      /\ \A i \in 1 .. Len(s) : a[i] = s[i]
  OBVIOUS
<1> HIDE DEF a
<1>2. \A i \in 2 .. Len(a) : a[i].kind = "ffi" => a[i - 1].kind = "fn"
  BY <1>1 DEF Shape
<1>3. ASSUME NEW i \in 2 .. Len(a), Handler(a[i]) PROVE InnermostIn(a, a[i].saved, i - 1)
  <2>1. CASE i = Len(s) + 1
    BY <1>1, <1>3, <2>1 DEF InnermostIn, Handler
  <2>2. CASE i # Len(s) + 1
    <3>1. i \in 2 .. Len(s) /\ a[i] = s[i]
      BY <1>1, <2>2
    <3>2. InnermostIn(s, s[i].saved, i - 1)
      BY <1>3, <3>1 DEF Shape
    <3>3. \A j \in 1 .. i - 1 : a[j] = s[j]
      BY <1>1, <3>1
    <3> QED
      BY <3>1, <3>2, <3>3 DEF InnermostIn
  <2> QED
    BY <2>1, <2>2
<1>4. Shape(a)
  BY <1>1, <1>2, <1>3 DEF Shape
<1>5. InnermostIn(a, h, Len(s) + 1)
  BY <1>1 DEF InnermostIn, Handler
<1> QED
  BY <1>4, <1>5 DEF a

\* Entering a handler that notes the innermost one makes it the innermost.
LEMMA ShapePushHandler ==
  ASSUME NEW s \in Seq(Frame), Shape(s), NEW h, InnermostIn(s, h, Len(s)),
         NEW f \in Frame, Handler(f), f.saved = h,
         f.kind = "ffi" => s[Len(s)].kind = "fn"
  PROVE  Shape(Append(s, f)) /\ InnermostIn(Append(s, f), Len(s) + 1, Len(s) + 1)
<1> DEFINE a == Append(s, f)
<1>1. /\ Len(a) = Len(s) + 1 /\ a[Len(s) + 1] = f
      /\ \A i \in 1 .. Len(s) : a[i] = s[i]
  OBVIOUS
<1> HIDE DEF a
<1>2. \A i \in 2 .. Len(a) : a[i].kind = "ffi" => a[i - 1].kind = "fn"
  BY <1>1 DEF Shape, Handler
<1>3. ASSUME NEW i \in 2 .. Len(a), Handler(a[i]) PROVE InnermostIn(a, a[i].saved, i - 1)
  <2>1. CASE i = Len(s) + 1
    BY <1>1, <1>3, <2>1 DEF InnermostIn, Handler
  <2>2. CASE i # Len(s) + 1
    <3>1. i \in 2 .. Len(s) /\ a[i] = s[i]
      BY <1>1, <2>2
    <3>2. InnermostIn(s, s[i].saved, i - 1)
      BY <1>3, <3>1 DEF Shape
    <3>3. \A j \in 1 .. i - 1 : a[j] = s[j]
      BY <1>1, <3>1
    <3> QED
      BY <3>1, <3>2, <3>3 DEF InnermostIn
  <2> QED
    BY <2>1, <2>2
<1>4. Shape(a)
  BY <1>1, <1>2, <1>3 DEF Shape
<1>5. InnermostIn(a, Len(s) + 1, Len(s) + 1)
  BY <1>1 DEF InnermostIn, Handler
<1> QED
  BY <1>4, <1>5 DEF a

\* A step that rewrites a C++ frame in place keeps shape and handlers.
LEMMA ShapeSetTop ==
  ASSUME NEW s \in Seq(Frame), Shape(s), NEW h, InnermostIn(s, h, Len(s)),
         NEW f \in Frame, f.kind = "fn", s[Len(s)].kind = "fn"
  PROVE  LET t == [s EXCEPT ![Len(s)] = f]
         IN /\ t \in Seq(Frame) /\ Len(t) = Len(s) /\ t[Len(t)] = f
            /\ Shape(t) /\ InnermostIn(t, h, Len(t))
<1> DEFINE t == [s EXCEPT ![Len(s)] = f]
<1>1. /\ t \in Seq(Frame) /\ Len(t) = Len(s) /\ t[Len(s)] = f
      /\ \A i \in 1 .. Len(s) - 1 : t[i] = s[i]
  BY DEF Shape
<1> HIDE DEF t
<1>2. \A i \in 1 .. Len(s) : Handler(t[i]) <=> Handler(s[i])
  BY <1>1 DEF Handler, Shape
<1>3. \A i \in 1 .. Len(s) : t[i].kind = s[i].kind
  BY <1>1 DEF Shape
<1>4. \A i \in 1 .. Len(s) : Handler(t[i]) => t[i] = s[i]
  BY <1>1, <1>2 DEF Handler, Shape
<1>5. Shape(t)
  <2>1. \A i \in 2 .. Len(t) : t[i].kind = "ffi" => t[i - 1].kind = "fn"
    BY <1>1, <1>3 DEF Shape
  <2>2. ASSUME NEW i \in 2 .. Len(t), Handler(t[i]) PROVE InnermostIn(t, t[i].saved, i - 1)
    <3>1. i \in 2 .. Len(s) /\ Handler(s[i]) /\ t[i] = s[i]
      BY <1>1, <1>2, <1>4, <2>2
    <3>2. InnermostIn(s, s[i].saved, i - 1)
      BY <3>1 DEF Shape
    <3> QED
      BY <1>1, <1>2, <3>1, <3>2 DEF InnermostIn
  <2>3. Len(t) \in Nat \ {0} /\ t[1].kind = "try"
    BY <1>1, <1>3 DEF Shape
  <2> QED
    BY <2>1, <2>2, <2>3 DEF Shape
<1>6. InnermostIn(t, h, Len(t))
  BY <1>1, <1>2 DEF InnermostIn
<1> QED
  BY <1>1, <1>5, <1>6 DEF t
------------------------------------------------------------------------------
Kinds == {"none", "live", "deleted", "corrupt"}

LEMMA DeleteType ==
  ASSUME NEW c \in [ErrIds -> Kinds], NEW once, NEW twice
  PROVE  Delete(c, once, twice) \in [ErrIds -> Kinds]
BY DEF Delete, Kinds

\* The innermost frame, and what removing it leaves.
LEMMA TopFrame ==
  ASSUME Inv
  PROVE  /\ Top \in Frame /\ Top = stack[Len(stack)]
         /\ Len(stack) \in 1 .. MaxDepth
         /\ ~Handler(Top) => Top.kind = "fn" /\ Len(stack) > 1
         /\ Handler(Top) => PG_exception_stack = Len(stack)
         /\ MaxDepth \in Nat /\ MaxCalls \in Nat /\ MaxErrors \in Nat
<1>1. Len(stack) \in 1 .. MaxDepth /\ stack \in Seq(Frame)
  BY DEF Inv, TypeOK
<1>2. stack[Len(stack)] \in Frame
  BY <1>1
<1>3. Handler(Top) => PG_exception_stack = Len(stack)
  BY <1>1 DEF Inv, InnermostIn, Top
<1>4. ~Handler(Top) => Top.kind = "fn" /\ Len(stack) > 1
  BY <1>1, <1>2 DEF Inv, Shape, Handler, Top, Frame
<1> QED
  BY <1>1, <1>2, <1>3, <1>4, BoundsAssumption DEF Top

LEMMA PopHandler ==
  ASSUME Inv, Handler(Top), Len(stack) > 1
  PROVE  /\ Pop \in Seq(Frame) /\ Len(Pop) = Len(stack) - 1
         /\ \A i \in 1 .. Len(stack) - 1 : Pop[i] = stack[i]
         /\ Shape(Pop) /\ InnermostIn(Pop, Top.saved, Len(Pop))
<1>1. /\ stack \in Seq(Frame) /\ Shape(stack)
      /\ Len(stack) - 1 \in 1 .. Len(stack)
      /\ InnermostIn(stack, Top.saved, Len(stack) - 1)
  BY TopFrame DEF Inv, TypeOK, Shape, Top
<1> QED
  BY <1>1, ShapeCut, InnermostCut DEF Pop

LEMMA PopFn ==
  ASSUME Inv, ~Handler(Top)
  PROVE  /\ Pop \in Seq(Frame) /\ Len(Pop) = Len(stack) - 1
         /\ Len(Pop) > 0
         /\ Shape(Pop) /\ InnermostIn(Pop, PG_exception_stack, Len(Pop))
<1>1. /\ stack \in Seq(Frame) /\ Shape(stack) /\ Len(stack) > 1
      /\ Len(stack) - 1 \in 1 .. Len(stack)
      /\ InnermostIn(stack, PG_exception_stack, Len(stack))
  BY TopFrame DEF Inv, TypeOK
<1>2. InnermostIn(stack, PG_exception_stack, Len(stack) - 1)
  BY <1>1, TopFrame DEF InnermostIn, Top
<1> QED
  BY <1>1, <1>2, ShapeCut, InnermostCut DEF Pop

\* Rewriting the innermost C++ frame.
LEMMA SetTopFn ==
  ASSUME Inv, ~Handler(Top), NEW f \in Frame, f.kind = "fn"
  PROVE  /\ SetTop(f) \in Seq(Frame) /\ Len(SetTop(f)) = Len(stack)
         /\ SetTop(f)[Len(stack)] = f /\ SetTop(f)[1].kind = "try"
         /\ Shape(SetTop(f))
         /\ InnermostIn(SetTop(f), PG_exception_stack, Len(stack))
<1>1. /\ stack \in Seq(Frame) /\ Shape(stack) /\ stack[Len(stack)].kind = "fn"
      /\ InnermostIn(stack, PG_exception_stack, Len(stack))
  BY TopFrame DEF Inv, TypeOK, Top
<1>2. LET t == [stack EXCEPT ![Len(stack)] = f]
      IN /\ t \in Seq(Frame) /\ Len(t) = Len(stack) /\ t[Len(t)] = f
         /\ Shape(t) /\ InnermostIn(t, PG_exception_stack, Len(t))
  BY <1>1, ShapeSetTop
<1> QED
  BY <1>2 DEF SetTop, Shape
------------------------------------------------------------------------------
LEMMA InvInit == Init => Inv
<1> SUFFICES ASSUME Init PROVE Inv
  OBVIOUS
<1> USE BoundsAssumption DEF Init
<1>1. /\ CurrentMemoryContext \in Contexts
      /\ Len(stack) = 1 /\ stack[1].kind = "try"
  BY DEF Contexts
<1>2. stack \in Seq(Frame)
  <2>1. stack[1] \in Frame
    BY <1>1 DEF Frame
  <2> QED
    BY <2>1
<1>3. TypeOK
  BY <1>1, <1>2 DEF TypeOK, ErrIds
<1>4. Shape(stack) /\ InnermostIn(stack, PG_exception_stack, Len(stack))
  BY <1>1 DEF Shape, InnermostIn, Handler
<1> QED
  BY <1>3, <1>4 DEF Inv

\* The frame a call of any kind starts with.
LEMMA HandlerFrameType ==
  ASSUME Inv, NEW kind \in {"try", "ffi", "fn"}
  PROVE  /\ HandlerFrame(kind) \in Frame
         /\ HandlerFrame(kind).kind = kind
         /\ HandlerFrame(kind).saved = PG_exception_stack
<1>1. /\ PG_exception_stack \in 0 .. MaxDepth /\ error_context_stack \in 0 .. MaxDepth
      /\ CurrentMemoryContext \in Contexts /\ 0 \in 0 .. MaxCalls
  BY BoundsAssumption DEF Inv, TypeOK
<1>2. <<>> \in Seq(HeldException)
  OBVIOUS
<1> QED
  BY <1>1, <1>2 DEF HandlerFrame, Frame

\* A Postgres frame that becomes a handler, in PG_TRY or in ffi_guard.
LEMMA InvEnter ==
  ASSUME Inv, NEW kind \in {"try", "ffi"}, Enter(kind), mode = "run",
         kind = "ffi" => ~Handler(Top)
  PROVE  Inv'
<1> DEFINE f == HandlerFrame(kind)
<1>1. f \in Frame /\ Handler(f) /\ f.saved = PG_exception_stack /\ f.kind = kind
  BY HandlerFrameType DEF Handler
<1>2. /\ stack' = Append(stack, f) /\ Len(stack) < MaxDepth
      /\ PG_exception_stack' = Len(stack) + 1
      /\ UNCHANGED <<mode, flying, error_context_stack, CurrentMemoryContext, calls,
                     ncalls, cxt, pending>>
  BY DEF Enter, activations, errors
<1> HIDE DEF f
<1>3. stack \in Seq(Frame) /\ Shape(stack)
      /\ InnermostIn(stack, PG_exception_stack, Len(stack))
  BY DEF Inv, TypeOK
<1>4. f.kind = "ffi" => stack[Len(stack)].kind = "fn"
  BY <1>1, TopFrame DEF Top
<1>5. Shape(stack') /\ InnermostIn(stack', Len(stack) + 1, Len(stack) + 1)
  BY <1>1, <1>2, <1>3, <1>4, ShapePushHandler
<1>6. stack' \in Seq(Frame) /\ Len(stack') = Len(stack) + 1
  BY <1>1, <1>2, <1>3
<1>7. TypeOK'
  BY <1>2, <1>5, <1>6, TopFrame DEF Inv, TypeOK, Shape
<1> QED
  BY <1>2, <1>5, <1>6, <1>7 DEF Inv

\* Steps that leave the stack and PG_exception_stack alone.
LEMMA InvSameStack ==
  ASSUME Inv,
         PgSwitchContext \/ PgErrorCallback \/ PgError \/ Report \/ Throw \/ UNCHANGED vars
  PROVE  Inv'
<1>1. UNCHANGED <<stack, PG_exception_stack, calls, cxt, pending, ncalls>>
  BY DEF PgSwitchContext, PgErrorCallback, PgError, Report, Throw, vars, handlers,
         activations, errors
<1>2. CurrentMemoryContext' \in Contexts
  BY DEF PgSwitchContext, PgErrorCallback, PgError, Report, Throw, vars, Contexts, Inv,
         TypeOK
<1>3. error_context_stack' \in 0 .. MaxDepth
  <2>1. Top.cb \in 0 .. MaxDepth /\ Len(stack) \in 0 .. MaxDepth
    BY TopFrame DEF Frame
  <2> QED
    BY <2>1 DEF PgSwitchContext, PgErrorCallback, PgError, Report, Throw, vars, handlers,
                Inv, TypeOK
<1>4. /\ flying' \in 0 .. MaxErrors
      /\ mode' \in {"run", "jump", "capture", "throw"}
      /\ mode' = "capture" => Top.kind = "ffi"
      /\ mode' = "throw" => Top.kind \in {"ffi", "fn"}
  BY TopFrame DEF PgSwitchContext, PgErrorCallback, PgError, Report, Throw, vars,
     CppRunning, PgRunning, Inv, TypeOK
<1>5. TypeOK'
  BY <1>1, <1>2, <1>3, <1>4 DEF Inv, TypeOK, Top
<1> QED
  BY <1>1, <1>5 DEF Inv

\* Handlers that are left: the next one down is installed again.
LEMMA InvLeaveHandler ==
  ASSUME Inv, PgEndTry \/ FfiReturn \/ UnwindFfi
  PROVE  Inv'
<1>1. /\ Handler(Top) /\ Len(stack) > 1
      /\ stack' = Pop
      /\ PG_exception_stack' = Top.saved /\ error_context_stack' = Top.cb
      /\ UNCHANGED <<mode, flying, CurrentMemoryContext, calls, ncalls, cxt, pending>>
      /\ mode = "run" \/ (mode = "throw" /\ Top.kind = "ffi")
  BY TopFrame DEF PgEndTry, FfiReturn, UnwindFfi, RestoreHandlers, PgRunning, Handler,
     activations, errors, Inv, Shape, Top
<1>2. /\ Pop \in Seq(Frame) /\ Len(Pop) = Len(stack) - 1
      /\ \A i \in 1 .. Len(stack) - 1 : Pop[i] = stack[i]
      /\ Shape(Pop) /\ InnermostIn(Pop, Top.saved, Len(Pop))
  BY <1>1, PopHandler
<1>3. Top.kind = "ffi" => Pop[Len(Pop)].kind = "fn"
  BY <1>1, <1>2, TopFrame DEF Inv, Shape
<1>4. Top.saved \in 0 .. MaxDepth /\ Top.cb \in 0 .. MaxDepth
  BY TopFrame DEF Frame
<1>5. TypeOK'
  <2>1. stack' \in Seq(Frame) /\ Len(stack') \in 1 .. MaxDepth /\ stack'[1].kind = "try"
    BY <1>1, <1>2, TopFrame DEF Shape
  <2>2. mode' # "capture" /\ (mode' = "throw" => Top'.kind = "fn")
    BY <1>1, <1>2, <1>3 DEF Top
  <2>3. /\ mode' \in {"run", "jump", "capture", "throw"} /\ flying' \in 0 .. MaxErrors
        /\ CurrentMemoryContext' \in Contexts /\ calls' \in Seq(0 .. MaxCalls)
        /\ cxt' \in [ErrIds -> {"none", "live", "deleted", "corrupt"}]
        /\ pending' \subseteq ErrIds /\ ncalls' \in 0 .. MaxCalls
    BY <1>1 DEF Inv, TypeOK
  <2> QED
    BY <1>1, <1>4, <2>1, <2>2, <2>3 DEF TypeOK
<1> QED
  BY <1>1, <1>2, <1>5 DEF Inv

\* A longjmp lands: everything above the handler is gone.
LEMMA InvLand ==
  ASSUME Inv, LandInFfi \/ \E r \in BOOLEAN : LandInTry(r)
  PROVE  Inv'
<1> DEFINE k == PG_exception_stack
<1>1. /\ k \in 1 .. Len(stack) /\ Handler(stack[k]) /\ stack[k] \in Frame
      /\ stack \in Seq(Frame) /\ Shape(stack)
  BY DEF Inv, TypeOK, InnermostIn
<1>2. CASE LandInFfi
  <2>1. /\ stack' = SubSeq(stack, 1, k) /\ mode' = "capture" /\ stack[k].kind = "ffi"
        /\ UNCHANGED <<flying, PG_exception_stack, error_context_stack,
                       CurrentMemoryContext, calls, ncalls, cxt, pending>>
    BY <1>2 DEF LandInFfi, handlers, activations, errors
  <2>2. /\ stack' \in Seq(Frame) /\ Len(stack') = k
        /\ \A i \in 1 .. k : stack'[i] = stack[i]
        /\ Shape(stack')
    BY <1>1, <2>1, ShapeCut
  <2>3. InnermostIn(stack', k, k)
    BY <1>1, <2>2 DEF InnermostIn
  <2>4. TypeOK'
    BY <1>1, <2>1, <2>2, TopFrame DEF Inv, TypeOK, Top, Shape
  <2> QED
    BY <2>1, <2>2, <2>3, <2>4 DEF Inv
<1>3. ASSUME NEW r \in BOOLEAN, LandInTry(r) PROVE Inv'
  <2> DEFINE n == IF k = 1 THEN 1 ELSE k - 1
  <2>1. /\ stack' = SubSeq(stack, 1, n)
        /\ PG_exception_stack' = IF k = 1 THEN 1 ELSE stack[k].saved
        /\ error_context_stack' = stack[k].cb
        /\ CurrentMemoryContext' = stack[k].mcxt
        /\ mode' \in {"run", "jump"}
        /\ (UNCHANGED <<cxt, pending>>)
             \/ (pending' = {} /\ cxt' = Delete(cxt, pending, {}))
        /\ UNCHANGED <<flying, calls, ncalls>>
    BY <1>3 DEF LandInTry, activations, errors
  <2>2. n \in 1 .. Len(stack) /\ n \in 1 .. k
    BY <1>1
  <2> HIDE DEF n
  <2>3. /\ stack' \in Seq(Frame) /\ Len(stack') = n /\ Shape(stack')
        /\ \A i \in 1 .. n : stack'[i] = stack[i]
    BY <1>1, <2>1, <2>2, ShapeCut
  <2>4. InnermostIn(stack', PG_exception_stack', n)
    <3>1. CASE k = 1
      BY <1>1, <2>1, <2>3, <3>1 DEF n, InnermostIn
    <3>2. CASE k # 1
      <4>1. n = k - 1 /\ InnermostIn(stack, stack[k].saved, k - 1)
        BY <1>1, <3>2 DEF n, Shape
      <4> QED
        BY <2>1, <2>3, <3>2, <4>1 DEF InnermostIn
    <3> QED
      BY <3>1, <3>2
  <2>5. cxt' \in [ErrIds -> Kinds] /\ pending' \subseteq ErrIds
    BY <2>1, DeleteType DEF Inv, TypeOK, Kinds
  <2>6. /\ error_context_stack' \in 0 .. MaxDepth /\ CurrentMemoryContext' \in Contexts
        /\ n \in 1 .. MaxDepth /\ PG_exception_stack' \in 0 .. MaxDepth
    <3>1. stack[k].cb \in 0 .. MaxDepth /\ stack[k].mcxt \in Contexts
      BY <1>1 DEF Frame
    <3>2. n \in 1 .. MaxDepth
      BY <2>2, TopFrame
    <3>3. PG_exception_stack' \in 1 .. n
      BY <2>4 DEF InnermostIn
    <3> QED
      BY <2>1, <3>1, <3>2, <3>3, TopFrame
  <2>7. TypeOK'
    BY <2>1, <2>3, <2>5, <2>6 DEF Inv, TypeOK, Shape, Kinds
  <2> QED
    BY <2>3, <2>4, <2>7 DEF Inv
<1> QED
  BY <1>2, <1>3

\* A captured error starts unwinding at its guard.
LEMMA InvCapture ==
  ASSUME Inv, Capture \/ CaptureFails
  PROVE  Inv'
<1>1. /\ mode = "capture" /\ mode' = "throw" /\ pending' = {}
      /\ UNCHANGED <<stack, PG_exception_stack, error_context_stack, calls, ncalls>>
  BY DEF Capture, CaptureFails, handlers, activations
<1>2. PICK e \in ErrIds :
        /\ flying' \in ErrIds
        /\ CurrentMemoryContext' \in {e, Top.mcxt}
        /\ \/ cxt' = [Delete(cxt, pending, {}) EXCEPT ![e] = "live"]
           \/ cxt' = [Delete(cxt, pending, {}) EXCEPT ![e] = "live", ![e + 1] = "live"]
  BY DEF Capture, CaptureFails, Captured
<1>3. Delete(cxt, pending, {}) \in [ErrIds -> Kinds]
  BY DeleteType DEF Inv, TypeOK, Kinds
<1>4. cxt' \in [ErrIds -> Kinds]
  BY <1>2, <1>3 DEF Kinds
<1>5. flying' \in 0 .. MaxErrors /\ CurrentMemoryContext' \in Contexts
  BY <1>2, TopFrame DEF ErrIds, Contexts, Frame
<1>6. TypeOK'
  BY <1>1, <1>4, <1>5 DEF Inv, TypeOK, Top, Kinds
<1> QED
  BY <1>1, <1>6 DEF Inv

\* fmgr enters a C++ function.
LEMMA InvCallFunction ==
  ASSUME Inv, CallFunction
  PROVE  Inv'
<1> DEFINE f == [HandlerFrame("fn") EXCEPT !.call = ncalls + 1]
<1>1. ncalls + 1 \in 0 .. MaxCalls /\ Len(stack) + 1 \in 1 .. MaxDepth
  BY TopFrame DEF CallFunction, Inv, TypeOK
<1>2. f \in Frame /\ f.kind = "fn"
  BY <1>1, HandlerFrameType DEF Frame
<1>3. /\ stack' = Append(stack, f) /\ ncalls' = ncalls + 1 /\ mode' = "run"
      /\ UNCHANGED <<flying, PG_exception_stack, error_context_stack,
                     CurrentMemoryContext, calls, cxt, pending>>
  BY DEF CallFunction, PgRunning, handlers, errors
<1> HIDE DEF f
<1>4. /\ stack \in Seq(Frame) /\ Shape(stack)
      /\ InnermostIn(stack, PG_exception_stack, Len(stack))
  BY DEF Inv, TypeOK
<1>5. Shape(stack') /\ InnermostIn(stack', PG_exception_stack, Len(stack) + 1)
  BY <1>2, <1>3, <1>4, ShapePushFn
<1>6. stack' \in Seq(Frame) /\ Len(stack') = Len(stack) + 1
  BY <1>2, <1>3, <1>4
<1>7. TypeOK'
  BY <1>1, <1>3, <1>5, <1>6 DEF Inv, TypeOK, Shape
<1> QED
  BY <1>3, <1>5, <1>6, <1>7 DEF Inv

\* The frames with a live handle can be counted.
LEMMA HandlesCount ==
  ASSUME Inv
  PROVE  /\ IsFiniteSet(Handles) /\ Cardinality(Handles) \in Nat
         /\ Handles \subseteq 1 .. Len(stack)
         /\ Top.handle => Len(stack) \in Handles
         /\ Top.handle /\ PopNeverEmpty => Len(calls) > 0
<1>1. Handles \subseteq 1 .. Len(stack) /\ Len(stack) \in Nat
  BY DEF Handles, Inv, TypeOK
<1>2. IsFiniteSet(Handles) /\ Cardinality(Handles) \in Nat
  <2>1. IsFiniteSet(1 .. Len(stack))
    BY <1>1, FS_Interval
  <2>2. Handles \in SUBSET (1 .. Len(stack))
    BY <1>1
  <2>3. IsFiniteSet(Handles)
    BY <2>1, <2>2, FS_Subset
  <2> QED
    BY <2>3, FS_CardinalityType
<1>3. Top.handle => Len(stack) \in Handles
  BY TopFrame DEF Handles, Inv, TypeOK, Top
<1>4. Top.handle => Cardinality(Handles) # 0
  BY <1>2, <1>3, FS_EmptySet
<1> QED
  BY <1>1, <1>2, <1>3, <1>4 DEF PopNeverEmpty, Inv, TypeOK

\* Popping the last element of a sequence.
LEMMA PopType ==
  ASSUME NEW S, NEW q \in Seq(S), Len(q) > 0
  PROVE  /\ SubSeq(q, 1, Len(q) - 1) \in Seq(S)
         /\ Len(SubSeq(q, 1, Len(q) - 1)) = Len(q) - 1
<1>1. CASE Len(q) = 1
  <2>1. SubSeq(q, 1, Len(q) - 1) = <<>>
    BY <1>1, SubSeqEmpty
  <2>2. <<>> \in Seq(S) /\ Len(<<>>) = 0
    OBVIOUS
  <2>3. SubSeq(q, 1, Len(q) - 1) \in Seq(S)
    BY ONLY <2>1, <2>2, Zenon
  <2>4. Len(SubSeq(q, 1, Len(q) - 1)) = 0
    BY ONLY <2>1, <2>2, Zenon
  <2> QED
    BY <1>1, <2>3, <2>4
<1>2. CASE Len(q) > 1
  <2>1. Len(q) - 1 \in 1 .. Len(q)
    BY <1>2
  <2> QED
    BY <2>1
<1>3. Len(q) = 1 \/ Len(q) > 1
  <2>1. Len(q) \in Nat
    OBVIOUS
  <2>2. \A n \in Nat : n > 0 => n = 1 \/ n > 1
    OBVIOUS
  <2> QED
    BY <2>1, <2>2, Zenon
<1> QED
  BY ONLY <1>1, <1>2, <1>3, Zenon

\* Popping an entry of calls, where there is one.
LEMMA PopCallsType ==
  ASSUME Inv, PopNeverEmpty
  PROVE  Top.handle => /\ SubSeq(calls, 1, Len(calls) - 1) \in Seq(0 .. MaxCalls)
                       /\ Len(SubSeq(calls, 1, Len(calls) - 1)) = Len(calls) - 1
<1>1. calls \in Seq(0 .. MaxCalls) /\ (Top.handle => Len(calls) > 0)
  BY HandlesCount DEF Inv, TypeOK
<1> QED
  BY <1>1, PopType

\* The body returns.
LEMMA InvFnReturn ==
  ASSUME Inv, PopNeverEmpty, FnReturn
  PROVE  Inv'
<1>1. /\ ~Handler(Top) /\ stack' = Pop /\ mode' = "run"
      /\ CurrentMemoryContext' \in {Top.mcxt, CurrentMemoryContext}
      /\ Top.handle /\ calls' = SubSeq(calls, 1, Len(calls) - 1)
      /\ UNCHANGED <<flying, PG_exception_stack, error_context_stack, ncalls, cxt, pending>>
  BY DEF FnReturn, CppRunning, EndScope, PopCalls, handlers, errors
<1>2. /\ Pop \in Seq(Frame) /\ Len(Pop) = Len(stack) - 1 /\ Len(Pop) > 0
      /\ Shape(Pop) /\ InnermostIn(Pop, PG_exception_stack, Len(Pop))
  BY <1>1, PopFn
<1>3. CurrentMemoryContext' \in Contexts
  BY <1>1, TopFrame DEF Frame, Inv, TypeOK
<1>4. calls' \in Seq(0 .. MaxCalls)
  BY <1>1, PopCallsType
<1>5. TypeOK'
  <2>1. stack' \in Seq(Frame) /\ Len(stack') \in 1 .. MaxDepth /\ stack'[1].kind = "try"
    BY <1>1, <1>2, TopFrame DEF Shape
  <2>2. /\ flying' \in 0 .. MaxErrors /\ PG_exception_stack' \in 0 .. MaxDepth
        /\ error_context_stack' \in 0 .. MaxDepth
        /\ cxt' \in [ErrIds -> {"none", "live", "deleted", "corrupt"}]
        /\ pending' \subseteq ErrIds /\ ncalls' \in 0 .. MaxCalls
    BY <1>1 DEF Inv, TypeOK
  <2> QED
    BY <1>1, <1>3, <1>4, <2>1, <2>2 DEF TypeOK
<1> QED
  BY <1>1, <1>2, <1>5 DEF Inv

\* The frames the steps of a C++ body leave on top.
LEMMA RewrittenFrames ==
  ASSUME Inv, ~Handler(Top)
  PROVE  /\ \A s \in BOOLEAN :
              [Top EXCEPT !.handle = TRUE, !.scope = s, !.mcxt = CurrentMemoryContext] \in Frame
         /\ \A c \in BOOLEAN : flying # 0 =>
              [Top EXCEPT !.held = Append(@, [err |-> flying, copy |-> c])] \in Frame
         /\ Top.held # <<>> =>
              [Top EXCEPT !.held = SubSeq(@, 1, Len(@) - 1)] \in Frame
         /\ [Top EXCEPT !.handle = FALSE, !.scope = FALSE, !.held = <<>>] \in Frame
<1>1. Top \in Frame /\ CurrentMemoryContext \in Contexts /\ flying \in 0 .. MaxErrors
  BY TopFrame DEF Inv, TypeOK
<1>2. Top.held \in Seq(HeldException)
  BY <1>1 DEF Frame
<1>3. \A c \in BOOLEAN : flying # 0 =>
        Append(Top.held, [err |-> flying, copy |-> c]) \in Seq(HeldException)
  <2> SUFFICES ASSUME NEW c \in BOOLEAN, flying # 0
               PROVE  Append(Top.held, [err |-> flying, copy |-> c]) \in Seq(HeldException)
    OBVIOUS
  <2>1. [err |-> flying, copy |-> c] \in HeldException
    BY <1>1 DEF HeldException, ErrIds
  <2> QED
    BY <1>2, <2>1
<1>4. Top.held # <<>> => SubSeq(Top.held, 1, Len(Top.held) - 1) \in Seq(HeldException)
  BY <1>2
<1>5. <<>> \in Seq(HeldException)
  OBVIOUS
<1> QED
  BY <1>1, <1>3, <1>4, <1>5 DEF Frame

\* Steps within the innermost C++ frame: push(fc), catch clauses, the way out
\* through exception_guard.
LEMMA InvRewrite ==
  ASSUME Inv, PopNeverEmpty,
         \/ \E s \in BOOLEAN : EnterBody(s)
         \/ \E c \in BOOLEAN : Catch(c)
         \/ EndCatch \/ ThrowAgain \/ Rethrow \/ Escape
  PROVE  Inv'
<1>1. /\ ~Handler(Top) /\ Top.kind = "fn" /\ mode' # "capture"
      /\ UNCHANGED <<PG_exception_stack, error_context_stack, ncalls>>
  BY TopFrame DEF EnterBody, Catch, EndCatch, ThrowAgain, Rethrow, Escape, CppRunning,
     handlers, activations
<1>2. \/ stack' = stack
      \/ \E f \in Frame : f.kind = "fn" /\ stack' = SetTop(f)
  <2>1. ASSUME NEW s \in BOOLEAN, EnterBody(s)
        PROVE  \E f \in Frame : f.kind = "fn" /\ stack' = SetTop(f)
    <3> DEFINE f == [Top EXCEPT !.handle = TRUE, !.scope = s, !.mcxt = CurrentMemoryContext]
    <3>1. f \in Frame
      BY <1>1, RewrittenFrames
    <3>2. f.kind = "fn" /\ stack' = SetTop(f)
      BY <1>1, <2>1, TopFrame DEF EnterBody, Frame
    <3> QED
      BY <3>1, <3>2
  <2>2. ASSUME NEW c \in BOOLEAN, Catch(c), flying # 0
        PROVE  \E f \in Frame : f.kind = "fn" /\ stack' = SetTop(f)
    <3> DEFINE f == [Top EXCEPT !.held = Append(@, [err |-> flying, copy |-> c])]
    <3>1. f \in Frame
      BY <1>1, <2>2, RewrittenFrames
    <3>2. f.kind = "fn" /\ stack' = SetTop(f)
      BY <1>1, <2>2, TopFrame DEF Catch, Frame
    <3> QED
      BY <3>1, <3>2
  <2>3. ASSUME Top.held # <<>>, stack' = DropInnermost
        PROVE  \E f \in Frame : f.kind = "fn" /\ stack' = SetTop(f)
    <3> DEFINE f == [Top EXCEPT !.held = SubSeq(@, 1, Len(@) - 1)]
    <3>1. f \in Frame
      BY <1>1, <2>3, RewrittenFrames
    <3>2. f.kind = "fn" /\ stack' = SetTop(f)
      BY <1>1, <2>3, TopFrame DEF DropInnermost, Frame
    <3> QED
      BY <3>1, <3>2
  <2>4. ASSUME Escape
        PROVE  \E f \in Frame : f.kind = "fn" /\ stack' = SetTop(f)
    <3> DEFINE f == [Top EXCEPT !.handle = FALSE, !.scope = FALSE, !.held = <<>>]
    <3>1. f \in Frame
      BY <1>1, RewrittenFrames
    <3>2. f.kind = "fn" /\ stack' = SetTop(f)
      BY <1>1, <2>4, TopFrame DEF Escape, Frame
    <3> QED
      BY <3>1, <3>2
  <2>5. \A c \in BOOLEAN : Catch(c) /\ flying = 0 => stack' = stack
    BY DEF Catch
  <2>6. EndCatch \/ ThrowAgain \/ Rethrow => Top.held # <<>> /\ stack' = DropInnermost
    BY DEF EndCatch, ThrowAgain, Rethrow
  <2> QED
    BY <2>1, <2>2, <2>3, <2>4, <2>5, <2>6
<1>3. /\ stack' \in Seq(Frame) /\ Len(stack') = Len(stack)
      /\ stack'[Len(stack)].kind = "fn" /\ Shape(stack')
      /\ InnermostIn(stack', PG_exception_stack, Len(stack))
  BY <1>1, <1>2, SetTopFn DEF Inv, TypeOK, Top
<1>4. calls' \in Seq(0 .. MaxCalls)
  <2>1. Top.call \in 0 .. MaxCalls /\ calls \in Seq(0 .. MaxCalls)
    BY TopFrame DEF Frame, Inv, TypeOK
  <2>2. Append(calls, Top.call) \in Seq(0 .. MaxCalls)
    BY <2>1
  <2> QED
    BY <2>1, <2>2, PopCallsType DEF EnterBody, Push, Catch, EndCatch, ThrowAgain, Rethrow,
       Escape, PopCalls, activations
<1>5. Top.held # <<>> => Innermost.err \in ErrIds
  <2>1. Top.held \in Seq(HeldException)
    BY TopFrame DEF Frame
  <2>2. Top.held # <<>> => Innermost \in HeldException
    BY <2>1 DEF Innermost
  <2> QED
    BY <2>2 DEF HeldException
<1>6. flying' \in 0 .. MaxErrors /\ pending' \subseteq ErrIds
  <2>1. flying' = flying \/ flying' = 0 \/ (Top.held # <<>> /\ flying' = Innermost.err)
    BY DEF EnterBody, Catch, EndCatch, ThrowAgain, Rethrow, Escape
  <2>2. \/ pending' = pending
        \/ Top.held # <<>> /\ pending' = pending \cup {Innermost.err}
        \/ pending' = pending \cup ({flying} \ {0})
    BY DEF EnterBody, Catch, EndCatch, ThrowAgain, Rethrow, Escape, HandOver, errors
  <2>3. flying \in 0 .. MaxErrors /\ pending \subseteq ErrIds
    BY DEF Inv, TypeOK
  <2> QED
    <3>1. flying' \in 0 .. MaxErrors
      BY <1>5, <2>1, <2>3, TopFrame DEF ErrIds
    <3>2. {flying} \ {0} \subseteq ErrIds
      BY <2>3, TopFrame DEF ErrIds
    <3>3. pending' \subseteq ErrIds
      BY ONLY <1>5, <2>2, <2>3, <3>2
    <3> QED
      BY <3>1, <3>3
<1>7. cxt' \in [ErrIds -> Kinds]
  <2>1. \/ cxt' = cxt
        \/ \E once, twice : cxt' = Delete(cxt, once, twice)
    BY DEF EnterBody, Catch, EndCatch, ThrowAgain, Rethrow, Escape, HandOver, Destroy, errors
  <2>2. cxt \in [ErrIds -> Kinds]
    BY DEF Inv, TypeOK, Kinds
  <2> QED
    BY <2>1, <2>2, DeleteType
<1>8. CurrentMemoryContext' \in Contexts
  BY TopFrame DEF EnterBody, Catch, EndCatch, ThrowAgain, Rethrow, Escape, EndScope,
     Contexts, Frame, Inv, TypeOK
<1>9. mode' \in {"run", "jump", "throw"}
  BY DEF EnterBody, Catch, EndCatch, ThrowAgain, Rethrow, Escape, CppRunning
<1>10. TypeOK'
  <2>1. stack'[1].kind = "try" /\ Len(stack') \in 1 .. MaxDepth
    BY <1>3, TopFrame DEF Shape
  <2>2. Top' = stack'[Len(stack')]
    BY DEF Top
  <2> QED
    BY <1>1, <1>3, <1>4, <1>6, <1>7, <1>8, <1>9, <2>1, <2>2 DEF Inv, TypeOK, Kinds
<1> QED
  BY <1>1, <1>3, <1>10 DEF Inv
------------------------------------------------------------------------------
\* A step that pushes no entry and leaves no new handle alive.
LEMMA CountKept ==
  ASSUME Inv, PopNeverEmpty, calls' = calls, Handles' \subseteq Handles
  PROVE  PopNeverEmpty'
<1>1. Handles' \in SUBSET Handles
  OBVIOUS
<1>2. IsFiniteSet(Handles) /\ Cardinality(Handles) \in Nat
  BY HandlesCount
<1>3. IsFiniteSet(Handles') /\ Cardinality(Handles') <= Cardinality(Handles)
  BY <1>1, <1>2, FS_Subset
<1>4. Cardinality(Handles') \in Nat
  BY <1>3, FS_CardinalityType
<1>5. Len(calls) \in Nat
  BY DEF Inv, TypeOK
<1> QED
  BY <1>2, <1>3, <1>4, <1>5 DEF PopNeverEmpty

\* A step that ends the innermost handle and pops an entry.
LEMMA CountDown ==
  ASSUME Inv, PopNeverEmpty, Top.handle, calls' = SubSeq(calls, 1, Len(calls) - 1),
         Handles' = Handles \ {Len(stack)}
  PROVE  PopNeverEmpty'
<1>1. /\ IsFiniteSet(Handles) /\ Cardinality(Handles) \in Nat
      /\ Len(stack) \in Handles
  BY HandlesCount
<1>2. Cardinality(Handles') = Cardinality(Handles) - 1
  BY <1>1, FS_RemoveElement
<1>3. Len(calls') = Len(calls) - 1
  BY PopCallsType
<1>4. Len(calls) \in Nat
  BY DEF Inv, TypeOK
<1> QED
  BY <1>1, <1>2, <1>3, <1>4 DEF PopNeverEmpty

\* The steps that push no frame with a live handle and rewrite none.
LEMMA CountFrames ==
  ASSUME Inv, PopNeverEmpty,
         \/ PgSwitchContext \/ PgErrorCallback \/ PgError \/ Report \/ Throw
         \/ PgTry \/ PgEndTry \/ FfiCall \/ FfiReturn \/ UnwindFfi \/ CallFunction
         \/ LandInFfi \/ (\E r \in BOOLEAN : LandInTry(r))
         \/ Capture \/ CaptureFails \/ UNCHANGED vars
  PROVE  PopNeverEmpty'
<1>1. stack \in Seq(Frame) /\ Len(stack) \in Nat \ {0}
  BY DEF Inv, TypeOK
<1>2. calls' = calls
  BY DEF PgSwitchContext, PgErrorCallback, PgError, Report, Throw, PgTry, Enter, PgEndTry,
     FfiCall, FfiReturn, UnwindFfi, CallFunction, LandInFfi, LandInTry, Capture,
     CaptureFails, vars, activations
<1>3. \/ stack' = stack
      \/ \E n \in 1 .. Len(stack) : stack' = SubSeq(stack, 1, n)
      \/ \E f \in Frame : stack' = Append(stack, f) /\ f.handle = FALSE
  <2>1. CASE PgSwitchContext \/ PgErrorCallback \/ PgError \/ Report \/ Throw \/ Capture
             \/ CaptureFails \/ UNCHANGED vars
    BY <2>1 DEF PgSwitchContext, PgErrorCallback, PgError, Report, Throw, Capture,
       CaptureFails, vars
  <2>2. CASE PgEndTry \/ FfiReturn \/ UnwindFfi
    <3>1. stack' = SubSeq(stack, 1, Len(stack) - 1) /\ Len(stack) > 1
      BY <2>2, <1>1 DEF PgEndTry, FfiReturn, UnwindFfi, Pop, Inv, TypeOK, Top
    <3>2. Len(stack) - 1 \in 1 .. Len(stack)
      BY <1>1, <3>1
    <3> QED
      BY <3>1, <3>2
  <2>3. CASE LandInFfi \/ (\E r \in BOOLEAN : LandInTry(r))
    <3>1. PG_exception_stack \in 1 .. Len(stack)
      BY DEF Inv, InnermostIn
    <3>2. \E n \in {1, PG_exception_stack, PG_exception_stack - 1} :
            n \in 1 .. Len(stack) /\ stack' = SubSeq(stack, 1, n)
      BY <1>1, <2>3, <3>1 DEF LandInFfi, LandInTry
    <3> QED
      BY <3>2
  <2>4. CASE PgTry \/ FfiCall
    BY <2>4, HandlerFrameType DEF PgTry, FfiCall, Enter, HandlerFrame
  <2>5. CASE CallFunction
    <3> DEFINE f == [HandlerFrame("fn") EXCEPT !.call = ncalls + 1]
    <3>1. ncalls + 1 \in 0 .. MaxCalls /\ stack' = Append(stack, f)
      BY <2>5, TopFrame DEF CallFunction, Inv, TypeOK
    <3>2. f \in Frame /\ f.handle = FALSE
      BY <3>1, HandlerFrameType DEF Frame, HandlerFrame
    <3> QED
      BY <3>1, <3>2
  <2> QED
    BY <2>1, <2>2, <2>3, <2>4, <2>5
<1>4. Handles' \subseteq Handles
  <2>1. CASE stack' = stack
    BY <2>1 DEF Handles
  <2>2. ASSUME NEW n \in 1 .. Len(stack), stack' = SubSeq(stack, 1, n)
        PROVE  Handles' \subseteq Handles
    <3>1. Len(stack') = n /\ \A i \in 1 .. n : stack'[i] = stack[i]
      BY <1>1, <2>2, ShapeCut DEF Inv
    <3>2. stack' \in Seq(Frame)
      BY <1>1, <2>2, ShapeCut DEF Inv
    <3> QED
      BY <1>1, <3>1, <3>2 DEF Handles
  <2>3. ASSUME NEW f \in Frame, stack' = Append(stack, f), f.handle = FALSE
        PROVE  Handles' \subseteq Handles
    BY <1>1, <2>3 DEF Handles
  <2> QED
    BY <1>3, <2>1, <2>2, <2>3
<1> QED
  BY <1>2, <1>4, CountKept

\* The steps that rewrite the innermost C++ frame or leave it.
LEMMA CountBody ==
  ASSUME Inv, PopNeverEmpty,
         \/ (\E s \in BOOLEAN : EnterBody(s)) \/ FnReturn
         \/ (\E c \in BOOLEAN : Catch(c)) \/ EndCatch \/ ThrowAgain \/ Rethrow \/ Escape
  PROVE  PopNeverEmpty'
<1>1. stack \in Seq(Frame) /\ Len(stack) \in Nat \ {0} /\ calls \in Seq(0 .. MaxCalls)
  BY DEF Inv, TypeOK
<1>2. Top.held \in Seq(HeldException) /\ Top \in Frame /\ Top = stack[Len(stack)]
  BY TopFrame DEF Frame
<1>3. ASSUME NEW s \in BOOLEAN, EnterBody(s) PROVE PopNeverEmpty'
  <2>1. Handles' = Handles \cup {Len(stack)} /\ Len(stack) \notin Handles
    <3> DEFINE f == [Top EXCEPT !.handle = TRUE, !.scope = s, !.mcxt = CurrentMemoryContext]
    <3>1. stack' = [stack EXCEPT ![Len(stack)] = f] /\ f.handle = TRUE /\ Top.handle = FALSE
      BY <1>2, <1>3 DEF EnterBody, SetTop, Frame
    <3> HIDE DEF f
    <3> QED
      BY <1>1, <1>2, <3>1 DEF Handles
  <2>2. Len(calls') = Len(calls) + 1
    <3>1. calls' = Append(calls, Top.call) /\ Top.call \in 0 .. MaxCalls
      BY <1>2, <1>3 DEF EnterBody, Push, Frame
    <3> QED
      BY <1>1, <3>1
  <2>3. Cardinality(Handles') = Cardinality(Handles) + 1 /\ Cardinality(Handles) \in Nat
    BY <2>1, HandlesCount, FS_AddElement
  <2> QED
    BY <1>1, <2>2, <2>3 DEF PopNeverEmpty
<1>4. CASE FnReturn
  <2>1. stack' = SubSeq(stack, 1, Len(stack) - 1) /\ Len(stack) > 1 /\ Top.handle
    BY <1>4, TopFrame DEF FnReturn, Pop, CppRunning
  <2>2. Len(stack') = Len(stack) - 1 /\ \A i \in 1 .. Len(stack) - 1 : stack'[i] = stack[i]
    BY <1>1, <2>1, ShapeCut DEF Inv
  <2>3. stack' \in Seq(Frame)
    BY <1>1, <2>1, ShapeCut DEF Inv
  <2>4. Handles' = Handles \ {Len(stack)}
    BY <1>1, <2>2, <2>3 DEF Handles
  <2> QED
    BY <1>4, <2>1, <2>4, CountDown DEF FnReturn, PopCalls
<1>5. CASE (\E c \in BOOLEAN : Catch(c)) \/ EndCatch \/ ThrowAgain \/ Rethrow
  <2>1. calls' = calls
    BY <1>5 DEF Catch, EndCatch, ThrowAgain, Rethrow, activations
  <2>2. \/ stack' = stack
        \/ \E h : stack' = [stack EXCEPT ![Len(stack)] = [Top EXCEPT !.held = h]]
    BY <1>5 DEF Catch, EndCatch, ThrowAgain, Rethrow, DropInnermost, SetTop
  <2>3. CASE stack' = stack
    BY <2>1, <2>3, CountKept DEF Handles
  <2>4. ASSUME NEW h, stack' = [stack EXCEPT ![Len(stack)] = [Top EXCEPT !.held = h]]
        PROVE  Handles' \subseteq Handles
    <3> DEFINE f == [Top EXCEPT !.held = h]
    <3>1. f.handle = Top.handle
      BY <1>2 DEF Frame
    <3> HIDE DEF f
    <3> QED
      BY <1>1, <1>2, <2>4, <3>1 DEF f, Handles
  <2> QED
    BY <2>1, <2>2, <2>3, <2>4, CountKept
<1>6. CASE Escape
  <2> DEFINE f == [Top EXCEPT !.handle = FALSE, !.scope = FALSE, !.held = <<>>]
  <2>1. stack' = [stack EXCEPT ![Len(stack)] = f] /\ f.handle = FALSE
    BY <1>2, <1>6 DEF Escape, SetTop, Frame
  <2>2. Handles' = Handles \ {Len(stack)}
    BY <1>1, <2>1 DEF Handles
  <2>3. CASE Top.handle
    BY <1>6, <2>2, <2>3, CountDown DEF Escape, PopCalls
  <2>4. CASE ~Top.handle
    BY <1>6, <2>2, <2>4, CountKept DEF Escape, PopCalls
  <2> QED
    BY <2>3, <2>4
<1> QED
  BY <1>3, <1>4, <1>5, <1>6
------------------------------------------------------------------------------
\* Every step keeps the invariant, with the count of calls.
LEMMA InvNext ==
  ASSUME Inv, PopNeverEmpty, [Next]_vars
  PROVE  Inv' /\ PopNeverEmpty'
<1>1. CASE PgSwitchContext \/ PgErrorCallback \/ PgError \/ Report \/ Throw \/ UNCHANGED vars
  BY <1>1, InvSameStack, CountFrames
<1>2. CASE PgTry \/ FfiCall
  <2>1. Inv'
    BY <1>2, InvEnter DEF PgTry, FfiCall, PgRunning, CppRunning
  <2> QED
    BY <1>2, <2>1, CountFrames
<1>3. CASE PgEndTry \/ FfiReturn \/ UnwindFfi
  BY <1>3, InvLeaveHandler, CountFrames
<1>4. CASE LandInFfi \/ (\E r \in BOOLEAN : LandInTry(r))
  BY <1>4, InvLand, CountFrames
<1>5. CASE Capture \/ CaptureFails
  BY <1>5, InvCapture, CountFrames
<1>6. CASE CallFunction
  BY <1>6, InvCallFunction, CountFrames
<1>7. CASE FnReturn
  BY <1>7, InvFnReturn, CountBody
<1>8. CASE \/ (\E s \in BOOLEAN : EnterBody(s)) \/ (\E c \in BOOLEAN : Catch(c))
           \/ EndCatch \/ ThrowAgain \/ Rethrow \/ Escape
  BY <1>8, InvRewrite, CountBody
<1> QED
  BY <1>1, <1>2, <1>3, <1>4, <1>5, <1>6, <1>7, <1>8 DEF Next, Propagate

\* The inductive invariant holds in every reachable state.
THEOREM GuardInvariance == Spec => [](Inv /\ PopNeverEmpty)
<1>1. Init => Inv /\ PopNeverEmpty
  <2>1. Init => Handles = {} /\ calls = <<>>
    BY DEF Init, Handles
  <2>2. Cardinality({}) = 0
    BY FS_EmptySet
  <2>3. Len(<<>>) >= 0
    OBVIOUS
  <2>4. Init => PopNeverEmpty
    BY <2>1, <2>2, <2>3 DEF PopNeverEmpty
  <2> QED
    BY <2>4, InvInit
<1>2. Inv /\ PopNeverEmpty /\ [Next]_vars => (Inv /\ PopNeverEmpty)'
  BY InvNext
<1> QED
  BY <1>1, <1>2, PTL DEF Spec

\* Every reachable state of the bridge is well typed: in particular a C++
\* exception only ever unwinds a C++ frame or ffi_guard.
THEOREM GuardTypes == Spec => []TypeOK
<1>1. Inv => TypeOK
  BY DEF Inv
<1> QED
  BY <1>1, GuardInvariance, PTL

\* PG_exception_stack names the innermost live handler at any depth, for any
\* number of errors: no longjmp lands in a sigjmp_buf of a frame that is gone,
\* and none skips an ffi_guard.
THEOREM JumpTargetLive == Spec => []HandlerLive
<1>1. Inv => HandlerLive
  BY DEF Inv, InnermostIn, HandlerLive, TypeOK
<1> QED
  BY <1>1, GuardInvariance, PTL

\* ~handle always finds an entry of calls to pop, whatever longjmps skipped.
THEOREM CallsNeverPoppedEmpty == Spec => []PopNeverEmpty
BY GuardInvariance, PTL
------------------------------------------------------------------------------
\* How steps move the stack.

\* The innermost C++ frame becomes f.
Rewritten(f) ==
  /\ f \in Frame /\ f.kind = "fn" /\ f.cb = Top.cb /\ f.call = Top.call
  /\ stack' = SetTop(f)

LEMMA Rewrites ==
  ASSUME Inv
  PROVE  /\ \A s \in BOOLEAN : EnterBody(s) =>
              \E f : /\ Rewritten(f) /\ f.held = Top.held /\ f.mcxt = CurrentMemoryContext
                    /\ f.handle = TRUE
         /\ \A c \in BOOLEAN : Catch(c) =>
              \E f : /\ Rewritten(f) /\ f.mcxt = Top.mcxt /\ f.handle = Top.handle
                    /\ f.held = IF flying = 0 THEN Top.held
                                ELSE Append(Top.held, [err |-> flying, copy |-> c])
         /\ EndCatch \/ ThrowAgain \/ Rethrow =>
              /\ Top.held # <<>>
              /\ \E f : /\ Rewritten(f) /\ f.mcxt = Top.mcxt /\ f.handle = Top.handle
                       /\ f.held = SubSeq(Top.held, 1, Len(Top.held) - 1)
         /\ Escape =>
              \E f : /\ Rewritten(f) /\ f.mcxt = Top.mcxt /\ f.handle = FALSE /\ f.held = <<>>
<1>1. Top \in Frame
  BY TopFrame
<1>2. ASSUME NEW s \in BOOLEAN, EnterBody(s)
      PROVE  \E f : /\ Rewritten(f) /\ f.held = Top.held /\ f.mcxt = CurrentMemoryContext
                   /\ f.handle = TRUE
  <2> DEFINE f == [Top EXCEPT !.handle = TRUE, !.scope = s, !.mcxt = CurrentMemoryContext]
  <2>1. ~Handler(Top) /\ stack' = SetTop(f)
    BY <1>2 DEF EnterBody, CppRunning
  <2>2. f \in Frame
    BY <2>1, RewrittenFrames
  <2>3. /\ f.held = Top.held /\ f.mcxt = CurrentMemoryContext /\ f.handle = TRUE
        /\ f.kind = "fn" /\ f.cb = Top.cb /\ f.call = Top.call
    BY <1>1, <2>1, TopFrame DEF Frame
  <2> HIDE DEF f
  <2> QED
    BY <2>1, <2>2, <2>3 DEF Rewritten
<1>3. ASSUME NEW c \in BOOLEAN, Catch(c)
      PROVE  \E f : /\ Rewritten(f) /\ f.mcxt = Top.mcxt /\ f.handle = Top.handle
                   /\ f.held = IF flying = 0 THEN Top.held
                               ELSE Append(Top.held, [err |-> flying, copy |-> c])
  <2>1. ~Handler(Top) /\ Top.kind = "fn"
    BY <1>3, TopFrame DEF Catch
  <2>2. CASE flying = 0
    <3>1. stack' = SetTop(Top)
      BY <1>3, <2>2, TopFrame DEF Catch, SetTop, Inv, TypeOK
    <3> QED
      BY <1>1, <2>1, <2>2, <3>1 DEF Rewritten
  <2>3. CASE flying # 0
    <3> DEFINE f == [Top EXCEPT !.held = Append(@, [err |-> flying, copy |-> c])]
    <3>1. stack' = SetTop(f)
      BY <1>3, <2>3 DEF Catch
    <3>2. f \in Frame
      BY <2>1, <2>3, RewrittenFrames
    <3>3. /\ f.held = Append(Top.held, [err |-> flying, copy |-> c])
          /\ f.mcxt = Top.mcxt /\ f.handle = Top.handle
          /\ f.kind = "fn" /\ f.cb = Top.cb /\ f.call = Top.call
      BY <1>1, <2>1 DEF Frame
    <3> HIDE DEF f
    <3> QED
      BY <2>3, <3>1, <3>2, <3>3 DEF Rewritten
  <2> QED
    BY <2>2, <2>3
<1>4. ASSUME EndCatch \/ ThrowAgain \/ Rethrow
      PROVE  /\ Top.held # <<>>
             /\ \E f : /\ Rewritten(f) /\ f.mcxt = Top.mcxt /\ f.handle = Top.handle
                      /\ f.held = SubSeq(Top.held, 1, Len(Top.held) - 1)
  <2> DEFINE f == [Top EXCEPT !.held = SubSeq(@, 1, Len(@) - 1)]
  <2>1. ~Handler(Top) /\ Top.held # <<>> /\ stack' = SetTop(f)
    BY <1>4 DEF EndCatch, ThrowAgain, Rethrow, DropInnermost, CppRunning
  <2>2. f \in Frame
    BY <2>1, RewrittenFrames
  <2>3. /\ f.held = SubSeq(Top.held, 1, Len(Top.held) - 1)
        /\ f.mcxt = Top.mcxt /\ f.handle = Top.handle
        /\ f.kind = "fn" /\ f.cb = Top.cb /\ f.call = Top.call
    BY <1>1, <2>1, TopFrame DEF Frame
  <2> HIDE DEF f
  <2> QED
    BY <2>1, <2>2, <2>3 DEF Rewritten
<1>5. ASSUME Escape
      PROVE  \E f : /\ Rewritten(f) /\ f.mcxt = Top.mcxt /\ f.handle = FALSE /\ f.held = <<>>
  <2> DEFINE f == [Top EXCEPT !.handle = FALSE, !.scope = FALSE, !.held = <<>>]
  <2>1. ~Handler(Top) /\ stack' = SetTop(f)
    BY <1>5 DEF Escape
  <2>2. f \in Frame
    BY <2>1, RewrittenFrames
  <2>3. /\ f.held = <<>> /\ f.mcxt = Top.mcxt /\ f.handle = FALSE
        /\ f.kind = "fn" /\ f.cb = Top.cb /\ f.call = Top.call
    BY <1>1, <2>1, TopFrame DEF Frame
  <2> HIDE DEF f
  <2> QED
    BY <2>1, <2>2, <2>3 DEF Rewritten
<1> QED
  BY <1>2, <1>3, <1>4, <1>5

\* A call of any kind pushes a frame that notes where it came from.
LEMMA Pushes ==
  ASSUME Inv, PgTry \/ FfiCall \/ CallFunction
  PROVE  /\ mode = "run" /\ mode' = "run"
         /\ \E f \in Frame : /\ stack' = Append(stack, f) /\ f.cb = error_context_stack
                            /\ f.mcxt = CurrentMemoryContext /\ f.held = <<>> /\ f.handle = FALSE
         /\ UNCHANGED <<flying, error_context_stack, CurrentMemoryContext, calls, cxt, pending>>
<1>1. CASE PgTry \/ FfiCall
  <2>1. PICK kind \in {"try", "ffi"} : mode = "run" /\ Enter(kind)
    BY <1>1 DEF PgTry, FfiCall, PgRunning, CppRunning
  <2> DEFINE f == HandlerFrame(kind)
  <2>2. f \in Frame /\ f.cb = error_context_stack /\ f.mcxt = CurrentMemoryContext
        /\ f.held = <<>> /\ f.handle = FALSE
    BY HandlerFrameType DEF HandlerFrame
  <2>3. stack' = Append(stack, f)
        /\ UNCHANGED <<mode, flying, error_context_stack, CurrentMemoryContext, calls, cxt, pending>>
    BY <2>1 DEF Enter, activations, errors
  <2> HIDE DEF f
  <2> QED
    BY <2>1, <2>2, <2>3
<1>2. CASE CallFunction
  <2> DEFINE f == [HandlerFrame("fn") EXCEPT !.call = ncalls + 1]
  <2>1. ncalls + 1 \in 0 .. MaxCalls
    BY <1>2, TopFrame DEF CallFunction, Inv, TypeOK
  <2>2. f \in Frame /\ f.cb = error_context_stack /\ f.mcxt = CurrentMemoryContext
        /\ f.held = <<>> /\ f.handle = FALSE
    BY <2>1, HandlerFrameType DEF HandlerFrame, Frame
  <2>3. stack' = Append(stack, f) /\ mode = "run"
        /\ UNCHANGED <<mode, flying, error_context_stack, CurrentMemoryContext, calls, cxt, pending>>
    BY <1>2 DEF CallFunction, PgRunning, handlers, errors
  <2> HIDE DEF f
  <2> QED
    BY <2>2, <2>3
<1> QED
  BY <1>1, <1>2

\* A longjmp to a handler cuts the stack there, or below it.
LEMMA Lands ==
  ASSUME Inv, LandInFfi \/ \E r \in BOOLEAN : LandInTry(r)
  PROVE  /\ PG_exception_stack \in 1 .. Len(stack) /\ mode = "jump"
         /\ \E n \in 1 .. Len(stack) : stack' = SubSeq(stack, 1, n)
         /\ UNCHANGED <<flying, calls>>
<1>1. /\ PG_exception_stack \in 1 .. Len(stack) /\ mode = "jump" /\ Len(stack) \in Nat
      /\ UNCHANGED <<flying, calls>>
  BY DEF Inv, InnermostIn, LandInFfi, LandInTry, activations, TypeOK
<1>2. \E n \in {1, PG_exception_stack, PG_exception_stack - 1} :
        n \in 1 .. Len(stack) /\ stack' = SubSeq(stack, 1, n)
  BY <1>1 DEF LandInFfi, LandInTry
<1> QED
  BY <1>1, <1>2
------------------------------------------------------------------------------
\* Error callbacks.

\* c is 0 or one of the first n frames of s, a Postgres one.
CallbackIn(s, c, n) == c \in 0 .. n /\ (c > 0 => Handler(s[c]))

Noted(s) == \A i \in 1 .. Len(s) : CallbackIn(s, s[i].cb, i - 1)

\* What every frame restores is a callback below it.  While a pg_exception is built,
\* and until its guard is left, the callbacks may be those of frames that are gone.
Restored == mode \in {"run", "jump"} \/ (mode = "throw" /\ ~Handler(Top))

Callbacks ==
  /\ Noted(stack)
  /\ Restored => CallbackIn(stack, error_context_stack, Len(stack))

LEMMA NotedCut ==
  ASSUME NEW s \in Seq(Frame), NEW k \in 1 .. Len(s), Noted(s)
  PROVE  /\ Noted(SubSeq(s, 1, k))
         /\ \A c, n : n \in 0 .. k /\ CallbackIn(s, c, n) => CallbackIn(SubSeq(s, 1, k), c, k)
<1> DEFINE t == SubSeq(s, 1, k)
<1>1. Len(t) = k /\ Len(s) \in Nat /\ \A i \in 1 .. k : t[i] = s[i]
  OBVIOUS
<1> HIDE DEF t
<1>2. \A c, n : n \in 0 .. k /\ CallbackIn(s, c, n) => CallbackIn(t, c, n) /\ CallbackIn(t, c, k)
  BY <1>1 DEF CallbackIn
<1>3. ASSUME NEW i \in 1 .. k PROVE CallbackIn(t, t[i].cb, i - 1)
  <2>1. i - 1 \in 0 .. k /\ i \in 1 .. Len(s) /\ t[i] = s[i]
    BY <1>1
  <2> QED
    BY <1>2, <2>1 DEF Noted
<1>4. Noted(t)
  BY <1>1, <1>3 DEF Noted
<1> QED
  BY <1>2, <1>4 DEF t

LEMMA NotedPush ==
  ASSUME NEW s \in Seq(Frame), Noted(s), NEW f \in Frame, CallbackIn(s, f.cb, Len(s))
  PROVE  Noted(Append(s, f)) /\ CallbackIn(Append(s, f), f.cb, Len(s) + 1)
<1> DEFINE t == Append(s, f)
<1>1. PICK m \in Nat : m = Len(s)
  OBVIOUS
<1>2. Len(t) = m + 1 /\ t[m + 1] = f /\ \A i \in 1 .. m : t[i] = s[i]
  BY <1>1
<1> HIDE DEF t
<1>3. \A c, n : n \in 0 .. m /\ CallbackIn(s, c, n) => CallbackIn(t, c, n) /\ CallbackIn(t, c, m + 1)
  BY <1>2 DEF CallbackIn
<1>4. ASSUME NEW i \in 1 .. m + 1 PROVE CallbackIn(t, t[i].cb, i - 1)
  <2>1. CASE i = m + 1
    BY <1>1, <1>2, <1>3, <2>1
  <2>2. CASE i # m + 1
    <3>1. i - 1 \in 0 .. m /\ i \in 1 .. m /\ t[i] = s[i]
      BY <1>2, <2>2
    <3> QED
      BY <1>1, <1>3, <3>1 DEF Noted
  <2> QED
    BY <2>1, <2>2
<1> QED
  BY <1>1, <1>2, <1>3, <1>4 DEF Noted, t

LEMMA NotedSetTop ==
  ASSUME NEW s \in Seq(Frame), Len(s) > 0, Noted(s), NEW f \in Frame, f.cb = s[Len(s)].cb,
         ~Handler(s[Len(s)]), ~Handler(f)
  PROVE  LET t == [s EXCEPT ![Len(s)] = f]
         IN  Noted(t) /\ \A c : CallbackIn(s, c, Len(s)) => CallbackIn(t, c, Len(t))
<1> DEFINE t == [s EXCEPT ![Len(s)] = f]
<1>1. Len(t) = Len(s) /\ Len(s) \in Nat /\ t[Len(s)] = f
      /\ \A i \in 1 .. Len(s) : i # Len(s) => t[i] = s[i]
  OBVIOUS
<1> HIDE DEF t
<1>2. \A i \in 1 .. Len(s) : t[i].cb = s[i].cb /\ (Handler(t[i]) <=> Handler(s[i]))
  BY <1>1
<1>3. \A c, n : n \in 0 .. Len(s) /\ CallbackIn(s, c, n) => CallbackIn(t, c, n)
  BY <1>1, <1>2 DEF CallbackIn
<1>4. ASSUME NEW i \in 1 .. Len(s) PROVE CallbackIn(t, t[i].cb, i - 1)
  <2>1. i - 1 \in 0 .. Len(s) /\ CallbackIn(s, s[i].cb, i - 1)
    BY <1>1 DEF Noted
  <2> QED
    BY <1>2, <1>3, <2>1
<1>5. Len(s) \in 0 .. Len(s)
  BY <1>1
<1> QED
  BY <1>1, <1>3, <1>4, <1>5 DEF Noted, t

LEMMA CallbacksNext ==
  ASSUME Inv, Callbacks, Inv', [Next]_vars
  PROVE  Callbacks'
<1>1. /\ stack \in Seq(Frame) /\ Len(stack) \in 1 .. MaxDepth /\ Len(stack) > 0
      /\ Noted(stack) /\ Top = stack[Len(stack)] /\ MaxDepth \in Nat
      /\ CallbackIn(stack, Top.cb, Len(stack) - 1)
  <2>1. /\ stack \in Seq(Frame) /\ Len(stack) \in 1 .. MaxDepth /\ Len(stack) > 0
        /\ Noted(stack) /\ Top = stack[Len(stack)] /\ MaxDepth \in Nat
    BY TopFrame DEF Callbacks, Inv, TypeOK
  <2>2. Len(stack) \in 1 .. Len(stack)
    BY <2>1
  <2>3. CallbackIn(stack, stack[Len(stack)].cb, Len(stack) - 1)
    BY <2>1, <2>2 DEF Noted
  <2> QED
    BY <2>1, <2>3
<1>2. CASE PgSwitchContext \/ PgError \/ Report \/ Throw \/ UNCHANGED vars
  <2>1. stack' = stack /\ error_context_stack' = error_context_stack /\ (Restored' => Restored)
    BY <1>2 DEF PgSwitchContext, PgError, Report, Throw, vars, handlers, PgRunning, CppRunning,
       Restored, Top
  <2> QED
    BY <2>1 DEF Callbacks
<1>3. CASE PgErrorCallback
  <2>1. /\ stack' = stack /\ error_context_stack' \in {Top.cb, Len(stack)} /\ Handler(Top)
    BY <1>3 DEF PgErrorCallback, PgRunning
  <2>2. CallbackIn(stack, Top.cb, Len(stack)) /\ CallbackIn(stack, Len(stack), Len(stack))
    BY <1>1, <2>1 DEF CallbackIn
  <2> QED
    BY <1>1, <2>1, <2>2 DEF Callbacks
<1>4. CASE PgTry \/ FfiCall \/ CallFunction
  <2>1. PICK f \in Frame : stack' = Append(stack, f) /\ f.cb = error_context_stack
    BY <1>4, Pushes
  <2>2. error_context_stack' = error_context_stack /\ Restored
    BY <1>4, Pushes DEF Restored
  <2>3. CallbackIn(stack, f.cb, Len(stack))
    BY <2>1, <2>2 DEF Callbacks
  <2>4. Len(stack') = Len(stack) + 1
    BY <1>1, <2>1
  <2> QED
    BY <1>1, <2>1, <2>2, <2>3, <2>4, NotedPush DEF Callbacks
<1>5. CASE PgEndTry \/ FfiReturn \/ UnwindFfi
  <2>1. stack' = SubSeq(stack, 1, Len(stack) - 1) /\ error_context_stack' = Top.cb
    BY <1>5 DEF PgEndTry, FfiReturn, UnwindFfi, RestoreHandlers, Pop
  <2>2. Len(stack) - 1 \in 1 .. Len(stack)
    <3>1. PICK n \in Nat : n = Len(stack) /\ n > 0
      BY <1>1
    <3>2. PgEndTry => n # 1
      <4>1. PgEndTry => Len(stack) > 1
        BY DEF PgEndTry
      <4> QED
        BY <3>1, <4>1
    <3>3. FfiReturn \/ UnwindFfi => n # 1
      <4>1. stack[1].kind = "try" /\ Top = stack[n]
        BY <1>1, <3>1 DEF Inv, TypeOK
      <4>2. FfiReturn \/ UnwindFfi => Top.kind = "ffi"
        BY DEF FfiReturn, UnwindFfi
      <4> QED
        BY ONLY <4>1, <4>2
    <3> QED
      BY <1>5, <3>1, <3>2, <3>3
  <2>3. Len(stack') = Len(stack) - 1 /\ Len(stack) - 1 \in 0 .. Len(stack) - 1
    BY <1>1, <2>1, <2>2
  <2> QED
    BY <1>1, <2>1, <2>2, <2>3, NotedCut DEF Callbacks
<1>6. CASE LandInFfi
  <2>1. PG_exception_stack \in 1 .. Len(stack)
    BY <1>6, Lands
  <2>2. stack' = SubSeq(stack, 1, PG_exception_stack) /\ ~Restored'
    BY <1>6 DEF LandInFfi, Restored
  <2> QED
    BY <1>1, <2>1, <2>2, NotedCut DEF Callbacks
<1>7. ASSUME NEW r \in BOOLEAN, LandInTry(r) PROVE Callbacks'
  <2>1. PICK k \in 1 .. Len(stack) : k = PG_exception_stack
    BY <1>7, Lands
  <2>2. PICK n \in 1 .. Len(stack) : n = IF k = 1 THEN 1 ELSE k - 1
    BY <1>1, <2>1
  <2>3. stack' = SubSeq(stack, 1, n) /\ error_context_stack' = stack[k].cb /\ k - 1 \in 0 .. n
    BY <1>1, <1>7, <2>1, <2>2 DEF LandInTry
  <2>4. CallbackIn(stack, stack[k].cb, k - 1)
    BY <1>1, <2>1 DEF Noted
  <2>5. Len(stack') = n
    BY <1>1, <2>3
  <2> QED
    BY <1>1, <2>3, <2>4, <2>5, NotedCut DEF Callbacks
<1>8. CASE Capture \/ CaptureFails
  <2>1. stack' = stack /\ mode = "capture" /\ mode' = "throw"
    BY <1>8 DEF Capture, CaptureFails
  <2>2. ~Restored'
    BY <2>1 DEF Inv, TypeOK, Restored, Top, Handler
  <2> QED
    BY <2>1, <2>2 DEF Callbacks
<1>9. CASE FnReturn
  <2>1. /\ stack' = SubSeq(stack, 1, Len(stack) - 1) /\ Restored /\ ~Handler(Top)
        /\ error_context_stack' = error_context_stack
    BY <1>9 DEF FnReturn, Pop, CppRunning, Restored, handlers
  <2>2. Len(stack) - 1 \in 1 .. Len(stack)
    BY <1>1, <2>1, TopFrame
  <2>3. CallbackIn(stack, error_context_stack, Len(stack) - 1)
    BY <1>1, <2>1 DEF Callbacks, CallbackIn
  <2>4. Len(stack') = Len(stack) - 1 /\ Len(stack) - 1 \in 0 .. Len(stack) - 1
    BY <1>1, <2>1, <2>2
  <2> QED
    BY <1>1, <2>1, <2>2, <2>3, <2>4, NotedCut DEF Callbacks
<1>10. CASE \/ (\E s \in BOOLEAN : EnterBody(s)) \/ (\E c \in BOOLEAN : Catch(c))
            \/ EndCatch \/ ThrowAgain \/ Rethrow \/ Escape
  <2>1. PICK f : Rewritten(f)
    BY <1>10, Rewrites
  <2>2. Restored /\ ~Handler(Top) /\ error_context_stack' = error_context_stack
    BY <1>10 DEF EnterBody, Catch, EndCatch, ThrowAgain, Rethrow, Escape, CppRunning, Restored,
       handlers
  <2>3. f \in Frame /\ ~Handler(f) /\ f.cb = Top.cb /\ stack' = [stack EXCEPT ![Len(stack)] = f]
    BY <2>1 DEF Rewritten, SetTop, Handler
  <2> QED
    BY <1>1, <2>2, <2>3, NotedSetTop DEF Callbacks
<1> QED
  BY <1>2, <1>3, <1>4, <1>5, <1>6, <1>7, <1>8, <1>9, <1>10 DEF Next, Propagate

\* An error is only ever raised with error_context_stack naming a callback of a frame
\* that is still there, though pg_exception is built (guard.hpp:43-50) before the
\* callbacks of the frames that the longjmp removed are forgotten.
THEOREM ErrorCallbacksAreLive == Spec => []ErrorCallbacksLive
<1>1. Init => Callbacks
  BY DEF Init, Callbacks, Noted, CallbackIn
<1>2. Inv /\ Inv' /\ Callbacks /\ [Next]_vars => Callbacks'
  BY CallbacksNext
<1>3. Inv /\ Callbacks => ErrorCallbacksLive
  BY DEF Callbacks, Restored, CallbackIn, ErrorCallbacksLive, Inv, TypeOK
<1> QED
  BY <1>1, <1>2, <1>3, GuardInvariance, PTL DEF Spec
------------------------------------------------------------------------------
\* What the handlers hold: nothing.

\* Only the frame of a C++ body has a live handle or an exception being handled.
Bare(s) == \A i \in DOMAIN s : Handler(s[i]) => ~s[i].handle /\ s[i].held = <<>>

LEMMA BareNext ==
  ASSUME Inv, Bare(stack), [Next]_vars
  PROVE  Bare(stack)'
<1>1. stack \in Seq(Frame) /\ Len(stack) \in 1 .. MaxDepth /\ Len(stack) > 0
      /\ Top = stack[Len(stack)] /\ MaxDepth \in Nat
  BY TopFrame DEF Inv, TypeOK
<1>2. CASE \/ PgSwitchContext \/ PgErrorCallback \/ PgError \/ Report \/ Throw \/ Capture
           \/ CaptureFails \/ UNCHANGED vars
  <2>1. stack' = stack
    BY <1>2 DEF PgSwitchContext, PgErrorCallback, PgError, Report, Throw, Capture,
       CaptureFails, vars
  <2> QED
    BY <2>1 DEF Bare
<1>3. CASE PgTry \/ FfiCall \/ CallFunction
  <2>1. PICK f \in Frame : stack' = Append(stack, f) /\ f.held = <<>> /\ f.handle = FALSE
    BY <1>3, Pushes
  <2>2. PICK n \in Nat : n = Len(stack)
    BY <1>1
  <2>3. /\ DOMAIN stack' = 1 .. n + 1 /\ stack'[n + 1] = f
        /\ \A i \in 1 .. n : stack'[i] = stack[i] /\ i \in DOMAIN stack
    BY <1>1, <2>1, <2>2
  <2> QED
    BY <2>1, <2>3 DEF Bare
<1>4. CASE \/ PgEndTry \/ FfiReturn \/ UnwindFfi \/ FnReturn
           \/ LandInFfi \/ \E r \in BOOLEAN : LandInTry(r)
  <2>1. PICK n \in 0 .. Len(stack) : stack' = SubSeq(stack, 1, n)
    <3>1. CASE PgEndTry \/ FfiReturn \/ UnwindFfi \/ FnReturn
      <4>1. stack' = SubSeq(stack, 1, Len(stack) - 1) /\ Len(stack) - 1 \in 0 .. Len(stack)
        BY <1>1, <3>1 DEF PgEndTry, FfiReturn, UnwindFfi, FnReturn, Pop
      <4> QED
        BY <4>1
    <3>2. CASE LandInFfi \/ \E r \in BOOLEAN : LandInTry(r)
      BY <1>1, <3>2, Lands
    <3> QED
      BY <1>4, <3>1, <3>2
  <2>2. DOMAIN stack' = 1 .. n /\ \A i \in 1 .. n : stack'[i] = stack[i] /\ i \in DOMAIN stack
    BY <1>1, <2>1
  <2> QED
    BY <2>2 DEF Bare
<1>5. CASE \/ (\E s \in BOOLEAN : EnterBody(s)) \/ (\E c \in BOOLEAN : Catch(c))
           \/ EndCatch \/ ThrowAgain \/ Rethrow \/ Escape
  <2>1. PICK f : Rewritten(f)
    BY <1>5, Rewrites
  <2>2. ~Handler(f) /\ stack' = [stack EXCEPT ![Len(stack)] = f]
    BY <2>1 DEF Rewritten, SetTop, Handler
  <2>3. DOMAIN stack' = DOMAIN stack
        /\ \A i \in DOMAIN stack : stack'[i] = stack[i] \/ stack'[i] = f
    BY <1>1, <2>2
  <2> QED
    BY <2>2, <2>3 DEF Bare
<1> QED
  BY <1>2, <1>3, <1>4, <1>5 DEF Next, Propagate

\* Only the bodies of C++ functions hold handles and exceptions, in every state.
THEOREM HandlersAreBare == Spec => []Bare(stack)
<1>1. Init => Bare(stack)
  BY DEF Init, Bare
<1>2. Inv /\ Bare(stack) /\ [Next]_vars => Bare(stack)'
  BY BareNext
<1> QED
  BY <1>1, <1>2, GuardInvariance, PTL DEF Spec
------------------------------------------------------------------------------
\* Which frame holds which exception.

\* No copy, and no exception twice, in the catch clauses of one body.
Single(h) ==
  /\ \A j \in DOMAIN h : ~h[j].copy
  /\ \A j, l \in DOMAIN h : h[j].err = h[l].err => j = l

Tidy(s) ==
  /\ \A i \in DOMAIN s : Single(s[i].held)
  /\ \A i, k \in DOMAIN s : i # k => HeldIn(s[i].held) \cap HeldIn(s[k].held) = {}

HeldOf(s) == UNION {HeldIn(s[i].held) : i \in DOMAIN s}

\* Those of every frame but the innermost.
HeldUnder(s) == UNION {HeldIn(s[i].held) : i \in 1 .. Len(s) - 1}

LEMMA NothingHeld == Single(<<>>) /\ HeldIn(<<>>) = {}
BY DEF Single, HeldIn

LEMMA SingleAppend ==
  ASSUME NEW h \in Seq(HeldException), Single(h), NEW e \in ErrIds, e \notin HeldIn(h)
  PROVE  LET g == Append(h, [err |-> e, copy |-> FALSE])
         IN  Single(g) /\ HeldIn(g) = HeldIn(h) \cup {e}
<1> DEFINE x == [err |-> e, copy |-> FALSE]
           g == Append(h, x)
<1>1. x \in HeldException /\ x.err = e /\ x.copy = FALSE
  BY DEF HeldException
<1> HIDE DEF x
<1>2. PICK n \in Nat : n = Len(h)
  OBVIOUS
<1>3. /\ DOMAIN h = 1 .. n /\ DOMAIN g = 1 .. n + 1 /\ g[n + 1] = x
      /\ \A j \in 1 .. n : g[j] = h[j]
  BY <1>1, <1>2
<1> HIDE DEF g
<1>4. \A j \in 1 .. n : g[j].err \in HeldIn(h)
  BY <1>3 DEF HeldIn
<1>5. \A j \in 1 .. n + 1 : j \in 1 .. n \/ j = n + 1
  BY <1>2
<1>6. Single(g)
  BY <1>1, <1>3, <1>4, <1>5 DEF Single
<1>7. n + 1 \in 1 .. n + 1 /\ \A j \in 1 .. n : j \in 1 .. n + 1
  BY <1>2
<1>8. HeldIn(g) = HeldIn(h) \cup {e}
  BY <1>1, <1>3, <1>5, <1>7 DEF HeldIn
<1> QED
  BY <1>6, <1>8 DEF g, x

LEMMA SingleDrop ==
  ASSUME NEW h \in Seq(HeldException), Single(h), h # <<>>
  PROVE  LET g == SubSeq(h, 1, Len(h) - 1)
         IN  /\ Single(g) /\ HeldIn(g) = HeldIn(h) \ {h[Len(h)].err}
             /\ h[Len(h)].err \in HeldIn(h) /\ h[Len(h)].err \in ErrIds
             /\ HeldIn(<<h[Len(h)]>>) = {h[Len(h)].err} /\ CopiesIn(<<h[Len(h)]>>) = {}
<1> DEFINE g == SubSeq(h, 1, Len(h) - 1)
<1>1. PICK n \in Nat : n = Len(h) /\ n > 0
  BY EmptySeq
<1>2. DOMAIN h = 1 .. n /\ n \in 1 .. n /\ n - 1 \in Nat
  BY <1>1
<1>3. DOMAIN g = 1 .. n - 1 /\ \A j \in 1 .. n - 1 : g[j] = h[j]
  BY <1>1, <1>2
<1> HIDE DEF g
<1>4. \A j \in 1 .. n : (j \in 1 .. n - 1 <=> j # n)
  BY <1>1
<1>5. \A j \in 1 .. n - 1 : j \in 1 .. n
  BY <1>1
<1>6. Single(g)
  BY <1>2, <1>3, <1>5 DEF Single
<1>7. HeldIn(g) = HeldIn(h) \ {h[n].err}
  BY <1>2, <1>3, <1>4, <1>5 DEF Single, HeldIn
<1>8. h[n].err \in HeldIn(h) /\ h[n].err \in ErrIds /\ ~h[n].copy
  <2>1. h[n] \in HeldException
    BY <1>1, <1>2
  <2> QED
    BY <1>2, <2>1 DEF HeldIn, HeldException, Single
<1>9. HeldIn(<<h[n]>>) = {h[n].err} /\ CopiesIn(<<h[n]>>) = {}
  <2> DEFINE o == <<h[n]>>
  <2>1. DOMAIN o = {1} /\ o[1] = h[n]
    OBVIOUS
  <2> HIDE DEF o
  <2>2. HeldIn(o) = {h[n].err} /\ CopiesIn(o) = {}
    BY <1>8, <2>1 DEF HeldIn, CopiesIn
  <2> QED
    BY <2>2 DEF o
<1> QED
  BY <1>1, <1>6, <1>7, <1>8, <1>9 DEF g

\* The innermost frame and the others share no exception.
LEMMA HeldSplit ==
  ASSUME NEW s \in Seq(Frame), Len(s) > 0
  PROVE  /\ HeldOf(s) = HeldUnder(s) \cup HeldIn(s[Len(s)].held)
         /\ Tidy(s) => HeldUnder(s) \cap HeldIn(s[Len(s)].held) = {}
<1>1. PICK n \in Nat : n = Len(s) /\ n > 0
  OBVIOUS
<1>2. DOMAIN s = 1 .. n /\ \A i \in 1 .. n : (i \in 1 .. n - 1 <=> i # n)
  BY <1>1
<1>3. n \in 1 .. n /\ \A i \in 1 .. n - 1 : i \in 1 .. n /\ i # n
  BY <1>1
<1>4. HeldOf(s) = HeldUnder(s) \cup HeldIn(s[n].held)
  BY <1>1, <1>2, <1>3 DEF HeldOf, HeldUnder
<1>5. ASSUME Tidy(s) PROVE HeldUnder(s) \cap HeldIn(s[n].held) = {}
  <2>1. \A i \in 1 .. n - 1 : HeldIn(s[i].held) \cap HeldIn(s[n].held) = {}
    BY <1>2, <1>3, <1>5 DEF Tidy
  <2> QED
    BY <1>1, <2>1 DEF HeldUnder
<1> QED
  BY <1>1, <1>4, <1>5

LEMMA HeldCut ==
  ASSUME NEW s \in Seq(Frame), NEW n \in 0 .. Len(s)
  PROVE  /\ Tidy(s) => Tidy(SubSeq(s, 1, n))
         /\ HeldOf(SubSeq(s, 1, n)) \subseteq HeldOf(s)
         /\ \A i \in DOMAIN SubSeq(s, 1, n) : i \in DOMAIN s /\ SubSeq(s, 1, n)[i] = s[i]
<1> DEFINE t == SubSeq(s, 1, n)
<1>1. \A i \in DOMAIN t : i \in DOMAIN s /\ t[i] = s[i]
  OBVIOUS
<1> HIDE DEF t
<1>2. Tidy(s) => Tidy(t)
  BY <1>1 DEF Tidy
<1>3. HeldOf(t) \subseteq HeldOf(s)
  BY <1>1 DEF HeldOf
<1> QED
  BY <1>1, <1>2, <1>3 DEF t

LEMMA HeldPop ==
  ASSUME NEW s \in Seq(Frame), Len(s) > 0, s[Len(s)].held = <<>>
  PROVE  HeldOf(SubSeq(s, 1, Len(s) - 1)) = HeldOf(s)
<1> DEFINE t == SubSeq(s, 1, Len(s) - 1)
<1>1. PICK n \in Nat : n = Len(s) /\ n > 0
  OBVIOUS
<1>2. DOMAIN t = 1 .. n - 1 /\ \A i \in 1 .. n - 1 : t[i] = s[i]
  BY <1>1
<1> HIDE DEF t
<1>3. HeldOf(t) = HeldUnder(s)
  BY <1>1, <1>2 DEF HeldOf, HeldUnder
<1> QED
  BY <1>3, HeldSplit, NothingHeld DEF t

LEMMA HeldPush ==
  ASSUME NEW s \in Seq(Frame), NEW f \in Frame, f.held = <<>>
  PROVE  /\ Tidy(s) => Tidy(Append(s, f))
         /\ HeldOf(Append(s, f)) = HeldOf(s)
         /\ \A i \in DOMAIN Append(s, f) :
              Append(s, f)[i] = f \/ (i \in DOMAIN s /\ Append(s, f)[i] = s[i])
<1> DEFINE t == Append(s, f)
<1>1. PICK n \in Nat : n = Len(s)
  OBVIOUS
<1>2. /\ DOMAIN s = 1 .. n /\ DOMAIN t = 1 .. n + 1 /\ t[n + 1] = f
      /\ \A i \in 1 .. n : t[i] = s[i]
  BY <1>1
<1> HIDE DEF t
<1>3. \A i \in DOMAIN t : i \in DOMAIN s \/ i = n + 1
  BY <1>2
<1>4. \A i \in DOMAIN s : i \in DOMAIN t
  BY <1>2
<1>5. Tidy(s) => Tidy(t)
  BY <1>2, <1>3, NothingHeld DEF Tidy
<1>6. HeldOf(t) = HeldOf(s)
  BY <1>2, <1>3, <1>4, NothingHeld DEF HeldOf
<1> QED
  BY <1>2, <1>3, <1>5, <1>6 DEF t

LEMMA HeldSetTop ==
  ASSUME NEW s \in Seq(Frame), Len(s) > 0, NEW f \in Frame
  PROVE  LET t == [s EXCEPT ![Len(s)] = f]
         IN  /\ HeldOf(t) = HeldUnder(s) \cup HeldIn(f.held)
             /\ Tidy(s) /\ Single(f.held) /\ HeldUnder(s) \cap HeldIn(f.held) = {} => Tidy(t)
             /\ \A i \in DOMAIN t : t[i] = f \/ (i \in DOMAIN s /\ t[i] = s[i])
<1> DEFINE t == [s EXCEPT ![Len(s)] = f]
<1>1. PICK n \in Nat : n = Len(s) /\ n > 0
  OBVIOUS
<1>2. /\ DOMAIN s = 1 .. n /\ DOMAIN t = 1 .. n /\ t[n] = f /\ t \in Seq(Frame) /\ Len(t) = n
      /\ \A i \in 1 .. n : i # n => t[i] = s[i]
  BY <1>1
<1> HIDE DEF t
<1>3. \A i \in 1 .. n - 1 : i \in 1 .. n /\ i # n
  BY <1>1
<1>4. \A i \in 1 .. n : i # n => i \in 1 .. n - 1
  BY <1>1
<1>5. HeldUnder(t) = HeldUnder(s)
  BY <1>1, <1>2, <1>3 DEF HeldUnder
<1>6. HeldOf(t) = HeldUnder(s) \cup HeldIn(f.held)
  BY <1>1, <1>2, <1>5, HeldSplit
<1>7. \A i \in 1 .. n : i # n => HeldIn(s[i].held) \subseteq HeldUnder(s)
  BY <1>1, <1>4 DEF HeldUnder
<1>8. ASSUME Tidy(s), Single(f.held), HeldUnder(s) \cap HeldIn(f.held) = {} PROVE Tidy(t)
  <2>1. \A i \in 1 .. n : Single(t[i].held)
    BY <1>2, <1>8 DEF Tidy
  <2>2. ASSUME NEW i \in 1 .. n, NEW k \in 1 .. n, i # k
        PROVE  HeldIn(t[i].held) \cap HeldIn(t[k].held) = {}
    BY <1>2, <1>7, <1>8, <2>2 DEF Tidy
  <2> QED
    BY <1>2, <2>1, <2>2 DEF Tidy
<1> QED
  BY <1>2, <1>6, <1>8 DEF t
------------------------------------------------------------------------------
\* The records of captured errors, where nobody copies a pg_exception.

\* Whoever still has to free a context: an exception object, or a reset of
\* ErrorContext.
Taken == Alive \cup pending

\* The contexts that code runs in or will switch back to.
Homes == {CurrentMemoryContext} \cup {stack[i].mcxt : i \in DOMAIN stack}

Records ==
  /\ \A e \in Taken : cxt[e] = "live"
  /\ \A e \in ErrIds : cxt[e] # "corrupt"
  /\ \A d, e \in ErrIds : d < e /\ cxt[e] # "none" => cxt[d] # "none"
  /\ \A c \in Homes : c \in ErrIds => cxt[c] = "live" /\ c \notin Taken

\* Nobody frees what another one has to free.
Apart ==
  /\ Tidy(stack)
  /\ flying \notin pending /\ flying \notin Held /\ Held \cap pending = {}
  /\ flying # 0 => mode = "throw"
  /\ pending # {} => mode \in {"jump", "capture"}

\* What a step other than a capture does: it frees D, of what somebody has to
\* free, forgets nothing while C++ code runs or unwinds, and leads to no context of
\* an error that was not led to before.
Frees(D) ==
  /\ D \subseteq Taken
  /\ cxt' = Delete(cxt, D, {})
  /\ Taken' \subseteq Taken \ D
  /\ mode \in {"run", "throw"} => Taken' = Taken \ D
  /\ \A c \in Homes' : c \in ErrIds => c \in Homes

\* Only contexts of captured errors are ever freed.
LEMMA HeldAreErrors == Inv => Held \subseteq ErrIds /\ Taken \subseteq ErrIds /\ 0 \notin ErrIds
<1> SUFFICES ASSUME Inv PROVE Held \subseteq ErrIds /\ Taken \subseteq ErrIds /\ 0 \notin ErrIds
  OBVIOUS
<1>1. ASSUME NEW i \in DOMAIN stack PROVE HeldIn(stack[i].held) \subseteq ErrIds
  <2>1. stack[i] \in Frame
    BY <1>1 DEF Inv, TypeOK
  <2>2. stack[i].held \in Seq(HeldException)
    BY <2>1 DEF Frame
  <2>3. \A j \in DOMAIN stack[i].held : stack[i].held[j] \in HeldException
    BY <2>2
  <2> QED
    BY <2>3 DEF HeldIn, HeldException
<1>2. Held \subseteq ErrIds
  BY <1>1 DEF Held
<1>3. 0 \notin ErrIds /\ (flying # 0 => flying \in ErrIds)
  BY TopFrame DEF Inv, TypeOK, ErrIds
<1>4. pending \subseteq ErrIds
  BY DEF Inv, TypeOK
<1> QED
  BY <1>2, <1>3, <1>4 DEF Taken, Alive

LEMMA RecordsFreed ==
  ASSUME Inv, Records, NEW D, Frees(D)
  PROVE  Records' /\ (mode \in {"run", "throw"} => Leaked' = Leaked)
<1>1. cxt \in [ErrIds -> Kinds]
  BY DEF Inv, TypeOK, Kinds
<1>2. \A e \in ErrIds : cxt'[e] = IF e \in D THEN "deleted" ELSE cxt[e]
  BY <1>1 DEF Frees, Delete, Records
<1>3. Records'
  <2>1. \A e \in Taken' : e \in ErrIds => cxt'[e] = "live"
    BY <1>2 DEF Frees, Records
  <2>2. Taken' \subseteq ErrIds
    <3>1. Taken \subseteq ErrIds
      BY HeldAreErrors
    <3> QED
      BY <3>1 DEF Frees
  <2>3. \A c \in Homes' : c \in ErrIds => cxt'[c] = "live" /\ c \notin Taken'
    BY <1>2 DEF Frees, Records
  <2>4. \A e \in ErrIds : cxt'[e] # "corrupt"
    BY <1>2 DEF Records
  <2>5. \A d, e \in ErrIds : d < e /\ cxt'[e] # "none" => cxt'[d] # "none"
    <3>1. \A e \in ErrIds : cxt'[e] = "none" <=> (cxt[e] = "none" /\ e \notin D)
      BY <1>2
    <3>2. \A e \in ErrIds : e \in D => cxt[e] # "none"
      BY DEF Frees, Records
    <3> QED
      BY <3>1, <3>2 DEF Records
  <2>6. ErrIds' = ErrIds
    BY DEF ErrIds
  <2> QED
    BY <2>1, <2>2, <2>3, <2>4, <2>5, <2>6 DEF Records
<1>4. ASSUME mode \in {"run", "throw"} PROVE Leaked' = Leaked
  <2>1. Taken' = Taken \ D /\ \A e \in Taken : e \in ErrIds => cxt[e] = "live"
    BY <1>4 DEF Frees, Records
  <2>2. D \subseteq Taken
    BY DEF Frees
  <2>3. Leaked = {e \in ErrIds : cxt[e] = "live"} \ Taken
    BY DEF Leaked, Taken
  <2>4. Leaked' = {e \in ErrIds : cxt'[e] = "live"} \ Taken'
    BY DEF Leaked, Taken, ErrIds
  <2> QED
    BY <1>2, <2>1, <2>2, <2>3, <2>4
<1> QED
  BY <1>3, <1>4

LEMMA HomesKept ==
  ASSUME CurrentMemoryContext' \in Homes \cup Plain,
         \A i \in DOMAIN stack' :
           (i \in DOMAIN stack /\ stack'[i] = stack[i]) \/ stack'[i].mcxt \in Homes
  PROVE  \A c \in Homes' : c \in ErrIds => c \in Homes
BY DisjointAssumption DEF Homes, ErrIds

\* Nothing is freed.
LEMMA DeleteNothing == Inv => Delete(cxt, {}, {}) = cxt
BY DEF Inv, TypeOK, Delete

\* Steps that leave the stack alone, and every call.
LEMMA FreesPg ==
  ASSUME Inv, Apart,
         \/ PgSwitchContext \/ PgErrorCallback \/ PgError \/ Report \/ Throw
         \/ PgTry \/ FfiCall \/ CallFunction \/ UNCHANGED vars
  PROVE  Frees({}) /\ Apart'
<1>1. stack \in Seq(Frame) /\ Len(stack) > 0
  BY DEF Inv, TypeOK
<1>2. /\ cxt' = cxt /\ pending' = pending /\ flying' = flying
      /\ CurrentMemoryContext' \in Homes \cup Plain
      /\ mode' = mode \/ (mode = "run" /\ mode' \in {"jump", "throw"})
      /\ mode' = mode \/ flying = 0
      /\ pending # {} => mode' = mode \/ mode' = "jump"
  <2>1. CASE PgTry \/ FfiCall \/ CallFunction
    BY <2>1, Pushes DEF Homes, PgTry, FfiCall, CallFunction, PgRunning, CppRunning, Enter
  <2>2. CASE PgSwitchContext \/ PgErrorCallback \/ PgError \/ Report \/ Throw \/ UNCHANGED vars
    <3>1. mode = "run" => flying = 0 /\ pending = {}
      BY DEF Apart
    <3> QED
      BY <2>2, <3>1 DEF Homes, PgSwitchContext, PgErrorCallback, PgError, Report, Throw, vars,
         PgRunning, CppRunning, errors
  <2> QED
    BY <2>1, <2>2
<1>3. /\ Held' = Held /\ Tidy(stack')
      /\ \A i \in DOMAIN stack' :
           (i \in DOMAIN stack /\ stack'[i] = stack[i]) \/ stack'[i].mcxt \in Homes
  <2>1. CASE PgTry \/ FfiCall \/ CallFunction
    <3>1. PICK f \in Frame : /\ stack' = Append(stack, f) /\ f.held = <<>>
                             /\ f.mcxt = CurrentMemoryContext
      BY <2>1, Pushes
    <3>2. f.mcxt \in Homes
      BY <3>1 DEF Homes
    <3>3. HeldOf(stack') = HeldOf(stack) /\ Tidy(stack')
      BY <1>1, <3>1, HeldPush DEF Apart
    <3>4. Held' = HeldOf(stack') /\ Held = HeldOf(stack)
      BY DEF Held, HeldOf
    <3> QED
      BY <1>1, <3>1, <3>2, <3>3, <3>4, HeldPush
  <2>2. CASE PgSwitchContext \/ PgErrorCallback \/ PgError \/ Report \/ Throw \/ UNCHANGED vars
    <3>1. stack' = stack
      BY <2>2 DEF PgSwitchContext, PgErrorCallback, PgError, Report, Throw, vars
    <3> QED
      BY <3>1 DEF Held, Apart
  <2> QED
    BY <2>1, <2>2
<1>4. Taken' = Taken
  BY <1>2, <1>3 DEF Taken, Alive
<1>5. Frees({})
  BY <1>2, <1>3, <1>4, HomesKept, DeleteNothing DEF Frees
<1>6. Apart'
  BY <1>2, <1>3 DEF Apart
<1> QED
  BY <1>5, <1>6

\* A frame that is left by a return or an exception.
LEMMA FreesPop ==
  ASSUME Inv, Apart, Bare(stack), PgEndTry \/ FfiReturn \/ UnwindFfi \/ FnReturn
  PROVE  Frees({}) /\ Apart'
<1>1. stack \in Seq(Frame) /\ Len(stack) > 0 /\ Top = stack[Len(stack)]
      /\ Len(stack) - 1 \in 0 .. Len(stack) /\ Len(stack) \in DOMAIN stack
  BY TopFrame DEF Inv, TypeOK
<1>2. /\ stack' = SubSeq(stack, 1, Len(stack) - 1)
      /\ UNCHANGED <<mode, flying, pending, cxt>>
      /\ CurrentMemoryContext' \in {CurrentMemoryContext, Top.mcxt}
  BY DEF PgEndTry, FfiReturn, UnwindFfi, FnReturn, Pop, EndScope, errors
<1>3. Top.held = <<>>
  <2>1. FnReturn => Top.held = <<>>
    BY DEF FnReturn
  <2>2. PgEndTry \/ FfiReturn \/ UnwindFfi => Handler(Top)
    BY DEF PgEndTry, FfiReturn, UnwindFfi, Handler
  <2> QED
    BY <1>1, <2>1, <2>2 DEF Bare
<1>4. HeldOf(stack') = HeldOf(stack)
  BY <1>1, <1>2, <1>3, HeldPop
<1>5. Held' = Held
  BY <1>4 DEF Held, HeldOf
<1>6. /\ Tidy(stack')
      /\ \A i \in DOMAIN stack' : i \in DOMAIN stack /\ stack'[i] = stack[i]
  BY <1>1, <1>2, HeldCut DEF Apart
<1>7. CurrentMemoryContext' \in Homes
  BY <1>1, <1>2 DEF Homes
<1>8. Taken' = Taken
  BY <1>2, <1>5 DEF Taken, Alive
<1>9. Frees({})
  BY <1>2, <1>6, <1>7, <1>8, HomesKept, DeleteNothing DEF Frees
<1>10. Apart'
  BY <1>2, <1>5, <1>6 DEF Apart
<1> QED
  BY <1>9, <1>10

\* A longjmp forgets the exceptions of the frames it removes; PG_CATCH frees what was
\* handed to ErrorContext.
LEMMA FreesLand ==
  ASSUME Inv, Apart, LandInFfi \/ \E r \in BOOLEAN : LandInTry(r)
  PROVE  (\E D : Frees(D)) /\ Apart'
<1>1. stack \in Seq(Frame) /\ PG_exception_stack \in DOMAIN stack
  BY Lands DEF Inv, TypeOK
<1>2. PICK n \in 1 .. Len(stack) : stack' = SubSeq(stack, 1, n)
  BY Lands
<1>3. n \in 0 .. Len(stack)
  BY <1>1
<1>4. /\ Tidy(stack') /\ HeldOf(stack') \subseteq HeldOf(stack)
      /\ \A i \in DOMAIN stack' : i \in DOMAIN stack /\ stack'[i] = stack[i]
  BY <1>1, <1>2, <1>3, HeldCut DEF Apart
<1>5. Held' \subseteq Held
  BY <1>4 DEF Held, HeldOf
<1>6. mode = "jump" /\ flying' = flying /\ flying = 0
  BY Lands DEF Apart
<1>7. CurrentMemoryContext' \in Homes
  BY <1>1 DEF LandInFfi, LandInTry, Homes
<1>8. \/ cxt' = cxt /\ pending' = pending /\ mode' \in {"jump", "capture"}
      \/ cxt' = Delete(cxt, pending, {}) /\ pending' = {} /\ mode' = "run"
  BY DEF LandInFfi, LandInTry, errors
<1>9. Apart'
  BY <1>4, <1>5, <1>6, <1>8 DEF Apart
<1>10. CASE cxt' = cxt /\ pending' = pending
  <2>1. Taken' \subseteq Taken \ {}
    BY <1>5, <1>6, <1>10 DEF Taken, Alive
  <2>2. Frees({})
    BY <1>4, <1>6, <1>7, <1>10, <2>1, HomesKept, DeleteNothing DEF Frees
  <2> QED
    BY <1>9, <2>2
<1>11. CASE cxt' = Delete(cxt, pending, {}) /\ pending' = {}
  <2>1. Taken' \subseteq Taken \ pending /\ pending \subseteq Taken
    BY <1>5, <1>6, <1>11 DEF Taken, Alive, Apart
  <2>2. Frees(pending)
    BY <1>4, <1>6, <1>7, <1>11, <2>1, HomesKept DEF Frees
  <2> QED
    BY <1>9, <2>2
<1> QED
  BY <1>8, <1>10, <1>11

\* The innermost body changes what it holds: from its own exceptions and the one in
\* flight, D is freed and the rest is held, flies, or is handed to ErrorContext.
LEMMA HeldRewritten ==
  ASSUME Inv, Apart, NEW f, Rewritten(f)
  PROVE  /\ HeldUnder(stack) \cap HeldIn(Top.held) = {} /\ Single(Top.held)
         /\ Top.held \in Seq(HeldException)
         /\ Held = HeldUnder(stack) \cup HeldIn(Top.held)
         /\ Held' = HeldUnder(stack) \cup HeldIn(f.held)
         /\ Single(f.held) /\ HeldUnder(stack) \cap HeldIn(f.held) = {} => Tidy(stack')
         /\ f.mcxt \in Homes /\ CurrentMemoryContext' \in Homes \cup Plain
              => \A c \in Homes' : c \in ErrIds => c \in Homes
         /\ Top.mcxt \in Homes /\ CurrentMemoryContext \in Homes
<1>1. /\ stack \in Seq(Frame) /\ Len(stack) > 0 /\ Len(stack) \in DOMAIN stack
      /\ Top = stack[Len(stack)] /\ Tidy(stack) /\ Top \in Frame
  BY TopFrame DEF Inv, TypeOK, Apart
<1>2. f \in Frame /\ stack' = [stack EXCEPT ![Len(stack)] = f]
  BY DEF Rewritten, SetTop
<1>3. Top.held \in Seq(HeldException) /\ Single(Top.held)
  BY <1>1 DEF Frame, Tidy
<1>4. /\ HeldOf(stack') = HeldUnder(stack) \cup HeldIn(f.held)
      /\ Single(f.held) /\ HeldUnder(stack) \cap HeldIn(f.held) = {} => Tidy(stack')
      /\ \A i \in DOMAIN stack' : stack'[i] = f \/ (i \in DOMAIN stack /\ stack'[i] = stack[i])
  BY <1>1, <1>2, HeldSetTop
<1>5. /\ HeldOf(stack) = HeldUnder(stack) \cup HeldIn(Top.held)
      /\ HeldUnder(stack) \cap HeldIn(Top.held) = {}
  BY <1>1, HeldSplit
<1>6. Held = HeldOf(stack) /\ Held' = HeldOf(stack')
  BY DEF Held, HeldOf
<1>7. Top.mcxt \in Homes /\ CurrentMemoryContext \in Homes
  BY <1>1 DEF Homes
<1>8. f.mcxt \in Homes /\ CurrentMemoryContext' \in Homes \cup Plain
        => \A c \in Homes' : c \in ErrIds => c \in Homes
  BY <1>4, HomesKept
<1> QED
  BY <1>3, <1>4, <1>5, <1>6, <1>7, <1>8

LEMMA FreesEnterBody ==
  ASSUME Inv, Apart, NEW s \in BOOLEAN, EnterBody(s)
  PROVE  Frees({}) /\ Apart'
<1>1. PICK f : Rewritten(f) /\ f.held = Top.held /\ f.mcxt = CurrentMemoryContext
  BY Rewrites
<1>2. /\ UNCHANGED <<mode, flying, cxt, pending>>
      /\ CurrentMemoryContext' \in {CurrentMemoryContext} \cup Plain
  BY DEF EnterBody, errors
<1>3. Held' = Held /\ Tidy(stack') /\ \A c \in Homes' : c \in ErrIds => c \in Homes
  BY <1>1, <1>2, HeldRewritten
<1>4. Taken' = Taken
  BY <1>2, <1>3 DEF Taken, Alive
<1> QED
  BY <1>2, <1>3, <1>4, DeleteNothing DEF Frees, Apart

LEMMA FreesCatch ==
  ASSUME Inv, Apart, ~CatchByValue, NEW c \in BOOLEAN, Catch(c)
  PROVE  Frees({}) /\ Apart'
<1>1. PICK f : /\ Rewritten(f) /\ f.mcxt = Top.mcxt
               /\ f.held = IF flying = 0 THEN Top.held
                           ELSE Append(Top.held, [err |-> flying, copy |-> c])
  BY Rewrites
<1>2. /\ UNCHANGED <<CurrentMemoryContext, cxt, pending>> /\ c = FALSE
      /\ mode = "throw" /\ mode' = "run" /\ flying' = 0 /\ pending = {}
  BY DEF Catch, errors, Apart
<1>3. \A d \in Homes' : d \in ErrIds => d \in Homes
  BY <1>1, <1>2, HeldRewritten
<1>4. Held' = Held \cup ({flying} \ {0}) /\ Tidy(stack')
  <2>1. CASE flying = 0
    BY <1>1, <2>1, HeldRewritten
  <2>2. CASE flying # 0
    <3>1. flying \in ErrIds /\ flying \notin Held /\ Top.held \in Seq(HeldException)
      BY <1>1, <2>2, HeldRewritten, TopFrame DEF Inv, TypeOK, ErrIds, Apart
    <3>2. flying \notin HeldIn(Top.held) /\ flying \notin HeldUnder(stack)
      BY <1>1, <3>1, HeldRewritten
    <3>3. Single(f.held) /\ HeldIn(f.held) = HeldIn(Top.held) \cup {flying}
      BY <1>1, <1>2, <2>2, <3>1, <3>2, HeldRewritten, SingleAppend
    <3>4. HeldUnder(stack) \cap HeldIn(f.held) = {}
      BY <1>1, <3>2, <3>3, HeldRewritten
    <3> QED
      BY <1>1, <2>2, <3>3, <3>4, HeldRewritten
  <2> QED
    BY <2>1, <2>2
<1>5. Taken' = Taken
  BY <1>2, <1>4 DEF Taken, Alive
<1>6. Frees({})
  BY <1>2, <1>3, <1>5, DeleteNothing DEF Frees
<1>7. Apart'
  BY <1>2, <1>4, HeldAreErrors DEF Apart
<1> QED
  BY <1>6, <1>7

\* A catch clause ends, throws again or rethrows to Postgres.
LEMMA FreesEndCatch ==
  ASSUME Inv, Apart, EndCatch \/ ThrowAgain \/ Rethrow
  PROVE  (\E D : Frees(D)) /\ Apart'
<1>1. Top.held # <<>> /\ mode = "run" /\ flying = 0 /\ pending = {}
  BY DEF EndCatch, ThrowAgain, Rethrow, CppRunning, Apart
<1>2. PICK f : /\ Rewritten(f) /\ f.mcxt = Top.mcxt
               /\ f.held = SubSeq(Top.held, 1, Len(Top.held) - 1)
  BY Rewrites
<1>3. PICK e : e = Innermost.err
  OBVIOUS
<1>4. /\ Single(f.held) /\ HeldIn(f.held) = HeldIn(Top.held) \ {e}
      /\ e \in HeldIn(Top.held) /\ e \in ErrIds
      /\ HeldIn(<<Innermost>>) = {e} /\ CopiesIn(<<Innermost>>) = {}
  BY <1>1, <1>2, <1>3, HeldRewritten, SingleDrop DEF Innermost
<1>5. /\ HeldUnder(stack) \cap HeldIn(Top.held) = {}
      /\ Held = HeldUnder(stack) \cup HeldIn(Top.held)
      /\ Held' = HeldUnder(stack) \cup HeldIn(f.held)
  BY <1>2, HeldRewritten
<1>6. Held' = Held \ {e} /\ e \in Held
  BY <1>4, <1>5
<1>7. Tidy(stack')
  <2>1. HeldUnder(stack) \cap HeldIn(f.held) = {}
    BY <1>4, <1>5
  <2> QED
    BY <1>2, <1>4, <2>1, HeldRewritten
<1>8. CurrentMemoryContext' = CurrentMemoryContext
  BY DEF EndCatch, ThrowAgain, Rethrow
<1>9. \A d \in Homes' : d \in ErrIds => d \in Homes
  BY <1>2, <1>8, HeldRewritten
<1>10. e # 0
  BY <1>4, TopFrame DEF ErrIds
<1>11. CASE EndCatch
  <2>1. cxt' = Delete(cxt, {e}, {}) /\ flying' = 0 /\ pending' = {} /\ mode' = "run"
    BY <1>1, <1>4, <1>11 DEF EndCatch, Destroy, CppRunning
  <2>2. Taken' = Taken \ {e} /\ {e} \subseteq Taken
    BY <1>1, <1>6, <2>1 DEF Taken, Alive
  <2>3. Frees({e})
    BY <1>9, <2>1, <2>2 DEF Frees
  <2>4. Apart'
    BY <1>6, <1>7, <2>1, HeldAreErrors DEF Apart
  <2> QED
    BY <2>3, <2>4
<1>12. CASE ThrowAgain
  <2>1. cxt' = Delete(cxt, {}, {}) /\ flying' = e /\ pending' = {} /\ mode' = "throw"
    BY <1>1, <1>3, <1>4, <1>12 DEF ThrowAgain
  <2>2. Taken' = Taken
    BY <1>1, <1>6, <1>10, <2>1 DEF Taken, Alive
  <2>3. Frees({})
    BY <1>9, <2>1, <2>2 DEF Frees
  <2>4. Apart'
    BY <1>6, <1>7, <1>10, <2>1 DEF Apart
  <2> QED
    BY <2>3, <2>4
<1>13. CASE Rethrow
  <2>1. cxt' = cxt /\ flying' = 0 /\ pending' = {e} /\ mode' = "jump"
    BY <1>1, <1>3, <1>13 DEF Rethrow
  <2>2. Taken' = Taken
    BY <1>1, <1>6, <2>1 DEF Taken, Alive
  <2>3. Frees({})
    BY <1>9, <2>1, <2>2, DeleteNothing DEF Frees
  <2>4. Apart'
    BY <1>6, <1>7, <1>10, <2>1, HeldAreErrors DEF Apart
  <2> QED
    BY <2>3, <2>4
<1> QED
  BY <1>11, <1>12, <1>13

\* The way out through exception_guard.
LEMMA FreesEscape ==
  ASSUME Inv, Apart, Escape
  PROVE  (\E D : Frees(D)) /\ Apart'
<1>1. PICK f : Rewritten(f) /\ f.mcxt = Top.mcxt /\ f.held = <<>>
  BY Rewrites
<1>2. PICK D : D = HeldIn(Top.held)
  OBVIOUS
<1>3. CopiesIn(Top.held) = {}
  BY <1>1, HeldRewritten DEF CopiesIn, Single
<1>4. /\ mode = "throw" /\ mode' = "jump" /\ flying' = 0 /\ pending = {}
      /\ pending' = {flying} \ {0} /\ cxt' = Delete(cxt, D, {})
      /\ CurrentMemoryContext' \in {CurrentMemoryContext, Top.mcxt}
  BY <1>2, <1>3 DEF Escape, HandOver, Destroy, EndScope, Apart
<1>5. Held' = Held \ D /\ D \subseteq Held /\ Tidy(stack')
  BY <1>1, <1>2, HeldRewritten, NothingHeld
<1>6. \A d \in Homes' : d \in ErrIds => d \in Homes
  BY <1>1, <1>4, HeldRewritten
<1>7. flying \notin Held
  BY DEF Apart
<1>8. Taken' = Taken \ D /\ D \subseteq Taken
  BY <1>4, <1>5, <1>7 DEF Taken, Alive
<1>9. Frees(D)
  BY <1>4, <1>6, <1>8 DEF Frees
<1>10. 0 \notin Held'
  BY <1>5, HeldAreErrors
<1>11. Apart'
  BY <1>4, <1>5, <1>7, <1>10 DEF Apart
<1> QED
  BY <1>9, <1>11

\* A captured error gets a context of its own, and what was handed to ErrorContext
\* is freed.
LEMMA RecordsCapture ==
  ASSUME Inv, Records, Apart, Capture \/ CaptureFails
  PROVE  Records' /\ Apart'
<1> DEFINE flushed == Delete(cxt, pending, {})
<1>1. /\ flying = 0 /\ mode' = "throw" /\ pending' = {} /\ stack' = stack
      /\ Tidy(stack) /\ Held \cap pending = {} /\ ErrIds' = ErrIds
  BY DEF Capture, CaptureFails, Apart, ErrIds
<1>2. \A e \in ErrIds : flushed[e] = IF e \in pending THEN "deleted" ELSE cxt[e]
  BY DEF Delete, Records, Taken
<1>3. flushed = [e \in ErrIds |-> flushed[e]]
  BY DEF Delete
<1> HIDE DEF flushed
<1>4. Held' = Held
  BY <1>1 DEF Held
<1>5. Held \subseteq ErrIds /\ pending \subseteq ErrIds /\ \A e \in ErrIds : e \in Nat /\ e # 0
  BY HeldAreErrors, TopFrame DEF Taken, ErrIds
<1>6. /\ \A e \in Held : cxt[e] = "live"
      /\ \A e \in pending : cxt[e] = "live"
      /\ \A c \in Homes : c \in ErrIds => cxt[c] = "live" /\ c \notin Held /\ c \notin pending
  BY DEF Records, Taken, Alive
<1>7. Top.mcxt \in Homes /\ \A i \in DOMAIN stack : stack[i].mcxt \in Homes
  <2>1. Len(stack) \in DOMAIN stack
    BY DEF Inv, TypeOK
  <2> QED
    BY <2>1 DEF Homes, Top
<1>8. ASSUME NEW e \in ErrIds, Fresh(e), Captured(e), cxt' = [flushed EXCEPT ![e] = "live"]
      PROVE  Records' /\ Apart'
  <2>1. \A x \in ErrIds : cxt'[x] = IF x = e THEN "live" ELSE flushed[x]
    BY <1>3, <1>8
  <2>2. flying' = e /\ CurrentMemoryContext' = Top.mcxt /\ cxt[e] = "none"
    BY <1>8 DEF Captured, Fresh
  <2>3. e \notin Held /\ e \notin Homes /\ e \notin pending
    BY <1>6, <2>2
  <2>4. Taken' = Held \cup {e}
    BY <1>1, <1>4, <1>5, <2>2 DEF Taken, Alive
  <2>5. Homes' \subseteq Homes
    BY <1>1, <1>7, <2>2 DEF Homes
  <2>6. \A x \in Taken' : cxt'[x] = "live"
    BY <1>1, <1>2, <1>5, <1>6, <2>1, <2>4
  <2>7. \A x \in ErrIds : cxt'[x] # "corrupt"
    BY <1>2, <2>1 DEF Records
  <2>8. \A c \in Homes' : c \in ErrIds => cxt'[c] = "live" /\ c \notin Taken'
    BY <1>2, <1>6, <2>1, <2>3, <2>4, <2>5
  <2>9. ASSUME NEW d \in ErrIds, NEW x \in ErrIds, d < x, cxt'[x] # "none"
        PROVE  cxt'[d] # "none"
    <3>1. CASE x = e
      <4>1. d \in 1 .. e - 1
        BY <2>9, <3>1, TopFrame DEF ErrIds
      <4>2. cxt[d] # "none"
        BY <1>8, <4>1 DEF Fresh
      <4> QED
        BY <1>2, <2>1, <4>2
    <3>2. CASE x # e
      <4>1. cxt[x] # "none"
        BY <1>2, <1>6, <2>1, <2>9, <3>2
      <4>2. cxt[d] # "none"
        BY <2>9, <4>1 DEF Records
      <4> QED
        BY <1>2, <2>1, <4>2
    <3> QED
      BY <3>1, <3>2
  <2>10. Records'
    BY <1>1, <2>6, <2>7, <2>8, <2>9 DEF Records
  <2>11. Apart'
    BY <1>1, <1>4, <2>2, <2>3 DEF Apart
  <2> QED
    BY <2>10, <2>11
<1>9. ASSUME NEW e \in ErrIds, Fresh(e), e + 1 \in ErrIds, flying' = e + 1,
             CurrentMemoryContext' = e,
             cxt' = [flushed EXCEPT ![e] = "live", ![e + 1] = "live"]
      PROVE  Records' /\ Apart'
  <2>1. \A x \in ErrIds : cxt'[x] = IF x = e \/ x = e + 1 THEN "live" ELSE flushed[x]
    BY <1>3, <1>9
  <2>2. cxt[e] = "none" /\ cxt[e + 1] = "none"
    <3>1. cxt[e] = "none" /\ e < e + 1
      BY <1>5, <1>9 DEF Fresh
    <3> QED
      BY <1>9, <3>1 DEF Records
  <2>3. /\ e \notin Held /\ e + 1 \notin Held /\ e # e + 1
        /\ e + 1 \notin Homes /\ e \notin pending /\ e + 1 \notin pending
    BY <1>5, <1>6, <1>9, <2>2
  <2>4. Taken' = Held \cup {e + 1}
    BY <1>1, <1>4, <1>5, <1>9 DEF Taken, Alive
  <2>5. Homes' \subseteq Homes \cup {e}
    BY <1>1, <1>7, <1>9 DEF Homes
  <2>6. \A x \in Taken' : cxt'[x] = "live"
    BY <1>1, <1>2, <1>5, <1>6, <1>9, <2>1, <2>4
  <2>7. \A x \in ErrIds : cxt'[x] # "corrupt"
    BY <1>2, <2>1 DEF Records
  <2>8. \A c \in Homes' : c \in ErrIds => cxt'[c] = "live" /\ c \notin Taken'
    BY <1>2, <1>6, <2>1, <2>3, <2>4, <2>5
  <2>9. ASSUME NEW d \in ErrIds, NEW x \in ErrIds, d < x, cxt'[x] # "none"
        PROVE  cxt'[d] # "none"
    <3>1. CASE x = e \/ x = e + 1
      <4>1. d = e \/ d \in 1 .. e - 1
        BY <2>9, <3>1, TopFrame DEF ErrIds
      <4>2. d = e \/ cxt[d] # "none"
        BY <1>9, <4>1 DEF Fresh
      <4> QED
        BY <1>2, <2>1, <4>2
    <3>2. CASE ~(x = e \/ x = e + 1)
      <4>1. cxt[x] # "none"
        BY <1>2, <1>6, <2>1, <2>9, <3>2
      <4>2. cxt[d] # "none"
        BY <2>9, <4>1 DEF Records
      <4> QED
        BY <1>2, <2>1, <4>2
    <3> QED
      BY <3>1, <3>2
  <2>10. Records'
    BY <1>1, <2>6, <2>7, <2>8, <2>9 DEF Records
  <2>11. Apart'
    BY <1>1, <1>4, <1>9, <2>3 DEF Apart
  <2> QED
    BY <2>10, <2>11
<1> QED
  BY <1>8, <1>9 DEF Capture, CaptureFails, flushed

LEMMA RecordsNext ==
  ASSUME Inv, Bare(stack), Records, Apart, ~CatchByValue, [Next]_vars
  PROVE  /\ Records' /\ Apart'
         /\ mode \in {"run", "throw"} => Leaked' = Leaked
<1>1. CASE \/ PgSwitchContext \/ PgErrorCallback \/ PgError \/ Report \/ Throw
           \/ PgTry \/ FfiCall \/ CallFunction \/ UNCHANGED vars
  BY <1>1, FreesPg, RecordsFreed
<1>2. CASE PgEndTry \/ FfiReturn \/ UnwindFfi \/ FnReturn
  BY <1>2, FreesPop, RecordsFreed
<1>3. CASE LandInFfi \/ \E r \in BOOLEAN : LandInTry(r)
  BY <1>3, FreesLand, RecordsFreed
<1>4. CASE \E s \in BOOLEAN : EnterBody(s)
  BY <1>4, FreesEnterBody, RecordsFreed
<1>5. CASE \E c \in BOOLEAN : Catch(c)
  BY <1>5, FreesCatch, RecordsFreed
<1>6. CASE EndCatch \/ ThrowAgain \/ Rethrow
  BY <1>6, FreesEndCatch, RecordsFreed
<1>7. CASE Escape
  BY <1>7, FreesEscape, RecordsFreed
<1>8. CASE Capture \/ CaptureFails
  <2>1. mode = "capture"
    BY <1>8 DEF Capture, CaptureFails
  <2> QED
    BY <1>8, <2>1, RecordsCapture
<1> QED
  BY <1>1, <1>2, <1>3, <1>4, <1>5, <1>6, <1>7, <1>8 DEF Next, Propagate

LEMMA RecordsInit == Init => Records /\ Apart
<1> SUFFICES ASSUME Init PROVE Records /\ Apart
  OBVIOUS
<1>1. /\ DOMAIN stack = {1} /\ stack[1].held = <<>> /\ stack[1].mcxt = CurrentMemoryContext
      /\ CurrentMemoryContext \in Plain /\ flying = 0 /\ pending = {} /\ mode = "run"
      /\ \A e \in ErrIds : cxt[e] = "none"
  BY DEF Init
<1>2. Tidy(stack) /\ Held = {}
  BY <1>1, NothingHeld DEF Tidy, Held
<1>3. Records
  BY <1>1, <1>2, DisjointAssumption DEF Records, Taken, Alive, Homes, ErrIds
<1> QED
  BY <1>1, <1>2, <1>3 DEF Apart

\* The records of captured errors and the contexts code runs in, in every state.
THEOREM RecordsInvariance ==
  ASSUME ~CatchByValue
  PROVE  Spec => []((Inv /\ Bare(stack)) /\ (Records /\ Apart))
<1>1. Inv /\ Bare(stack) /\ Records /\ Apart /\ [Next]_vars => (Records /\ Apart)'
  BY RecordsNext
<1> QED
  BY <1>1, RecordsInit, GuardInvariance, HandlersAreBare, PTL DEF Spec

\* However exceptions nest, are caught, thrown again, or rethrown to Postgres, the
\* record of one that can still be read is live, and nothing is freed twice
\* (exception.hpp, exception_impl.hpp): so long as extension code catches by
\* reference.
THEOREM ErrorDataIsValid ==
  ASSUME ~CatchByValue
  PROVE  Spec => []ErrorDataValid
<1>1. Records /\ Apart => ErrorDataValid
  BY DEF Records, Apart, Taken, Alive, ErrorDataValid
<1> QED
  BY <1>1, RecordsInvariance, PTL

\* No frame runs in, or returns to, the deleted context of an error, not even after
\* a capture has failed half way.
THEOREM CurrentContextIsLive ==
  ASSUME ~CatchByValue
  PROVE  Spec => []CurrentContextLive
<1>1. Records => CurrentContextLive
  BY DEF Records, Homes, CurrentContextLive
<1> QED
  BY <1>1, RecordsInvariance, PTL

\* Returning, unwinding, catching, throwing again and rethrowing lose no context of a
\* captured error: only a longjmp over its holder or a failed capture does.
THEOREM LeaksOnlyByJump ==
  ASSUME ~CatchByValue
  PROVE  Spec => LeakOnlyByJump
<1>1. (Inv /\ Bare(stack)) /\ (Records /\ Apart) /\ [Next]_vars
        => [(mode \in {"run", "throw"}) => Leaked' = Leaked]_vars
  BY RecordsNext
<1> QED
  BY <1>1, RecordsInvariance, PTL DEF Spec, LeakOnlyByJump
------------------------------------------------------------------------------
\* Errors handed to ErrorContext.

\* Whatever rethrow() hands to ErrorContext is gone when code runs again: PG_CATCH and
\* the next capture flush it.
THEOREM ErrorContextIsFlushed == Spec => []Flushed
<1> DEFINE Waiting == pending # {} => mode \in {"jump", "capture"}
<1>1. Init => Waiting
  BY DEF Init
<1>2. Waiting /\ [Next]_vars => Waiting'
  <2> SUFFICES ASSUME Waiting, [Next]_vars PROVE Waiting'
    OBVIOUS
  <2>1. CASE \/ PgSwitchContext \/ PgErrorCallback \/ PgError \/ Report \/ Throw \/ PgTry
             \/ FfiCall \/ CallFunction \/ PgEndTry \/ FfiReturn \/ UnwindFfi \/ FnReturn
             \/ UNCHANGED vars
    BY <2>1 DEF PgSwitchContext, PgErrorCallback, PgError, Report, Throw, PgTry, FfiCall, Enter,
       CallFunction, PgEndTry, FfiReturn, UnwindFfi, FnReturn, PgRunning, CppRunning, vars,
       errors
  <2>2. CASE LandInFfi \/ (\E r \in BOOLEAN : LandInTry(r)) \/ Capture \/ CaptureFails
    BY <2>2 DEF LandInFfi, LandInTry, Capture, CaptureFails, errors
  <2>3. CASE (\E s \in BOOLEAN : EnterBody(s)) \/ (\E c \in BOOLEAN : Catch(c))
    BY <2>3 DEF EnterBody, Catch, CppRunning, errors
  <2>4. CASE EndCatch \/ ThrowAgain \/ Rethrow \/ Escape
    BY <2>4 DEF EndCatch, ThrowAgain, Rethrow, Escape, HandOver, CppRunning
  <2> QED
    BY <2>1, <2>2, <2>3, <2>4 DEF Next, Propagate
<1>3. Waiting => Flushed
  BY DEF Flushed
<1> QED
  BY <1>1, <1>2, <1>3, PTL DEF Spec
------------------------------------------------------------------------------
\* The stack of calls.

\* How a step other than a longjmp moves calls: with the handles of the bodies.
Tracks ==
  \/ /\ calls' = calls /\ Handles' = Handles
     /\ \A i \in Handles : stack'[i].call = stack[i].call
  \/ /\ calls' = Append(calls, Top.call)
     /\ Len(stack) \notin Handles /\ Handles' = Handles \cup {Len(stack)}
     /\ stack'[Len(stack)].call = Top.call
     /\ \A i \in Handles : stack'[i] = stack[i]
  \/ /\ calls' = SubSeq(calls, 1, Len(calls) - 1)
     /\ Top.handle /\ Handles' = Handles \ {Len(stack)}
     /\ \A i \in Handles' : stack'[i] = stack[i]

\* A longjmp leaves calls alone and removes frames.
Skips ==
  /\ calls' = calls /\ Handles' \subseteq Handles
  /\ \A i \in Handles' : stack'[i] = stack[i]

LEMMA CallsMove ==
  ASSUME Inv, Bare(stack), [Next]_vars
  PROVE  Tracks \/ (mode = "jump" /\ Skips)
<1>1. /\ stack \in Seq(Frame) /\ Len(stack) > 0 /\ Len(stack) \in DOMAIN stack
      /\ Top = stack[Len(stack)] /\ Top \in Frame
  BY TopFrame DEF Inv, TypeOK
<1>2. CASE \/ PgSwitchContext \/ PgErrorCallback \/ PgError \/ Report \/ Throw \/ Capture
           \/ CaptureFails \/ UNCHANGED vars
  <2>1. stack' = stack /\ calls' = calls
    BY <1>2 DEF PgSwitchContext, PgErrorCallback, PgError, Report, Throw, Capture,
       CaptureFails, vars, activations
  <2> QED
    BY <2>1 DEF Tracks, Handles
<1>3. CASE PgTry \/ FfiCall \/ CallFunction
  <2>1. PICK f \in Frame : stack' = Append(stack, f) /\ f.handle = FALSE
    BY <1>3, Pushes
  <2>2. calls' = calls
    BY <1>3, Pushes
  <2>3. PICK n \in Nat : n = Len(stack)
    BY <1>1
  <2>4. /\ DOMAIN stack = 1 .. n /\ DOMAIN stack' = 1 .. n + 1 /\ stack'[n + 1] = f
        /\ \A i \in 1 .. n : stack'[i] = stack[i]
    BY <1>1, <2>1, <2>3
  <2>5. Handles' = Handles
    BY <2>1, <2>3, <2>4 DEF Handles
  <2> QED
    BY <2>2, <2>4, <2>5 DEF Tracks, Handles
<1>4. CASE PgEndTry \/ FfiReturn \/ UnwindFfi \/ FnReturn
  <2>1. stack' = SubSeq(stack, 1, Len(stack) - 1)
    BY <1>4 DEF PgEndTry, FfiReturn, UnwindFfi, FnReturn, Pop
  <2>2. PICK n \in Nat : n = Len(stack) /\ n > 0
    BY <1>1
  <2>3. /\ DOMAIN stack = 1 .. n /\ DOMAIN stack' = 1 .. n - 1
        /\ \A i \in 1 .. n - 1 : stack'[i] = stack[i]
    BY <1>1, <2>1, <2>2
  <2>4. \A i \in 1 .. n : (i \in 1 .. n - 1 <=> i # n)
    BY <2>2
  <2>5. Handles' = Handles \ {n} /\ \A i \in Handles' : stack'[i] = stack[i]
    BY <2>2, <2>3, <2>4 DEF Handles
  <2>6. CASE FnReturn
    BY <2>2, <2>5, <2>6 DEF FnReturn, PopCalls, Tracks
  <2>7. CASE PgEndTry \/ FfiReturn \/ UnwindFfi
    <3>1. Handler(Top) /\ calls' = calls
      BY <2>7 DEF PgEndTry, FfiReturn, UnwindFfi, Handler, activations
    <3>2. n \notin Handles
      BY <1>1, <2>2, <3>1 DEF Bare, Handles
    <3>3. Handles' = Handles
      BY <2>5, <3>2
    <3> QED
      BY <2>5, <3>1, <3>3 DEF Tracks
  <2> QED
    BY <1>4, <2>6, <2>7
<1>5. CASE LandInFfi \/ \E r \in BOOLEAN : LandInTry(r)
  <2>1. PICK n \in 0 .. Len(stack) : stack' = SubSeq(stack, 1, n)
    BY <1>1, <1>5, Lands
  <2>2. \A i \in DOMAIN stack' : i \in DOMAIN stack /\ stack'[i] = stack[i]
    BY <1>1, <2>1, HeldCut
  <2> QED
    BY <1>5, <2>2, Lands DEF Skips, Handles
<1>6. CASE \/ (\E s \in BOOLEAN : EnterBody(s)) \/ (\E c \in BOOLEAN : Catch(c))
           \/ EndCatch \/ ThrowAgain \/ Rethrow \/ Escape
  <2>1. PICK n \in Nat : n = Len(stack) /\ n > 0
    BY <1>1
  <2>2. ASSUME NEW f, Rewritten(f)
        PROVE  /\ DOMAIN stack' = DOMAIN stack /\ stack'[n] = f /\ f.call = Top.call
               /\ \A i \in DOMAIN stack : i # n => stack'[i] = stack[i]
    <3>1. stack' = [stack EXCEPT ![n] = f] /\ f \in Frame /\ f.call = Top.call
      BY <2>1, <2>2 DEF Rewritten, SetTop
    <3> QED
      BY <1>1, <2>1, <3>1
  <2>3. CASE \E s \in BOOLEAN : EnterBody(s)
    <3>1. PICK f : Rewritten(f) /\ f.handle = TRUE
      BY <2>3, Rewrites
    <3>2. calls' = Append(calls, Top.call) /\ ~Top.handle
      BY <2>3 DEF EnterBody, Push
    <3>3. n \notin Handles /\ Handles' = Handles \cup {n}
      BY <1>1, <2>1, <2>2, <3>1, <3>2 DEF Handles
    <3>4. \A i \in Handles : stack'[i] = stack[i]
      BY <2>2, <3>1, <3>3 DEF Handles
    <3> QED
      BY <2>1, <2>2, <3>1, <3>2, <3>3, <3>4 DEF Tracks
  <2>4. CASE (\E c \in BOOLEAN : Catch(c)) \/ EndCatch \/ ThrowAgain \/ Rethrow
    <3>1. PICK f : Rewritten(f) /\ f.handle = Top.handle
      BY <2>4, Rewrites
    <3>2. calls' = calls
      BY <2>4 DEF Catch, EndCatch, ThrowAgain, Rethrow, activations
    <3>3. Handles' = Handles
      BY <1>1, <2>1, <2>2, <3>1 DEF Handles
    <3>4. \A i \in Handles : stack'[i].call = stack[i].call
      BY <1>1, <2>1, <2>2, <3>1 DEF Handles
    <3> QED
      BY <3>2, <3>3, <3>4 DEF Tracks
  <2>5. CASE Escape
    <3>1. PICK f : Rewritten(f) /\ f.handle = FALSE
      BY <2>5, Rewrites
    <3>2. calls' = IF Top.handle THEN SubSeq(calls, 1, Len(calls) - 1) ELSE calls
      BY <2>5 DEF Escape, PopCalls
    <3>3. Handles' = Handles \ {n} /\ \A i \in Handles' : stack'[i] = stack[i]
      BY <2>2, <3>1 DEF Handles
    <3>4. ~Top.handle => n \notin Handles
      BY <1>1, <2>1 DEF Handles
    <3>5. CASE Top.handle
      BY <2>1, <3>2, <3>3, <3>5 DEF Tracks
    <3>6. CASE ~Top.handle
      <4>1. Handles' = Handles
        BY <3>3, <3>4, <3>6
      <4> QED
        BY <3>2, <3>3, <3>6, <4>1 DEF Tracks
    <3> QED
      BY <3>5, <3>6
  <2> QED
    BY <1>6, <2>3, <2>4, <2>5
<1> QED
  BY <1>2, <1>3, <1>4, <1>5, <1>6 DEF Next, Propagate

\* However the step moves calls, it moves with the handles.
LEMMA StaleKept ==
  ASSUME Inv, PopNeverEmpty, Tracks
  PROVE  Stale' = Stale
<1>1. /\ IsFiniteSet(Handles) /\ Cardinality(Handles) \in Nat
      /\ Top.handle => Len(stack) \in Handles
      /\ calls \in Seq(0 .. MaxCalls) /\ Len(calls) \in Nat
  BY HandlesCount DEF Inv, TypeOK
<1>2. CASE calls' = calls /\ Handles' = Handles
  BY <1>2 DEF Stale
<1>3. CASE /\ calls' = Append(calls, Top.call)
           /\ Len(stack) \notin Handles /\ Handles' = Handles \cup {Len(stack)}
  <2>1. Cardinality(Handles') = Cardinality(Handles) + 1
    BY <1>1, <1>3, FS_AddElement
  <2>2. Len(calls') = Len(calls) + 1
    <3>1. Top.call \in 0 .. MaxCalls
      BY TopFrame DEF Frame
    <3> QED
      BY <1>1, <1>3, <3>1
  <2> QED
    BY <1>1, <2>1, <2>2 DEF Stale
<1>4. CASE /\ calls' = SubSeq(calls, 1, Len(calls) - 1)
           /\ Top.handle /\ Handles' = Handles \ {Len(stack)}
  <2>1. Cardinality(Handles') = Cardinality(Handles) - 1
    BY <1>1, <1>4, FS_RemoveElement
  <2>2. Len(calls') = Len(calls) - 1
    BY <1>4, PopCallsType
  <2> QED
    BY <1>1, <2>1, <2>2 DEF Stale
<1> QED
  BY <1>2, <1>3, <1>4 DEF Tracks

\* No return, exception, catch clause or rethrow leaves an entry of an activation that
\* is over on current_postgres_function::calls: only a longjmp does.
THEOREM StaleEntriesOnlyByJump == Spec => StaleOnlyByJump
<1>1. Inv /\ PopNeverEmpty /\ Bare(stack) /\ [Next]_vars
        => [mode # "jump" => Stale' = Stale]_vars
  BY CallsMove, StaleKept
<1> QED
  BY <1>1, GuardInvariance, HandlersAreBare, PTL DEF Spec, StaleOnlyByJump

\* The place of i in the order of H.
PlaceIn(H, i) == Cardinality({j \in H : j <= i})

LEMMA PlaceType ==
  ASSUME NEW H, IsFiniteSet(H), H \subseteq Nat, NEW i \in H
  PROVE  PlaceIn(H, i) \in 1 .. Cardinality(H)
<1> DEFINE B == {j \in H : j <= i}
<1>1. B \in SUBSET H /\ i \in B
  OBVIOUS
<1> HIDE DEF B
<1>2. IsFiniteSet(B) /\ Cardinality(B) <= Cardinality(H)
  BY <1>1, FS_Subset
<1>3. Cardinality(B) \in Nat /\ Cardinality(H) \in Nat
  BY <1>2, FS_CardinalityType
<1>4. Cardinality(B) # 0
  BY <1>1, <1>2, FS_EmptySet
<1> QED
  BY <1>2, <1>3, <1>4 DEF PlaceIn, B

\* Adding a body above all others gives it the next place and moves none.
LEMMA PlaceAbove ==
  ASSUME NEW H, IsFiniteSet(H), H \subseteq Nat, NEW n \in Nat, \A j \in H : j < n
  PROVE  /\ n \notin H /\ Cardinality(H \cup {n}) = Cardinality(H) + 1
         /\ \A i \in H : PlaceIn(H \cup {n}, i) = PlaceIn(H, i)
         /\ PlaceIn(H \cup {n}, n) = Cardinality(H) + 1
<1>1. n \notin H
  OBVIOUS
<1>2. Cardinality(H \cup {n}) = Cardinality(H) + 1
  BY <1>1, FS_AddElement
<1>3. ASSUME NEW i \in H PROVE {j \in H \cup {n} : j <= i} = {j \in H : j <= i}
  OBVIOUS
<1>4. {j \in H \cup {n} : j <= n} = H \cup {n}
  <2>1. \A j \in H \cup {n} : j <= n
    OBVIOUS
  <2> QED
    BY <2>1
<1> QED
  BY <1>1, <1>2, <1>3, <1>4 DEF PlaceIn

LEMMA CallsNext ==
  ASSUME Inv, PopNeverEmpty, Bare(stack), CallsAreTheBodies, Inv', PopNeverEmpty', [Next]_vars
  PROVE  CallsAreTheBodies'
<1> SUFFICES ASSUME Len(calls') <= Cardinality(Handles')
             PROVE  /\ Len(calls') = Cardinality(Handles')
                    /\ \A i \in Handles' : calls'[PlaceIn(Handles', i)] = stack'[i].call
  BY DEF CallsAreTheBodies, Place, PlaceIn
<1>1. /\ IsFiniteSet(Handles) /\ Cardinality(Handles) \in Nat
      /\ Handles \subseteq 1 .. Len(stack) /\ Len(stack) \in Nat
      /\ calls \in Seq(0 .. MaxCalls) /\ Len(calls) \in Nat
      /\ Top.handle => Len(stack) \in Handles
      /\ Len(calls) >= Cardinality(Handles)
  BY HandlesCount, SMTT(30) DEF Inv, TypeOK, PopNeverEmpty
<1>2. IsFiniteSet(Handles') /\ Cardinality(Handles') \in Nat /\ Len(calls') \in Nat
      /\ Len(calls') = Cardinality(Handles')
  <2>1. Handles' \in SUBSET (1 .. Len(stack')) /\ Len(stack') \in Nat /\ Len(calls') \in Nat
    BY SMTT(30) DEF Inv, TypeOK, Handles
  <2>2. IsFiniteSet(Handles')
    <3>1. PICK m \in Nat : m = Len(stack')
      BY <2>1
    <3>2. IsFiniteSet(1 .. m)
      BY FS_Interval
    <3> QED
      BY <2>1, <3>1, <3>2, FS_Subset
  <2>3. Cardinality(Handles') \in Nat
    BY <2>2, FS_CardinalityType
  <2> QED
    BY <2>1, <2>2, <2>3 DEF PopNeverEmpty
<1>3. Len(calls) <= Cardinality(Handles)
        => /\ Len(calls) = Cardinality(Handles)
           /\ \A i \in Handles : /\ calls[PlaceIn(Handles, i)] = stack[i].call
                                 /\ PlaceIn(Handles, i) \in 1 .. Len(calls)
  <2>1. Handles \subseteq Nat
    BY <1>1
  <2>2. \A i \in Handles : PlaceIn(Handles, i) \in 1 .. Cardinality(Handles)
    BY <1>1, <2>1, PlaceType
  <2> QED
    BY <2>2 DEF CallsAreTheBodies, Place, PlaceIn
<1>4. CASE Tracks
  <2>1. Stale' = Stale
    BY <1>4, StaleKept
  <2>2. Len(calls) <= Cardinality(Handles)
    BY <1>1, <1>2, <2>1 DEF Stale
  <2>3. /\ Len(calls) = Cardinality(Handles)
        /\ \A i \in Handles : /\ calls[PlaceIn(Handles, i)] = stack[i].call
                              /\ PlaceIn(Handles, i) \in 1 .. Len(calls)
    BY <1>3, <2>2
  <2>4. CASE /\ calls' = calls /\ Handles' = Handles
             /\ \A i \in Handles : stack'[i].call = stack[i].call
    BY <1>2, <2>3, <2>4
  <2>5. CASE /\ calls' = Append(calls, Top.call)
             /\ Len(stack) \notin Handles /\ Handles' = Handles \cup {Len(stack)}
             /\ stack'[Len(stack)].call = Top.call
             /\ \A i \in Handles : stack'[i] = stack[i]
    <3>1. PICK n \in Nat : n = Len(stack)
      BY <1>1
    <3>2. Handles \subseteq Nat /\ \A j \in Handles : j < n
      BY <1>1, <2>5, <3>1
    <3>3. /\ \A i \in Handles : PlaceIn(Handles \cup {n}, i) = PlaceIn(Handles, i)
          /\ PlaceIn(Handles \cup {n}, n) = Cardinality(Handles) + 1
      BY <1>1, <3>2, PlaceAbove, ZenonT(30)
    <3>4. Top.call \in 0 .. MaxCalls
      BY TopFrame DEF Frame
    <3>5. /\ calls'[Len(calls) + 1] = Top.call
          /\ \A k \in 1 .. Len(calls) : calls'[k] = calls[k]
      BY <1>1, <2>5, <3>4
    <3>6. \A i \in Handles : calls'[PlaceIn(Handles', i)] = stack'[i].call
      BY <2>3, <2>5, <3>1, <3>3, <3>5
    <3>7. calls'[PlaceIn(Handles', n)] = stack'[n].call
      BY <2>3, <2>5, <3>1, <3>3, <3>5
    <3> QED
      BY <1>2, <2>5, <3>1, <3>6, <3>7
  <2>6. CASE /\ calls' = SubSeq(calls, 1, Len(calls) - 1)
             /\ Top.handle /\ Handles' = Handles \ {Len(stack)}
             /\ \A i \in Handles' : stack'[i] = stack[i]
    <3>1. PICK n \in Nat : n = Len(stack) /\ n \in Handles
      BY <1>1, <2>6
    <3>2. Handles' \subseteq Nat /\ (\A j \in Handles' : j < n) /\ Handles = Handles' \cup {n}
      <4>1. Handles' = Handles \ {n} /\ Handles \subseteq 1 .. n
        BY <1>1, <2>6, <3>1
      <4>2. \A j \in 1 .. n : j \in Nat /\ (j # n => j < n)
        OBVIOUS
      <4> QED
        BY <3>1, <4>1, <4>2
    <3>3. \A i \in Handles' : PlaceIn(Handles, i) = PlaceIn(Handles', i)
      BY <1>2, <3>1, <3>2, PlaceAbove
    <3>4. \A i \in Handles' : PlaceIn(Handles', i) \in 1 .. Len(calls')
      BY <1>2, <3>2, PlaceType
    <3>5. Len(calls') = Len(calls) - 1 /\ \A k \in 1 .. Len(calls) - 1 : calls'[k] = calls[k]
      <4>1. Len(calls') = Len(calls) - 1
        BY <2>6, PopCallsType
      <4> QED
        BY <1>1, <2>6, <4>1
    <3>6. \A i \in Handles' : i \in Handles /\ stack'[i] = stack[i]
      BY <2>6
    <3> QED
      BY <1>2, <2>3, <3>3, <3>4, <3>5, <3>6
  <2> QED
    BY <1>4, <2>4, <2>5, <2>6 DEF Tracks
<1>5. CASE Skips
  <2>1. calls' = calls /\ Handles' \in SUBSET Handles
    BY <1>5 DEF Skips
  <2>2. Cardinality(Handles') <= Cardinality(Handles)
    BY <1>1, <2>1, FS_Subset
  <2>3. Cardinality(Handles') = Cardinality(Handles)
    BY <1>1, <1>2, <2>1, <2>2
  <2>4. Handles' = Handles
    BY <1>1, <2>1, <2>3, FS_Subset
  <2> QED
    BY <1>2, <1>3, <1>5, <2>1, <2>3, <2>4 DEF Skips
<1> QED
  BY <1>4, <1>5, CallsMove

\* Unless a longjmp has left a stale entry, calls lists the activations of the bodies
\* on the stack in their order, at any depth: call_info() is the running function's.
THEOREM CallsListTheBodies == Spec => []CallsAreTheBodies
<1>1. Init => CallsAreTheBodies
  <2>1. Init => Handles = {} /\ calls = <<>>
    BY DEF Init, Handles
  <2>2. Cardinality({}) = 0 /\ Len(<<>>) = 0
    BY FS_EmptySet
  <2> QED
    BY <2>1, <2>2 DEF CallsAreTheBodies
<1>2. ASSUME Inv, PopNeverEmpty, Inv', PopNeverEmpty', Bare(stack), CallsAreTheBodies,
             [Next]_vars
      PROVE  CallsAreTheBodies'
  BY <1>2, CallsNext
<1> QED
  BY <1>1, <1>2, GuardInvariance, HandlersAreBare, PTL DEF Spec
==============================================================================
