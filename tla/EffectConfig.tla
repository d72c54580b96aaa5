----------------------------- MODULE EffectConfig -----------------------------
(***************************************************************************)
(* The light effect configured for each output: its kind and a context on  *)
(* the heap (effect_ctx).  OUTput:EFFect replaces both on core0, inside    *)
(* run_cmd's config_mutex.  core1 copies the configuration, pointers and   *)
(* all, every four seconds, and runs the effects from its copy every 100ms *)
(* without the mutex: for a while its pointer may lag behind the free.     *)
(***************************************************************************)
EXTENDS Integers, FiniteSets

CONSTANTS
    Output,         \* the outputs
    Kind,           \* effect kinds that have a context (fade, blink, pulse)
    Addr,           \* heap addresses a context may get
    NoEffect,       \* EFFECT_NONE
    Null,           \* the null pointer
    MaxCommands     \* bound: OUTput:EFFect commands

ASSUME EffectAssumption ==
    /\ NoEffect \notin Kind /\ Null \notin Addr
    /\ MaxCommands \in Nat

VARIABLES
    effect, ctx,        \* cfg->outputs[o].effect and .effect_ctx
    heap,               \* the kind of context at an address, or NoEffect: free
    c1effect, c1ctx,    \* the same fields of core1_config
    mutex,              \* the holder of config_mutex, or Nobody
    pc0, cmd,           \* core0's place in cmd_out_effect, and its arguments
    new,                \* new_ctx
    pc1, todo,          \* core1's place, and the outputs it has yet to copy
    commands            \* commands so far

core0 == <<effect, ctx, heap, pc0, cmd, new, commands>>
core1 == <<c1effect, c1ctx, pc1, todo>>
vars == <<core0, core1, mutex>>

Nobody == "nobody"
NoCommand == [out |-> Null, kind |-> NoEffect]
Effects == Kind \cup {NoEffect}
Pointer == Addr \cup {Null}

\* Every context belongs to one output, of the kind that output's effect asks
\* for, and an output has a context exactly when it has an effect.
Paired ==
    /\ \A o \in Output : IF effect[o] = NoEffect
                         THEN ctx[o] = Null
                         ELSE ctx[o] \in Addr /\ heap[ctx[o]] = effect[o]
    /\ \A o, p \in Output : ctx[o] = ctx[p] /\ ctx[o] # Null => o = p
    /\ {a \in Addr : heap[a] # NoEffect} = {ctx[o] : o \in Output} \ {Null}

\* json2effect has built the configuration (an effect without a context falls
\* back to none), main copies it to core1_config and starts core1.
Init ==
    /\ effect \in [Output -> Effects] /\ ctx \in [Output -> Pointer]
    /\ heap \in [Addr -> Effects] /\ Paired
    /\ c1effect = effect /\ c1ctx = ctx
    /\ mutex = Nobody /\ commands = 0
    /\ pc0 = "idle" /\ cmd = NoCommand /\ new = Null
    /\ pc1 = "idle" /\ todo = {}

-------------------------------------------------------------------------------
(* run_cmd and cmd_out_effect, on core0 *)

\* Mutant: the command runs as a query does, without the mutex
LockConfigNever(o, k) ==
    /\ pc0 = "idle" /\ commands < MaxCommands
    /\ commands' = commands + 1
    /\ pc0' = "parse" /\ cmd' = [out |-> o, kind |-> k]
    /\ UNCHANGED <<effect, ctx, heap, new, core1, mutex>>

\* mutex_enter_blocking(config_mutex) for a command that is no query
LockConfig(o, k) ==
    /\ pc0 = "idle" /\ commands < MaxCommands
    /\ mutex = Nobody /\ mutex' = "core0"
    /\ commands' = commands + 1
    /\ pc0' = "parse" /\ cmd' = [out |-> o, kind |-> k]
    /\ UNCHANGED <<effect, ctx, heap, new, core1>>

\* effect_parse_args: a context for the new effect, none for EFFECT_NONE
ParseArgs ==
    /\ pc0 = "parse"
    /\ IF cmd.kind = NoEffect
       THEN new' = Null /\ heap' = heap
       ELSE \E a \in {b \in Addr : heap[b] = NoEffect} :
               new' = a /\ heap' = [heap EXCEPT ![a] = cmd.kind]
    /\ pc0' = "effect"
    /\ UNCHANGED <<effect, ctx, cmd, commands, core1, mutex>>

\* calloc fails: the output keeps what it has
ParseFails ==
    /\ pc0 = "parse" /\ cmd.kind # NoEffect
    /\ pc0' = "exit"
    /\ UNCHANGED <<effect, ctx, heap, new, cmd, commands, core1, mutex>>

SetEffect ==
    /\ pc0 = "effect"
    /\ effect' = [effect EXCEPT ![cmd.out] = cmd.kind]
    /\ pc0' = "free"
    /\ UNCHANGED <<ctx, heap, new, cmd, commands, core1, mutex>>

\* Mutant: the old context is not freed
FreeNothing ==
    /\ pc0 = "free"
    /\ pc0' = "ctx"
    /\ UNCHANGED <<effect, ctx, heap, new, cmd, commands, core1, mutex>>

FreeOld ==
    /\ pc0 = "free"
    /\ heap' = [a \in Addr |-> IF a = ctx[cmd.out] THEN NoEffect ELSE heap[a]]
    /\ pc0' = "ctx"
    /\ UNCHANGED <<effect, ctx, new, cmd, commands, core1, mutex>>

SetCtx ==
    /\ pc0 = "ctx"
    /\ ctx' = [ctx EXCEPT ![cmd.out] = new]
    /\ pc0' = "exit"
    /\ UNCHANGED <<effect, heap, new, cmd, commands, core1, mutex>>

UnlockConfig ==
    /\ pc0 = "exit"
    /\ mutex' = Nobody
    /\ pc0' = "idle" /\ cmd' = NoCommand /\ new' = Null
    /\ UNCHANGED <<effect, ctx, heap, commands, core1>>

-------------------------------------------------------------------------------
(* core1_main *)

\* Every 4s: mutex_enter_timeout_us(config_mutex, 100) succeeds; when it does
\* not, core1 keeps its copy.
StartCopy ==
    /\ pc1 = "idle" /\ mutex = Nobody
    /\ mutex' = "core1"
    /\ pc1' = "copy" /\ todo' = Output
    /\ UNCHANGED <<core0, c1effect, c1ctx>>

\* Mutant: the copy keeps the contexts it has
CopyEffectOnly(o) ==
    /\ pc1 = "copy" /\ o \in todo
    /\ c1effect' = [c1effect EXCEPT ![o] = effect[o]]
    /\ todo' = todo \ {o}
    /\ UNCHANGED <<core0, c1ctx, pc1, mutex>>

\* The copy of one output's fields
CopyOutput(o) ==
    /\ pc1 = "copy" /\ o \in todo
    /\ c1effect' = [c1effect EXCEPT ![o] = effect[o]]
    /\ c1ctx' = [c1ctx EXCEPT ![o] = ctx[o]]
    /\ todo' = todo \ {o}
    /\ UNCHANGED <<core0, pc1, mutex>>

EndCopy ==
    /\ pc1 = "copy" /\ todo = {}
    /\ mutex' = Nobody
    /\ pc1' = "idle"
    /\ UNCHANGED <<core0, c1effect, c1ctx, todo>>

Core0Step == ParseArgs \/ ParseFails \/ SetEffect \/ FreeOld \/ SetCtx \/ UnlockConfig
Core1Step == (\E o \in Output : CopyOutput(o)) \/ EndCopy

Next ==
    \/ \E o \in Output, k \in Effects : LockConfig(o, k)
    \/ Core0Step \/ StartCopy \/ Core1Step

\* Commands come or do not; once begun they end.  core1 tries every 4s and
\* meets the mutex free again and again.
Fairness == WF_vars(Core0Step) /\ SF_vars(StartCopy) /\ WF_vars(Core1Step)

Spec == Init /\ [][Next]_vars /\ Fairness

-------------------------------------------------------------------------------
(***************************************************************************)
(* Between commands no context is leaked, freed twice or shared, and each  *)
(* is of its output's kind (cmd_out_effect: effect, free, pointer).        *)
(***************************************************************************)
HeapAccounted == mutex # "core0" => Paired

\* Effect and context are one configuration of output o: both absent, or a
\* context that lives, was made for that effect and is no other output's
OneConfigured(o, e, c) ==
    IF e = NoEffect
    THEN c = Null
    ELSE c \in Addr /\ heap[c] = e /\ \A p \in Output \ {o} : ctx[p] # c

(***************************************************************************)
(* What core1 copies for an output is one pair that was configured for it, *)
(* and what it runs is what it copied: never an effect with the context of *)
(* another effect, of another output, freed or absent, though              *)
(* cmd_out_effect stores the effect, frees the old context and stores the  *)
(* new one in separate steps.                                              *)
(***************************************************************************)
CopiedPaired ==
    [][\A o \in Output :
          IF o \in todo \ todo'
          THEN OneConfigured(o, c1effect'[o], c1ctx'[o])
          ELSE c1effect'[o] = c1effect[o] /\ c1ctx'[o] = c1ctx[o]]_vars

(***************************************************************************)
(* core1's pointers into freed memory do not last: once the commands stop, *)
(* its copy comes to hold the configured effects and contexts, for good.   *)
(***************************************************************************)
StaleContextDropped == <>[](c1effect = effect /\ c1ctx = ctx)

===============================================================================
