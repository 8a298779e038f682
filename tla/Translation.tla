---------------------------- MODULE Translation ------------------------------
(***************************************************************************)
(* The translator (src/app/ai/translator.c) on two contexts of the model   *)
(* runtime (src/app/ai/rknn_runtime.c).  The runtime lends its outputs     *)
(* until the context's next run; the translator keeps the encoder's while  *)
(* it runs the decoder once per token.  Any call into the runtime may      *)
(* fail, and a translation that fails is followed by the next one.  That   *)
(* rknn_outputs_release fails is only logged and changes nothing in the    *)
(* program; "given back" means that it has been called for the outputs.    *)
(***************************************************************************)
EXTENDS Integers, Sequences, FiniteSets, SequencesExt

CONSTANTS Capacities,   \* tgt_capacity of the models that may be found
          MaxCalls,     \* bound on translations
          MaxTrFaults   \* bound on failing runtime calls

ASSUME TrAssumption ==
  /\ Capacities \subseteq Nat \ {0}
  /\ MaxCalls \in Nat /\ MaxTrFaults \in Nat

Contexts == {"enc", "dec"}
Inputs == [enc |-> {"tokens"}, dec |-> {"tokens", "state"}]
NoPointer == <<0, 0>>      \* no input pointer

VARIABLES loaded,   \* contexts that exist
          in,       \* input_bufs: the call and round that set each input
          out,      \* outputs held: number of the run that made them, or 0
          lent,     \* outputs lent and not given back
          trUsed,   \* the inputs the latest run of a context was given
          runs,     \* runs so far, which number the outputs
          capacity, steps, trPc, call, trState, ids, trFaults
trVars == <<loaded, in, out, lent, trUsed, runs, capacity, steps, trPc, call,
            trState, ids, trFaults>>
runtime == <<in, out, lent, trUsed, runs>>
shape == <<capacity, steps>>

NoInput == [c \in Contexts |-> [i \in Inputs[c] |-> NoPointer]]
TrInit ==
  /\ loaded = {} /\ in = NoInput /\ trUsed = NoInput
  /\ out = [c \in Contexts |-> 0] /\ lent = [c \in Contexts |-> {}]
  /\ runs = 0 /\ trFaults = 0 /\ call = 0 /\ trState = 0 /\ ids = <<>>
  /\ capacity \in Capacities /\ steps \in 1..capacity
  /\ trPc = "load"

MayFail == trFaults < MaxTrFaults /\ trFaults' = trFaults + 1
Round == Len(ids)
Return == trPc' = "idle" /\ trState' = 0

---------------------------------------------------------------------------
\* translator_init: both models, then the shapes they must agree on.

Contract == capacity > 1 /\ (steps = 1 \/ steps >= capacity)

Load ==
  /\ trPc = "load" /\ loaded # Contexts
  /\ loaded' = loaded \cup {IF loaded = {} THEN "enc" ELSE "dec"}
  /\ UNCHANGED <<runtime, shape, trPc, call, trState, ids, trFaults>>
LoadFails ==
  /\ trPc = "load" /\ loaded # Contexts
  /\ MayFail /\ trPc' = "destroy"
  /\ UNCHANGED <<runtime, loaded, shape, call, trState, ids>>
Validate ==
  /\ trPc = "load" /\ loaded = Contexts
  /\ trPc' = IF Contract THEN "idle" ELSE "destroy"
  /\ UNCHANGED <<runtime, loaded, shape, call, trState, ids, trFaults>>

---------------------------------------------------------------------------
\* The runtime: an input is set, all inputs are run, outputs are borrowed.
SetInput(c, i, next) ==
  /\ \/ /\ in' = [in EXCEPT ![c][i] = <<call, Round>>]
        /\ trPc' = next
        /\ UNCHANGED <<trState, trFaults>>
     \/ MayFail /\ Return /\ UNCHANGED in
  /\ UNCHANGED <<out, lent, trUsed, runs, loaded, shape, call, ids>>

\* release_outputs: the context's earlier outputs go back to the runtime.
Released(c) == [out EXCEPT ![c] = 0]
Borrowed(c, o) == [lent EXCEPT ![c] = (@ \ {out[c]}) \cup o]

\* ocr_rknn_run: refused when an input is missing; the inputs are used up;
\* outputs the runtime gives before it fails are given back at once.
Run(c, next) ==
  /\ \A i \in Inputs[c] : in[c][i] # NoPointer
  /\ trUsed' = [trUsed EXCEPT ![c] = in[c]]
  /\ in' = [in EXCEPT ![c] = NoInput[c]]
  /\ runs' = runs + 1
  /\ \/ /\ out' = [Released(c) EXCEPT ![c] = runs + 1]
        /\ lent' = Borrowed(c, {runs + 1})
        /\ trPc' = next
        /\ UNCHANGED <<trState, trFaults>>
     \/ MayFail /\ Return /\ out' = Released(c) /\ lent' = Borrowed(c, {})
  /\ UNCHANGED <<loaded, shape, call, ids>>

---------------------------------------------------------------------------
\* translator_translate: PAD fills the source, the encoder runs once, BOS
\* begins the target.
Translate ==
  /\ trPc = "idle" /\ call < MaxCalls
  /\ call' = call + 1 /\ ids' = <<>> /\ trPc' = "source"
  /\ UNCHANGED <<runtime, loaded, shape, trState, trFaults>>
SetSource == trPc = "source" /\ SetInput("enc", "tokens", "encode")
Encode == trPc = "encode" /\ Run("enc", "borrow")
Borrow ==
  /\ trPc = "borrow"
  /\ trState' = out["enc"] /\ ids' = <<"bos">> /\ trPc' = "prefix"
  /\ UNCHANGED <<runtime, loaded, shape, call, trFaults>>

SetPrefix ==
  /\ trPc = "prefix" /\ Len(ids) < capacity
  /\ SetInput("dec", "tokens", "state")
SetState == trPc = "state" /\ SetInput("dec", "state", "decode")
Decode == trPc = "decode" /\ Run("dec", "choose")

\* The row of the logits for the token that follows the prefix.
Row == IF steps = 1 THEN 1 ELSE Len(ids)

\* A row whose scores are all NaN or infinite ends the translation.
Choose ==
  /\ trPc = "choose"
  /\ \/ \E best \in {"word", "eos"} :
          /\ ids' = Append(ids, best)
          /\ trPc' = IF best = "eos" THEN "text" ELSE "prefix"
          /\ UNCHANGED <<trState, trFaults>>
     \/ MayFail /\ Return /\ UNCHANGED ids
  /\ UNCHANGED <<runtime, loaded, shape, call>>

\* tokenizer_decode of what there is, when EOS came or the room is used up.
Text ==
  /\ trPc = "text" \/ (trPc = "prefix" /\ Len(ids) >= capacity)
  /\ Return
  /\ UNCHANGED <<runtime, loaded, shape, call, ids, trFaults>>

\* translator_destroy, also of an initialisation that stopped half way.
Destroy ==
  /\ trPc \in {"idle", "destroy"} /\ trPc' = "gone"
  /\ loaded' = {}
  /\ in' = NoInput
  /\ out' = [c \in Contexts |-> 0]
  /\ lent' = [c \in Contexts |-> lent[c] \ {out[c]}]
  /\ UNCHANGED <<trUsed, runs, shape, call, trState, ids, trFaults>>

TrNext == Load \/ LoadFails \/ Validate \/ Translate \/ SetSource \/ Encode
          \/ Borrow \/ SetPrefix \/ SetState \/ Decode \/ Choose \/ Text
          \/ Destroy
TrSpec == TrInit /\ [][TrNext]_trVars

---------------------------------------------------------------------------
\* The encoder state a decoder run is given is the output of this call's
\* encoder run and still lent; every run was given inputs of its own call
\* and round only; the row that is read exists and follows the last token;
\* and every output is given back to the runtime exactly once.
TranslationSound ==
  /\ trPc \in {"prefix", "state", "decode", "choose", "text"} =>
       trState # 0 /\ trState \in lent["enc"] /\ trUsed["enc"]["tokens"][1] = call
  /\ trPc = "choose" =>
       /\ \A i \in Inputs["dec"] : trUsed["dec"][i] = <<call, Round>>
       /\ Row \in 1..steps
       /\ steps > 1 => Row = Len(ids)
  /\ Len(ids) <= capacity
  /\ \A c \in Contexts : lent[c] = IF out[c] = 0 THEN {} ELSE {out[c]}
  /\ trPc = "gone" => \A c \in Contexts : lent[c] = {}
=============================================================================
