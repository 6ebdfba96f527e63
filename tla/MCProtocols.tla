----------------------------- MODULE MCProtocols -----------------------------
(***************************************************************************)
(* The way in and the way out of the three protocols, for one run of TLC:  *)
(* requests translated, planned and sent to the models (Turn, with the     *)
(* instances of MCTurn), and the events of an answer told on each surface  *)
(* (Surfaces).  Each behaviour goes one of the two ways and leaves the     *)
(* other where it starts; `way` says which.                                *)
(***************************************************************************)
EXTENDS MCTurn, Surfaces

VARIABLE way

In  == way = "in" /\ UNCHANGED <<way, surfaceVars>>
Out == way = "out" /\ UNCHANGED <<way, turnVars>>

\* Where nobody asks anything.
Unasked ==
    /\ scenario = None /\ request = None /\ phase = "boot" /\ turn = 0
    /\ catalog = None /\ plan = None /\ sent = None
    /\ outcomes = <<>> /\ custody = <<>> /\ minted = <<>>

\* Whether the usage is asked for and how fragments are framed are chosen
\* together: the one changes a frame after the last fragment.
Init ==
    /\ \/ way = "in" /\ o = CHOOSE p \in Options : p.usage = p.compat
       \/ way = "out" /\ Unasked
    /\ way = "in" => TurnInit
    /\ SurfacesInit /\ o.usage = o.compat

Next ==
    \/ In /\ Boot
    \/ In /\ Plan
    \/ In /\ MemberCompleted
    \/ In /\ Synthesize
    \/ In /\ ShortCircuit
    \/ In /\ Reply
    \/ In /\ Restart
    \/ Out /\ FanOut
    \/ Out /\ SkipFanOut
    \/ Out /\ MemberDone
    \/ Out /\ Synthesis
    \/ Out /\ AnswerDelta
    \/ Out /\ ToolCallStarted
    \/ Out /\ ToolCallDelta
    \/ Out /\ Completed
    \/ Out /\ PipelineFailed
    \/ Out /\ Cut

Spec == Init /\ [][Next]_<<way, turnVars, surfaceVars>>
=============================================================================
