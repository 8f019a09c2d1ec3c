--------------------------- MODULE DurableTraining ---------------------------
(***************************************************************************)
(* What a training job with checkpoints promises, with nothing said of     *)
(* files, counters, data loaders or trainers: the optimizer goes forward,  *)
(* a save makes all that was trained durable at one stroke, and a crash at *)
(* any moment falls back to the last save and to nothing else.             *)
(***************************************************************************)
EXTENDS Sequences, SequencesExt

VARIABLES
    trained,    \* the batches the weights have been trained on, in order
    durable     \* those of the weights that a crash leaves

Init ==
    /\ trained = <<>>
    /\ durable = <<>>

Train ==
    /\ IsPrefix(trained, trained')
    /\ UNCHANGED durable

Save ==
    /\ durable' = trained
    /\ UNCHANGED trained

Crash ==
    /\ trained' = durable
    /\ UNCHANGED durable

Next == Train \/ Save \/ Crash

Spec == Init /\ [][Next]_<<trained, durable>>
=============================================================================
