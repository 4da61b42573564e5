----------------------------- MODULE MCWorldview -----------------------------
(* Instances of Worldview for TLC.                                          *)
EXTENDS Worldview

CONSTANTS loop, job,          \* threads
          note,               \* a memory
          frame,              \* a frame about it
          claim,              \* a grounded claim
          topic, detail       \* slot keys

\* The frame and the claim share a slot, the memory has one of its own.
FrameSources == [f \in {frame} |-> {note}]
SlotKeys == [s \in {note, frame, claim} |-> IF s = note THEN detail ELSE topic]

=============================================================================
