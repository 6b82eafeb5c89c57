------------------------------- MODULE MCBundle -----------------------------
(* Three payload paths, one of them below another; two contents of one size  *)
(* and a longer one.                                                         *)
EXTENDS BundlePipeline

CONSTANTS p1, p2, below, here, swapped, long, v1, c1

Sizes == [x \in Contents |-> IF x = long THEN 2 ELSE 1]
Nested == {<<below, p1>>}

Sources == {s \in [Paths -> {here, None}] : OnFileSystem(s)}
Empty   == [p \in Paths |-> None]
Two     == [Empty EXCEPT ![p1] = here, ![p2] = here]

Uniform == UNION {[S -> {here}] : S \in (SUBSET Paths) \ {{}}}

ByHand(files) == [by |-> Nothing, files |-> files, whole |-> TRUE]

Scenario(src, mfst, changes, ws, cs, reads) ==
    [source |-> src, manifest |-> mfst, edits |-> changes,
     setting |-> [writers |-> ws, creators |-> cs, reader |-> reads, foreign |-> {}]]

(* From the payloads to the bundle; *)
Generated ==
    {Scenario(s, Nothing, 1, {v1}, {c1}, TRUE) : s \in Sources}
        \cup {Scenario(Two, Nothing, 1, Writers, {c1}, FALSE),
              Scenario(Two, Nothing, 0, {v1}, Creators, TRUE)}

(* with a manifest written by hand, for the payloads or not; *)
Manual ==
    {Scenario(Two, ByHand(f), 2, {}, Creators, FALSE) : f \in Uniform}
        \cup {Scenario(Two, ByHand(f), 2, {v1}, {c1}, TRUE) : f \in Uniform}

(* and foreign archives.                                                     *)
Foreign ==
    {[source |-> Empty, manifest |-> Nothing, edits |-> 0,
      setting |-> [writers |-> {}, creators |-> {}, reader |-> FALSE,
                   foreign |-> Uniform
                       \cup {[q \in {p1, p2} |-> IF q = p1 THEN long ELSE here]}]]}

AllScenarios == Generated \cup Manual \cup Foreign
=============================================================================
