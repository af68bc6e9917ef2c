----------------------------- MODULE MCDataPath -----------------------------
(* Values of the constants for the run of module DataPath. *)
EXTENDS DataPath

S(dir, rel, c, ready) ==
    [NewStream EXCEPT !.dir = dir, !.pos_rel_id = rel, !.client = c,
                      !.fh = ready, !.ready = ready]

C(execed, s0, s1) ==
    [fh |-> TRUE, execed |-> execed, streams |-> [k \in Slot |-> IF k = 0 THEN s0 ELSE s1]]

Tab(s0, s1, s2, c0, c1) ==
    LET row == <<s0, s1, s2>>
        used == {s \in SID : row[s + 1] # NULL}
    IN  [streams  |-> [s \in SID |-> row[s + 1]],
         clients  |-> [c \in CID |-> IF c = 0 THEN c0 ELSE c1],
         nstreams |-> Cardinality(used), nclients |-> 2,
         thru     |-> Cardinality({s \in used : row[s + 1].dir = "THRU"}),
         alive    |-> TRUE]

Server_(t, monitors, headed, pre, asked) ==
    [tab |-> t, monitors |-> monitors, headed |-> headed, prethru |-> pre, asked |-> asked]

DPSetups ==
    { \* an input stream and what requests do to it
      Server_(Tab(S("PLAY", None, 0, TRUE), S("THRU", 0, 1, FALSE), NULL,
                  C(None, 0, None), C(None, 1, None)), {}, {}, {}, {0}),
      \* a copy of a copy; the second is not connected yet
      Server_(Tab(S("PLAY", None, 0, TRUE), S("THRU", 0, 1, TRUE), S("THRU", 1, 1, FALSE),
                  C(None, 0, None), C(None, 1, 2)), {}, {}, {}, {}),
      \* two copies; the client of the stream has been turned into the first
      Server_(Tab(S("PLAY", None, 0, TRUE), S("THRU", 0, 0, TRUE), S("THRU", 0, 1, TRUE),
                  C(1, 0, 1), C(None, 2, None)), {}, {}, {}, {}),
      \* raw data and a copy of it
      Server_(Tab(S("RAW_OUT", None, 0, TRUE), S("RAW_IN", 0, 1, TRUE), S("THRU", 0, 1, FALSE),
                  C(None, 0, None), C(None, 1, 2)), {}, {}, {}, {1}),
      \* a monitor in RIFF/WAVE with a copy that wants the header and one that
      \* does not
      Server_(Tab(S("PLAY", None, 0, TRUE), S("THRU", 0, 1, FALSE), S("THRU", 0, 1, TRUE),
                  C(None, 0, None), C(None, 1, 2)), {0}, {0}, {1}, {0}) }
=============================================================================
