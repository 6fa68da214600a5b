------------------------------- MODULE MCTrack ------------------------------
(* Two bridges and one port that may move between them. *)
EXTENDS BridgeTrack, TLC
CONSTANTS
    b1, b2, p1,
    MaxMissed       \* interfaces at a time that wait for a notification to
                    \* make up for one that was lost

Symmetry == Permutations({b1, b2})

MCTrackNext == TrackNext /\ Cardinality(missed') <= MaxMissed
MCTrackSpec == TrackInit /\ [][MCTrackNext]_trackVars

\* No request overtakes a notification.
InOrderSpec == TrackInit /\ [][MCTrackNext /\ (HandleRequest => Quiet)]_trackVars
=============================================================================
