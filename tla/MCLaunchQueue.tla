-------------------------- MODULE MCLaunchQueue ---------------------------
(* Two workers open profiles and one more runs maintenance as well; the    *)
(* record viewer of a profile is opened inside the profile's admission     *)
(* (conversation_open.py:113), the profile itself again by Instances.show. *)
EXTENDS LaunchQueue, TLC, FiniteSets

CONSTANTS w1, w2, w3, main, viewer

MCWorkers == {w1, w2, w3}
MCProfiles == {main, viewer}
MCNests == {<<main, main>>, <<main, viewer>>, <<viewer, viewer>>,
            <<Maintenance, main>>, <<Maintenance, viewer>>, <<Maintenance, Maintenance>>}

=============================================================================
