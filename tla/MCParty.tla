------------------------------- MODULE MCParty --------------------------------
\* Small instances of PartyHandler: three sessions, the creator's and two more,
\* each of a user of its own.  The configurations' constants make a closed
\* party; MCPartyBoth also runs an open one.
EXTENDS PartyHandler

CONSTANTS s1, s2, s3, u1, u2, u3

Three == {s1, s2, s3}
ThreeUsers == {u1, u2, u3}
OneSessionEach == s1 :> u1 @@ s2 :> u2 @@ s3 :> u3

\* The guests, with their users, are interchangeable.
SwapGuests == {s2 :> s2 @@ s3 :> s3 @@ u2 :> u2 @@ u3 :> u3,
               s2 :> s3 @@ s3 :> s2 @@ u2 :> u3 @@ u3 :> u2}
===============================================================================
