----------------------- MODULE ConfigurationProperties -----------------------
(***************************************************************************)
(* What the validation of the environment promises.                        *)
(***************************************************************************)
EXTENDS Configuration

\* Two repairs are enough, whatever was wrong: the first report names all that
\* is missing or malformed, the second all that does not go together, also
\* what the first repair made a problem (a NODE_ENV that is now production).
\* One is not always (validateEnv: "one boot, one fix cycle").
TwoRepairsAreEnough == repairs <= 2
=============================================================================
