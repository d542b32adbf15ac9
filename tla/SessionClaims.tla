--------------------------- MODULE SessionClaims ---------------------------
(***************************************************************************)
(* What the repository's documents and comments say of the session and its *)
(* saves, each stated as it is worded.  The runs that check these find     *)
(* them refuted by what the code does.                                     *)
(***************************************************************************)
EXTENDS Session

(***************************************************************************)
(* "A crash between the two renames leaves a good `.bak` and no primary"   *)
(* (SYSTEMS.md:478): persist/mod.rs:193-198 rotates whatever the primary   *)
(* is, and after a restore that is the damaged file, over the good backup. *)
(***************************************************************************)
CrashLeavesAGoodBackup ==
    [][dir.primary # Missing /\ dir'.primary = Missing => Good(dir'.backup)]_vars

(***************************************************************************)
(* "it saves on the way out like every other exit" (UI.md:2359): a player  *)
(* who quits a game on a working disk finds it as they left it, whatever   *)
(* the size of the window (session.rs:1000-1006).                          *)
(***************************************************************************)
EveryExitSaves ==
    [][(QuitGame \/ QuitCramped) /\ app # NoApp /\ persists /\ disk = "ok"
            => Good(Found(dir')) /\ Ahead(Found(dir').run, app.run)]_vars
=============================================================================
