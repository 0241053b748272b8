---------------------------- MODULE MCGitAccess ----------------------------
(* Small instances of GitAccess: two spellings of one path, two users that *)
(* differ in case, and a key that nobody registered.                       *)
EXTENDS GitAccess, TLC

CONSTANTS admin, Admin, bob, key1, key2, app, slashApp, appSlug, otherSlug

MCFold     == admin :> admin @@ Admin :> admin @@ bob :> bob
MCOwner    == key1 :> admin @@ key2 :> Nothing
MCStripped == app :> app @@ slashApp :> app
MCSlugOf   == app :> appSlug @@ slashApp :> appSlug

============================================================================
