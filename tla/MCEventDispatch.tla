-------------------------- MODULE MCEventDispatch --------------------------
(* Small instances of EventDispatch for TLC. *)
EXTENDS EventDispatch, TLC

CONSTANTS tidy, sort, inbox, done, draft, final

AllDirs == {inbox, done}
AllNames == {draft, final}

\* tidy: unfiltered, on uploads; sort: on moves, for what is in the inbox.
Defs ==
    (tidy :> [on |-> "upload", admits |-> Resolutions,
              acts |-> <<[do |-> "comment"], [do |-> "copy", to |-> done]>>])
    @@ (sort :> [on |-> "move", admits |-> {inbox} \X Names,
                 acts |-> <<[do |-> "rename", to |-> final]>>])

TheirPaths == AllDirs \X {draft}

\* Every fault but a failing path lookup.
PathsResolve == {"stream", "load", "record"}
PathsFail == {"path"}
=============================================================================
