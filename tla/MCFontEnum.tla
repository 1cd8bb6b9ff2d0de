------------------------------ MODULE MCFontEnum ------------------------------
(* A font that keeps its name, one that is renamed, and an unwanted one: a   *)
(* substitute whose name is the one the second is renamed to.                *)
EXTENDS FontEnum, TLC

CONSTANTS plain, english, alias

MCFonts   == {plain, english, alias}
MCNameOf  == (plain :> "plain") @@ (english :> "english")
             @@ (alias :> "japanese")
MCNewName == [MCNameOf EXCEPT ![english] = "japanese"]
=============================================================================
