--------------------------- MODULE MCMessageMemory ---------------------------
(***************************************************************************)
(* Instances of MessageMemory for TLC: a conversation of voice sessions and  *)
(* one the history API writes to; a user who gives a name, another one, and   *)
(* takes the first back.                                                     *)
(***************************************************************************)
EXTENDS MessageMemory

CONSTANTS a, b

MCMaxSaves == (a :> 4) @@ (b :> 1)

Event(action, type, key, value, sure) ==
  [action |-> action, type |-> type, key |-> key, value |-> value, sure |-> sure,
   durability |-> "stable"]

MCExtractions ==
  { <<Event("upsert", "profile", "name", "Asha", TRUE)>>,
    <<Event("upsert", "profile", "real_name", "Ravi", TRUE),
      Event("upsert", "profile", "real_name", "Nobody", FALSE)>>,
    <<Event("deactivate", "profile", "real_name", "Asha", TRUE),
      Event("upsert", "preference", "real_name", "Ravi", TRUE)>> }

MCSingleKeys == {"real_name", "location"}

MCLower(value) ==
  CASE value = "Asha" -> "asha" [] value = "Ravi" -> "ravi" [] OTHER -> value
=============================================================================
