----------------------------- MODULE MCKeyInput -----------------------------
(* A letter, Enter, Backspace and Delete with every kind of modifier, and   *)
(* a buffer of 2: the first character fills it, the second meets the limit. *)
EXTENDS KeyInput

MCCharKeys == {"A", "Back", "Enter", "Delete"}
MCLower == [k \in MCCharKeys |->
              CASE k = "A" -> "a" [] k = "Back" -> "bs" [] k = "Enter" -> "nl" [] k = "Delete" -> "."]
MCUpper == [MCLower EXCEPT !["A"] = "A"]

\* The keys the user touches: right control and right alt behave as the
\* left ones do, and both shift keys are there to be held together.
MCInUse == {"A", "Back", "Enter", "Delete", "F12",
            "LeftShift", "RightShift", "LeftControl", "LeftAlt"}
=============================================================================
