--------------------------- MODULE MCScreenConsole ---------------------------
(* Two rows of two cells: three characters wrap the line, four scroll the    *)
(* screen, and six tokens scroll it after a backspace or a colour.           *)
EXTENDS ScreenConsole
=============================================================================
