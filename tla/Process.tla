------------------------------ MODULE Process -------------------------------
(***************************************************************************)
(* The threads of one process of the application.                          *)
(***************************************************************************)
CONSTANTS
    Threads,   \* threads inside a call of the library
    None       \* Option::None: no thread, no packet, no key

=============================================================================
