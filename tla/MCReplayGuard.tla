--------------------------- MODULE MCReplayGuard ----------------------------
(***************************************************************************)
(* Three authors and room for two, a window of two, four clock values from *)
(* zero and two identities at each of them: an author can fill its window, *)
(* slide it twice, arrive late, repeat and equivocate.                     *)
(***************************************************************************)
EXTENDS ReplayStore

MCHlcs == 0..3

\* Exactly the image of two full windows.
MCImageBytes == FrameBytes + 2 * (OriginBytes + 2 * EntryBytes)

=============================================================================
