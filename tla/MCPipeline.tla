------------------------------ MODULE MCPipeline -------------------------------
(* Small instances of Pipeline. *)
EXTENDS Pipeline

\* Every picture has a detection with a box, so that every result shows its picture.
OneBox == {<<TRUE>>}
================================================================================
