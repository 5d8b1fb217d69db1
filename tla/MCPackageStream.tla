--------------------------- MODULE MCPackageStream ---------------------------
(* PackageStream for TLC. *)
EXTENDS PackageStream
=============================================================================
