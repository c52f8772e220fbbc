--------------------------- MODULE MCTextureCache ---------------------------
(* Model values for TextureCache: see the bounds in README.md.             *)
EXTENDS TextureCache, TLC

Symmetry == Permutations(Addr) \cup Permutations(Content)
            \cup Permutations(Loader)
=============================================================================
