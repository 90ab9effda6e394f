--------------------------- MODULE MCRenderGraph ---------------------------
(***************************************************************************)
(* Small instances of RenderGraph.                                         *)
(***************************************************************************)
EXTENDS RenderGraph

CONSTANTS tex, buf, back

\* A managed texture beside a mipmapped one; two managed textures that can
\* share an object; depth beside the window; managed and imported buffers.
MCSetups ==
    LET texture == Managed("texture", FALSE)
        depth == Managed("depth", FALSE)
        buffer == Managed("buffer", FALSE)
        window == <<texture, ImportOf("texture", back)>>
    IN  {<<texture, ImportOf("texture", tex)>>,
         <<texture, texture>>,
         <<depth>> \o window,
         <<buffer, ImportOf("buffer", buf)>>}

=============================================================================
