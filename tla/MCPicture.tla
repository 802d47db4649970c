----------------------------- MODULE MCPicture -----------------------------
(* Every format, with slices that do not divide the picture: the last      *)
(* column and the last row are cropped, and the widths and heights are odd *)
(* where the format allows it.                                             *)
EXTENDS Picture

P(format, pw, ph, sw, sh) ==
    [format |-> format, pic_width |-> pw, pic_height |-> ph, slice_width |-> sw,
     slice_height |-> sh]

MCPictures ==
    {P("rgb", 5, 3, 3, 2), P("444", 5, 3, 2, 2), P("simple_422", 5, 3, 4, 1),
     P("simple_422", 7, 2, 2, 1), P("native_422", 5, 3, 4, 2), P("native_420", 7, 5, 4, 2),
     P("native_420", 3, 3, 2, 2)}
=============================================================================
