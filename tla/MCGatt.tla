-------------------------------- MODULE MCGatt --------------------------------
(* Gatt on small instances. *)
EXTENDS Gatt

Attr(handle, end, type, long) == [handle |-> handle, end |-> end, type |-> type, long |-> long]

\* Six peers: for each procedure attributes with gaps, ends before the last handle and
\* UUIDs of both sizes.
MCDatabases == {
    <<Attr(1, 2, "primary", FALSE), Attr(3, 3, "primary", TRUE), Attr(4, 4, "primary", FALSE)>>,
    <<Attr(1, 1, "included", FALSE), Attr(2, 2, "included", TRUE), Attr(3, 3, "included", TRUE), Attr(4, 4, "included", FALSE)>>,
    <<Attr(1, 1, "descs", FALSE), Attr(2, 2, "chrcs", TRUE), Attr(4, 4, "chrcs", TRUE)>>,
    <<Attr(2, 3, "secondary", FALSE), Attr(4, 4, "secondary", FALSE)>>,
    <<Attr(1, 2, "by_uuid", FALSE), Attr(3, 4, "by_uuid", FALSE)>>,
    <<Attr(1, 1, "read_by_type", FALSE), Attr(2, 2, "read_by_type", TRUE), Attr(4, 4, "read_by_type", TRUE)>>}

Service(uuid, primary, single, incl, chrcs) ==
    [uuid |-> uuid, primary |-> primary, single |-> single, incl |-> incl, chrcs |-> chrcs]

\* The GATT service, one with all there is, a secondary one and one of a single handle.
GattService == Service("gatt", TRUE, FALSE, 0, <<"desc">>)
FullService == Service("a", TRUE, FALSE, 3, <<"plain", "ext", "room">>)
SecondaryService == Service("s", FALSE, FALSE, 0, <<>>)
SingleService == Service("o", TRUE, TRUE, 0, <<>>)
Nothing == Service("none", FALSE, FALSE, 0, <<>>)        \* NoService
MCServices == {GattService, FullService, SecondaryService, SingleService}
MCPeers == {<<GattService, FullService, SecondaryService>>, <<GattService, SingleService, SecondaryService>>,
            <<FullService, GattService, SecondaryService>>, <<SecondaryService, SecondaryService, Nothing>>,
            <<GattService, Nothing, FullService>>, <<GattService, Nothing, Nothing>>}

MCServiceKinds == {<<"uuid16", TRUE>>, <<"uuid128", TRUE>>}
===============================================================================
