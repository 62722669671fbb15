---------------------------- MODULE MCSchemaSync ----------------------------
\* Instances of SchemaSync for TLC: chunks of one object, so that catalogues of
\* one and of two messages occur, and two of them share an address.
EXTENDS SchemaSync

ThreeCatalogs == {{1}, {1, 2}, {1, 3}}
TwoCatalogs == {{1}, {1, 2}}
=============================================================================
