-------------------------------- MODULE MCRooms --------------------------------
EXTENDS Rooms
=============================================================================
