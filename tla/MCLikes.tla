------------------------------ MODULE MCLikes -------------------------------
EXTENDS Likes
=============================================================================
